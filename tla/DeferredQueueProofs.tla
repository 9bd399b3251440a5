-------------------------- MODULE DeferredQueueProofs --------------------------
(***************************************************************************)
(* Theorems about the digest and the quiet-hours queue, for any users,     *)
(* items, drains, timezones and faults.                                    *)
(***************************************************************************)
EXTENDS DeferredQueue, TLAPS

\* Items are in their own user's list and hands, once their push was called.
Belongs ==
    /\ \A u \in Users : \A i \in list[u] : UserOf[i] = u /\ pc[i] /= "called"
    /\ \A d \in Drains, u \in Users : \A i \in hand[<<d, u>>] :
            UserOf[i] = u /\ pc[i] /= "called"

Fresh == \A i \in Items : pc[i] = "called" => delivered[i] = 0

\* How far a drain is with a user, and what it has in its hand for the user.
DrainFits(d, u) ==
    /\ visit[<<d, u>>] \in {"none", "listed"} => hand[<<d, u>>] = {}
    /\ visit[<<d, u>>] \in {"listed", "read"} => drain[d] \in {"open", "failed"}
    /\ drain[d] \in {"new", "returned"} => visit[<<d, u>>] = "none"
    /\ drain[d] = "open" /\ visit[<<d, u>>] = "done" => hand[<<d, u>>] \cap list[u] = {}
    /\ visit[<<d, u>>] = "read" => early \cap list[u] \subseteq hand[<<d, u>>]

EarlyFits == \A i \in early : pc[i] = "queued" /\ i \notin swept

BeforeDue == ~due => swept = {} /\ \A d \in Drains : drain[d] = "new"

\* A drain that has not failed has deleted the item and will return it.
Carried(i) ==
    \E d \in Drains :
        /\ drain[d] = "open"
        /\ visit[<<d, UserOf[i]>>] = "done"
        /\ i \in hand[<<d, UserOf[i]>>]

Accounted(i) ==
    pc[i] \in {"pushed", "indexed", "queued"} =>
        \/ i \in list[UserOf[i]] \/ Carried(i) \/ delivered[i] > 0
        \/ i \in dropped \cup swept

OneAtWork == ~overlap => \A d, e \in Drains : AtWork(d) /\ AtWork(e) => d = e

\* While drains do not overlap, an item returned is in no list and no hand.
Once(i) ==
    ~overlap =>
        /\ delivered[i] <= 1
        /\ delivered[i] > 0 =>
            /\ i \notin list[UserOf[i]]
            /\ \A d \in Drains : drain[d] = "open" => i \notin hand[<<d, UserOf[i]>>]

DeferredInv ==
    /\ TypeOK /\ Belongs /\ Fresh /\ EarlyFits /\ BeforeDue /\ OneAtWork
    /\ \A d \in Drains, u \in Users : DrainFits(d, u)
    /\ \A i \in Items : Accounted(i) /\ Once(i)

LEMMA ItemUser == \A i \in Items : UserOf[i] \in Users
  <1>1. UserOf \in [Items -> Users]
      BY DeferredAssumption
  <1> QED
      BY <1>1

LEMMA InitDeferred == Init => DeferredInv
  <1> SUFFICES ASSUME Init PROVE DeferredInv
      OBVIOUS
  <1>0. 0 \in 0..MaxDelivered
      BY DEF MaxDelivered
  <1>1. TypeOK
      BY <1>0 DEF Init, TypeOK, InFlight
  <1>2. Belongs /\ Fresh /\ EarlyFits /\ BeforeDue
      BY DEF Init, Belongs, Fresh, EarlyFits, BeforeDue
  <1>3. OneAtWork
      BY DEF Init, OneAtWork, AtWork
  <1>4. \A d \in Drains, u \in Users : DrainFits(d, u)
      BY DEF Init, DrainFits
  <1>5. \A i \in Items : Accounted(i) /\ Once(i)
      BY ItemUser DEF Init, Accounted, Once
  <1> QED
      BY <1>1, <1>2, <1>3, <1>4, <1>5 DEF DeferredInv

\* A drain fits as before when nothing of its own changes, unless it fails.
LEMMA FitsKept ==
    ASSUME NEW d \in Drains, NEW u \in Users, DrainFits(d, u),
           visit'[<<d, u>>] = visit[<<d, u>>], hand'[<<d, u>>] = hand[<<d, u>>],
           drain'[d] = drain[d] \/ drain'[d] = "failed",
           list'[u] \subseteq list[u], early' \subseteq early
    PROVE  DrainFits(d, u)'
  BY DEF DrainFits

\* A pushed item was in no hand, and nobody has returned from pushing it.
LEMMA FitsPushed ==
    ASSUME NEW d \in Drains, NEW u \in Users, DrainFits(d, u), NEW i,
           i \notin hand[<<d, u>>], i \notin early, UNCHANGED <<visit, hand, drain, early>>,
           list'[u] \subseteq list[u] \cup {i}
    PROVE  DrainFits(d, u)'
  BY DEF DrainFits

LEMMA FitsAtStart ==
    ASSUME NEW d \in Drains, NEW u \in Users, DrainFits(d, u), drain[d] = "new",
           visit'[<<d, u>>] \in {"none", "listed"}, hand'[<<d, u>>] = hand[<<d, u>>],
           drain'[d] = "open"
    PROVE  DrainFits(d, u)'
  BY DEF DrainFits

LEMMA FitsRead ==
    ASSUME NEW d \in Drains, NEW u \in Users, DrainFits(d, u), visit[<<d, u>>] = "listed",
           visit'[<<d, u>>] = "read", hand'[<<d, u>>] = list[u], list' = list,
           drain' = drain
    PROVE  DrainFits(d, u)'
  BY DEF DrainFits

LEMMA FitsDeleted ==
    ASSUME NEW d \in Drains, NEW u \in Users, DrainFits(d, u), visit[<<d, u>>] = "read",
           visit'[<<d, u>>] = "done", list'[u] = {}, drain'[d] = drain[d]
    PROVE  DrainFits(d, u)'
  BY DEF DrainFits

LEMMA FailsAlone ==
    ASSUME TypeOK, NEW d \in Drains, NEW u \in Users, DrainThrows(d, u), NEW e \in Drains
    PROVE  drain'[e] = drain[e] \/ (e = d /\ drain'[e] = "failed")
  <1>1. drain' = [drain EXCEPT ![d] = "failed"] /\ DOMAIN drain = Drains
      BY DEF TypeOK, DrainThrows
  <1>2. CASE e = d
    <2>1. drain'[d] = "failed"
        BY <1>1
    <2> QED
        BY <1>2, <2>1
  <1>3. CASE e /= d
    <2>1. drain'[e] = drain[e]
        BY <1>1, <1>3
    <2> QED
        BY <2>1
  <1> QED
      BY <1>2, <1>3

LEMMA GoneItems ==
    ASSUME TypeOK, NEW d \in Drains
    PROVE  Gone(d) \subseteq Items
  <1> SUFFICES ASSUME NEW i \in Gone(d) PROVE i \in Items
      OBVIOUS
  <1>1. PICK v \in Users : i \in hand[<<d, v>>]
      BY DEF Gone
  <1>2. hand[<<d, v>>] \subseteq Items
      BY DEF TypeOK
  <1> QED
      BY <1>1, <1>2

\* What a drain has taken and deleted of an item.
LEMMA HandOfItem ==
    ASSUME Belongs, NEW d \in Drains, NEW i \in Items
    PROVE  /\ i \in Taken(d) <=> i \in hand[<<d, UserOf[i]>>]
           /\ i \in Gone(d) <=> visit[<<d, UserOf[i]>>] = "done" /\ i \in hand[<<d, UserOf[i]>>]
  <1>1. UserOf[i] \in Users
      BY ItemUser
  <1>2. i \in Taken(d) <=> \E v \in Users : i \in hand[<<d, v>>]
      BY DEF Taken
  <1>3. i \in Gone(d) <=> \E v \in Users : visit[<<d, v>>] = "done" /\ i \in hand[<<d, v>>]
      BY DEF Gone
  <1>4. \A v \in Users : i \in hand[<<d, v>>] => v = UserOf[i]
      BY DEF Belongs
  <1> QED
      BY <1>1, <1>2, <1>3, <1>4

LEMMA DeliverImmediatelyStep ==
    ASSUME DeferredInv, NEW i \in Items, DeliverImmediately(i)
    PROVE  DeferredInv'
  <1> USE ItemUser
      DEF DeferredInv, TypeOK, DeliverImmediately, Goes, InFlight, redis, calls, losses, history
  <1>1. TypeOK'
      BY DEF Belongs, MaxDelivered
  <1>2. Belongs'
      BY DEF Belongs
  <1>3. Fresh'
      BY DEF Fresh
  <1>4. EarlyFits'
      BY DEF EarlyFits, Belongs
  <1>5. BeforeDue'
      BY DEF BeforeDue, DrainFits
  <1>6. OneAtWork'
      BY DEF OneAtWork, AtWork
  <1>7. ASSUME NEW e \in Drains, NEW v \in Users
        PROVE  DrainFits(e, v)'
    <2>1. UNCHANGED <<list, visit, hand, drain, early>> /\ DrainFits(e, v)
        OBVIOUS
    <2> QED
        BY <2>1, FitsKept
  <1>8. ASSUME NEW k \in Items
        PROVE  Accounted(k)'
      BY DEF Accounted, Carried, DrainFits
  <1>9. ASSUME NEW k \in Items
        PROVE  Once(k)'
      BY DEF Once, Fresh, Belongs, DrainFits
  <1> QED
      BY <1>1, <1>2, <1>3, <1>4, <1>5, <1>6, <1>7, <1>8, <1>9

LEMMA PushItemStep ==
    ASSUME DeferredInv, NEW i \in Items, PushItem(i)
    PROVE  DeferredInv'
  <1> USE ItemUser
      DEF DeferredInv, TypeOK, PushItem, Goes, InFlight, redis, calls, losses, history
  <1>1. TypeOK'
      BY DEF Belongs, MaxDelivered
  <1>2. Belongs'
      BY DEF Belongs
  <1>3. Fresh'
      BY DEF Fresh
  <1>4. EarlyFits'
      BY DEF EarlyFits, Belongs
  <1>5. BeforeDue'
      BY DEF BeforeDue, DrainFits
  <1>6. OneAtWork'
      BY DEF OneAtWork, AtWork
  <1>7. ASSUME NEW e \in Drains, NEW v \in Users
        PROVE  DrainFits(e, v)'
    <2>1. i \notin hand[<<e, v>>] /\ i \notin early
        BY DEF Belongs, EarlyFits
    <2>2. UNCHANGED <<visit, hand, drain, early>> /\ DrainFits(e, v)
        OBVIOUS
    <2>3. list'[v] \subseteq list[v] \cup {i}
        OBVIOUS
    <2> QED
        BY <2>1, <2>2, <2>3, FitsPushed
  <1>8. ASSUME NEW k \in Items
        PROVE  Accounted(k)'
      BY DEF Accounted, Carried, DrainFits
  <1>9. ASSUME NEW k \in Items
        PROVE  Once(k)'
      BY DEF Once, Fresh, Belongs, DrainFits
  <1> QED
      BY <1>1, <1>2, <1>3, <1>4, <1>5, <1>6, <1>7, <1>8, <1>9

LEMMA IndexUserStep ==
    ASSUME DeferredInv, NEW i \in Items, IndexUser(i)
    PROVE  DeferredInv'
  <1> USE ItemUser
      DEF DeferredInv, TypeOK, IndexUser, Goes, InFlight, redis, calls, losses, history
  <1>1. TypeOK'
      BY DEF Belongs, MaxDelivered
  <1>2. Belongs'
      BY DEF Belongs
  <1>3. Fresh'
      BY DEF Fresh
  <1>4. EarlyFits'
      BY DEF EarlyFits, Belongs
  <1>5. BeforeDue'
      BY DEF BeforeDue, DrainFits
  <1>6. OneAtWork'
      BY DEF OneAtWork, AtWork
  <1>7. ASSUME NEW e \in Drains, NEW v \in Users
        PROVE  DrainFits(e, v)'
    <2>1. UNCHANGED <<list, visit, hand, drain, early>> /\ DrainFits(e, v)
        OBVIOUS
    <2> QED
        BY <2>1, FitsKept
  <1>8. ASSUME NEW k \in Items
        PROVE  Accounted(k)'
      BY DEF Accounted, Carried, DrainFits
  <1>9. ASSUME NEW k \in Items
        PROVE  Once(k)'
      BY DEF Once, Fresh, Belongs, DrainFits
  <1> QED
      BY <1>1, <1>2, <1>3, <1>4, <1>5, <1>6, <1>7, <1>8, <1>9

LEMMA LimitKeysStep ==
    ASSUME DeferredInv, NEW i \in Items, LimitKeys(i)
    PROVE  DeferredInv'
  <1> USE ItemUser
      DEF DeferredInv, TypeOK, LimitKeys, Goes, InFlight, redis, calls, losses, history
  <1>1. TypeOK'
      BY DEF Belongs, MaxDelivered
  <1>2. Belongs'
      BY DEF Belongs
  <1>3. Fresh'
      BY DEF Fresh
  <1>4. EarlyFits'
      BY DEF EarlyFits, BeforeDue
  <1>5. BeforeDue'
      BY DEF BeforeDue, DrainFits
  <1>6. OneAtWork'
      BY DEF OneAtWork, AtWork
  <1>7. ASSUME NEW e \in Drains, NEW v \in Users
        PROVE  DrainFits(e, v)'
      BY DEF DrainFits, Belongs, EarlyFits, BeforeDue
  <1>8. ASSUME NEW k \in Items
        PROVE  Accounted(k)'
      BY DEF Accounted, Carried, DrainFits
  <1>9. ASSUME NEW k \in Items
        PROVE  Once(k)'
      BY DEF Once, Fresh, Belongs, DrainFits
  <1> QED
      BY <1>1, <1>2, <1>3, <1>4, <1>5, <1>6, <1>7, <1>8, <1>9

LEMMA QueueFailsStep ==
    ASSUME DeferredInv, NEW i \in Items, QueueFails(i)
    PROVE  DeferredInv'
  <1> USE ItemUser
      DEF DeferredInv, TypeOK, QueueFails, Goes, InFlight, redis, calls, losses, history
  <1>1. TypeOK'
      BY DEF Belongs, MaxDelivered
  <1>2. Belongs'
      BY DEF Belongs
  <1>3. Fresh'
      BY DEF Fresh
  <1>4. EarlyFits'
      BY DEF EarlyFits, Belongs
  <1>5. BeforeDue'
      BY DEF BeforeDue, DrainFits
  <1>6. OneAtWork'
      BY DEF OneAtWork, AtWork
  <1>7. ASSUME NEW e \in Drains, NEW v \in Users
        PROVE  DrainFits(e, v)'
    <2>1. UNCHANGED <<list, visit, hand, drain, early>> /\ DrainFits(e, v)
        OBVIOUS
    <2> QED
        BY <2>1, FitsKept
  <1>8. ASSUME NEW k \in Items
        PROVE  Accounted(k)'
      BY DEF Accounted, Carried, DrainFits
  <1>9. ASSUME NEW k \in Items
        PROVE  Once(k)'
      BY DEF Once, Fresh, Belongs, DrainFits
  <1> QED
      BY <1>1, <1>2, <1>3, <1>4, <1>5, <1>6, <1>7, <1>8, <1>9

LEMMA FallsDueStep ==
    ASSUME DeferredInv, FallsDue
    PROVE  DeferredInv'
  <1> USE ItemUser
      DEF DeferredInv, TypeOK, FallsDue, InFlight, redis, calls, losses, history
  <1>1. TypeOK'
      BY DEF Belongs, MaxDelivered
  <1>2. Belongs'
      BY DEF Belongs
  <1>3. Fresh'
      BY DEF Fresh
  <1>4. EarlyFits'
      BY DEF EarlyFits, Belongs
  <1>5. BeforeDue'
      BY DEF BeforeDue, DrainFits
  <1>6. OneAtWork'
      BY DEF OneAtWork, AtWork
  <1>7. ASSUME NEW e \in Drains, NEW v \in Users
        PROVE  DrainFits(e, v)'
    <2>1. UNCHANGED <<list, visit, hand, drain, early>> /\ DrainFits(e, v)
        OBVIOUS
    <2> QED
        BY <2>1, FitsKept
  <1>8. ASSUME NEW k \in Items
        PROVE  Accounted(k)'
      BY DEF Accounted, Carried, DrainFits
  <1>9. ASSUME NEW k \in Items
        PROVE  Once(k)'
      BY DEF Once, Fresh, Belongs, DrainFits
  <1> QED
      BY <1>1, <1>2, <1>3, <1>4, <1>5, <1>6, <1>7, <1>8, <1>9

LEMMA StartDrainStep ==
    ASSUME DeferredInv, NEW d \in Drains, StartDrain(d)
    PROVE  DeferredInv'
  <1> USE ItemUser
      DEF DeferredInv, TypeOK, StartDrain, Start, InFlight, redis, calls, losses, history
  <1>1. TypeOK'
      BY DEF Belongs, MaxDelivered
  <1>2. Belongs'
      BY DEF Belongs
  <1>3. Fresh'
      BY DEF Fresh
  <1>4. EarlyFits'
      BY DEF EarlyFits, Belongs
  <1>5. BeforeDue'
      BY DEF BeforeDue, DrainFits
  <1>6. OneAtWork'
      BY DEF OneAtWork, AtWork
  <1>7. ASSUME NEW e \in Drains, NEW v \in Users
        PROVE  DrainFits(e, v)'
    <2>3. e /= d => visit'[<<e, v>>] = visit[<<e, v>>] /\ drain'[e] = drain[e]
        OBVIOUS
    <2>4. list' = list /\ hand' = hand /\ early' = early /\ DrainFits(e, v)
        OBVIOUS
    <2>1. CASE e = d
      <3>1. drain[e] = "new" /\ drain'[e] = "open"
          BY <2>1
      <3>2. visit[<<e, v>>] = "none"
          BY <2>4, <3>1 DEF DrainFits
      <3>3. visit'[<<e, v>>] \in {visit[<<e, v>>], "listed"}
          OBVIOUS
      <3> QED
          BY <2>4, <3>1, <3>2, <3>3, FitsAtStart
    <2>2. CASE ~(e = d)
        BY <2>2, <2>3, <2>4, FitsKept
    <2> QED
        BY <2>1, <2>2
  <1>8. ASSUME NEW k \in Items
        PROVE  Accounted(k)'
      BY DEF Accounted, Carried, DrainFits
  <1>9. ASSUME NEW k \in Items
        PROVE  Once(k)'
      BY DEF Once, Fresh, Belongs, DrainFits
  <1> QED
      BY <1>1, <1>2, <1>3, <1>4, <1>5, <1>6, <1>7, <1>8, <1>9

LEMMA StartThrowsStep ==
    ASSUME DeferredInv, NEW d \in Drains, StartThrows(d)
    PROVE  DeferredInv'
  <1> USE ItemUser
      DEF DeferredInv, TypeOK, StartThrows, InFlight, redis, calls, losses, history
  <1>1. TypeOK'
      BY DEF Belongs, MaxDelivered
  <1>2. Belongs'
      BY DEF Belongs
  <1>3. Fresh'
      BY DEF Fresh
  <1>4. EarlyFits'
      BY DEF EarlyFits, Belongs
  <1>5. BeforeDue'
      BY DEF BeforeDue, DrainFits
  <1>6. OneAtWork'
      BY DEF OneAtWork, AtWork
  <1>7. ASSUME NEW e \in Drains, NEW v \in Users
        PROVE  DrainFits(e, v)'
    <2>1. drain'[e] = drain[e] \/ drain'[e] = "failed"
        OBVIOUS
    <2>2. /\ list' = list /\ hand' = hand /\ visit' = visit /\ early' = early
          /\ DrainFits(e, v)
        OBVIOUS
    <2> QED
        BY <2>1, <2>2, FitsKept
  <1>8. ASSUME NEW k \in Items
        PROVE  Accounted(k)'
      BY DEF Accounted, Carried, DrainFits
  <1>9. ASSUME NEW k \in Items
        PROVE  Once(k)'
      BY DEF Once, Fresh, Belongs, DrainFits
  <1> QED
      BY <1>1, <1>2, <1>3, <1>4, <1>5, <1>6, <1>7, <1>8, <1>9

LEMMA ReadItemsStep ==
    ASSUME DeferredInv, NEW d \in Drains, NEW u \in Users, ReadItems(d, u)
    PROVE  DeferredInv'
  <1> USE ItemUser
      DEF DeferredInv, TypeOK, ReadItems, ItemsRead, InFlight, redis, calls, losses, history
  <1>1. TypeOK'
      BY DEF Belongs, MaxDelivered
  <1>2. Belongs'
      BY DEF Belongs
  <1>3. Fresh'
      BY DEF Fresh
  <1>4. EarlyFits'
      BY DEF EarlyFits, Belongs
  <1>5. BeforeDue'
      BY DEF BeforeDue, DrainFits
  <1>6. OneAtWork'
    <2>1. \A e \in Drains : AtWork(e)' => AtWork(e)
        BY DEF AtWork
    <2> QED
        BY <2>1 DEF OneAtWork
  <1>7. ASSUME NEW e \in Drains, NEW v \in Users
        PROVE  DrainFits(e, v)'
    <2>3. <<e, v>> /= <<d, u>> =>
            visit'[<<e, v>>] = visit[<<e, v>>] /\ hand'[<<e, v>>] = hand[<<e, v>>]
        OBVIOUS
    <2>4. list' = list /\ drain' = drain /\ early' = early /\ DrainFits(e, v)
        OBVIOUS
    <2>1. CASE <<e, v>> = <<d, u>>
      <3>1. /\ visit[<<e, v>>] = "listed" /\ visit'[<<e, v>>] = "read"
            /\ hand'[<<e, v>>] = list[v]
          BY <2>1
      <3> QED
          BY <2>4, <3>1, FitsRead
    <2>2. CASE ~(<<e, v>> = <<d, u>>)
        BY <2>2, <2>3, <2>4, FitsKept
    <2> QED
        BY <2>1, <2>2
  <1>8. ASSUME NEW k \in Items
        PROVE  Accounted(k)'
      BY DEF Accounted, Carried, DrainFits
  <1>9. ASSUME NEW k \in Items
        PROVE  Once(k)'
      BY DEF Once, Fresh, Belongs, DrainFits
  <1> QED
      BY <1>1, <1>2, <1>3, <1>4, <1>5, <1>6, <1>7, <1>8, <1>9

LEMMA DeleteItemsStep ==
    ASSUME DeferredInv, NEW d \in Drains, NEW u \in Users, DeleteItems(d, u)
    PROVE  DeferredInv'
  <1> USE ItemUser
      DEF DeferredInv, TypeOK, DeleteItems, Deleted, InFlight, redis, calls, losses, history
  <1>1. TypeOK'
      BY DEF Belongs, MaxDelivered
  <1>2. Belongs'
      BY DEF Belongs
  <1>3. Fresh'
      BY DEF Fresh
  <1>4. EarlyFits'
      BY DEF EarlyFits, DrainFits
  <1>5. BeforeDue'
      BY DEF BeforeDue, DrainFits
  <1>6. OneAtWork'
      BY DEF OneAtWork, AtWork
  <1>7. ASSUME NEW e \in Drains, NEW v \in Users
        PROVE  DrainFits(e, v)'
    <2>3. <<e, v>> /= <<d, u>> =>
            visit'[<<e, v>>] = visit[<<e, v>>] /\ hand'[<<e, v>>] = hand[<<e, v>>]
        OBVIOUS
    <2>4. list'[v] \subseteq list[v] /\ drain' = drain /\ early' = early /\ DrainFits(e, v)
        OBVIOUS
    <2>1. CASE <<e, v>> = <<d, u>>
      <3>1. visit[<<e, v>>] = "read" /\ visit'[<<e, v>>] = "done" /\ list'[v] = {}
          BY <2>1
      <3> QED
          BY <2>4, <3>1, FitsDeleted
    <2>2. CASE ~(<<e, v>> = <<d, u>>)
        BY <2>2, <2>3, <2>4, FitsKept
    <2> QED
        BY <2>1, <2>2
  <1>8. ASSUME NEW k \in Items
        PROVE  Accounted(k)'
    <2>1. Carried(k) => Carried(k)'
        BY DEF Carried
    <2>2. CASE UserOf[k] = u /\ k \in list[u]
      <3>1. CASE k \in hand[<<d, u>>] /\ drain[d] = "open"
        <4>1. Carried(k)'
            BY <2>2, <3>1 DEF Carried
        <4> QED
            BY <4>1 DEF Accounted
      <3>2. CASE k \in hand[<<d, u>>] /\ drain[d] = "failed"
          BY <2>2, <3>2 DEF Accounted
      <3>3. CASE k \notin hand[<<d, u>>]
          BY <2>2, <3>3 DEF Accounted
      <3>4. drain[d] \in {"open", "failed"}
          BY DEF DrainFits
      <3> QED
          BY <3>1, <3>2, <3>3, <3>4
    <2>3. CASE ~(UserOf[k] = u /\ k \in list[u])
        BY <2>1, <2>3 DEF Accounted
    <2> QED
        BY <2>2, <2>3
  <1>9. ASSUME NEW k \in Items
        PROVE  Once(k)'
      BY DEF Once, Fresh, Belongs, DrainFits
  <1> QED
      BY <1>1, <1>2, <1>3, <1>4, <1>5, <1>6, <1>7, <1>8, <1>9

LEMMA ReturnDigestsStep ==
    ASSUME DeferredInv, NEW d \in Drains, ReturnDigests(d)
    PROVE  DeferredInv'
  <1> USE ItemUser
      DEF DeferredInv, TypeOK, ReturnDigests, Leave, InFlight, redis, calls, losses, history
  <1>1. TypeOK'
      BY DEF Belongs, MaxDelivered
  <1>2. Belongs'
      BY DEF Belongs
  <1>3. Fresh'
    <2>1. \A i \in Items : pc[i] = "called" => i \notin Taken(d)
        BY HandOfItem DEF Belongs
    <2> QED
        BY <2>1 DEF Fresh
  <1>4. EarlyFits'
      BY DEF EarlyFits, Belongs
  <1>5. BeforeDue'
      BY DEF BeforeDue, DrainFits
  <1>6. OneAtWork'
      BY DEF OneAtWork, AtWork
  <1>7. ASSUME NEW e \in Drains, NEW v \in Users
        PROVE  DrainFits(e, v)'
    <2>3. e /= d =>
            /\ visit'[<<e, v>>] = visit[<<e, v>>] /\ hand'[<<e, v>>] = hand[<<e, v>>]
            /\ drain'[e] = drain[e]
        OBVIOUS
    <2>4. e = d => visit'[<<e, v>>] = "none" /\ hand'[<<e, v>>] = {}
        OBVIOUS
    <2>5. list' = list /\ early' = early /\ DrainFits(e, v)
        OBVIOUS
    <2>1. CASE e = d
        BY <2>1, <2>4 DEF DrainFits
    <2>2. CASE ~(e = d)
        BY <2>2, <2>3, <2>5 DEF DrainFits
    <2> QED
        BY <2>1, <2>2
  <1>8. ASSUME NEW k \in Items
        PROVE  Accounted(k)'
    <2>1. \A e \in Drains \ {d} :
            /\ drain'[e] = drain[e]
            /\ visit'[<<e, UserOf[k]>>] = visit[<<e, UserOf[k]>>]
            /\ hand'[<<e, UserOf[k]>>] = hand[<<e, UserOf[k]>>]
        BY ItemUser
    <2>2. k \in hand[<<d, UserOf[k]>>] <=> k \in Taken(d)
        BY HandOfItem
    <2>6. delivered[k] \in 0..2
        BY DEF MaxDelivered
    <2>7. delivered'[k] = IF k \in Taken(d) /\ delivered[k] < 2
                         THEN delivered[k] + 1 ELSE delivered[k]
        BY DEF MaxDelivered
    <2>3. delivered[k] > 0 => delivered'[k] > 0
        BY <2>6, <2>7
    <2>4. k \in Taken(d) => delivered'[k] > 0
        BY <2>6, <2>7
    <2>5. Carried(k) => Carried(k)' \/ delivered'[k] > 0
        BY <2>1, <2>2, <2>4 DEF Carried
    <2> QED
        BY <2>3, <2>5 DEF Accounted
  <1>9. ASSUME NEW k \in Items
        PROVE  Once(k)'
    <2> SUFFICES ASSUME ~overlap
                 PROVE  Once(k)'
        BY DEF Once
    <2>1. \A e \in Drains \ {d} :
            /\ drain'[e] = drain[e]
            /\ visit'[<<e, UserOf[k]>>] = visit[<<e, UserOf[k]>>]
            /\ hand'[<<e, UserOf[k]>>] = hand[<<e, UserOf[k]>>]
        BY ItemUser
    <2>2. k \in hand[<<d, UserOf[k]>>] <=> k \in Taken(d)
        BY HandOfItem
    <2>3. \A e \in Drains \ {d} : drain'[e] /= "open"
        BY <2>1 DEF OneAtWork, AtWork
    <2>4. CASE k \in Taken(d)
      <3>1. visit[<<d, UserOf[k]>>] = "done"
        <4>1. visit[<<d, UserOf[k]>>] \in {"none", "listed", "read", "done"}
            BY ItemUser
        <4>2. visit[<<d, UserOf[k]>>] \notin {"listed", "read"}
            BY ItemUser
        <4>3. DrainFits(d, UserOf[k])
            BY ItemUser
        <4> QED
            BY <2>2, <2>4, <4>1, <4>2, <4>3 DEF DrainFits
      <3>2. k \notin list[UserOf[k]]
          BY <2>2, <2>4, <3>1, ItemUser DEF DrainFits
      <3>3. delivered[k] = 0
        <4>1. delivered[k] \in 0..2 /\ drain[d] = "open" /\ Once(k)
            BY DEF MaxDelivered
        <4> QED
            BY <2>2, <2>4, <4>1 DEF Once
      <3>4. delivered'[k] = 1
          BY <2>4, <3>3 DEF MaxDelivered
      <3> QED
          BY <2>3, <3>2, <3>4 DEF Once
    <2>5. CASE k \notin Taken(d)
      <3>1. delivered'[k] = delivered[k]
          BY <2>5
      <3> QED
          BY <2>3, <3>1 DEF Once
    <2> QED
        BY <2>4, <2>5
  <1> QED
      BY <1>1, <1>2, <1>3, <1>4, <1>5, <1>6, <1>7, <1>8, <1>9

LEMMA DrainThrowsStep ==
    ASSUME DeferredInv, NEW d \in Drains, NEW u \in Users, DrainThrows(d, u)
    PROVE  DeferredInv'
  <1> USE ItemUser
      DEF DeferredInv, TypeOK, DrainThrows, Deleted, InFlight, redis, calls, losses, history
  <1>1. TypeOK'
    <2>1. Gone(d) \subseteq Items
        BY GoneItems
    <2>2. dropped' \subseteq Items
        BY <2>1
    <2>3. drain' \in [Drains -> {"new", "open", "returned", "failed"}]
        OBVIOUS
    <2>4. visit' \in [Drains \X Users -> {"none", "listed", "read", "done"}]
        OBVIOUS
    <2>5. hand' \in [Drains \X Users -> SUBSET Items]
        OBVIOUS
    <2>6. list' \in [Users -> SUBSET Items] /\ limited' \subseteq {v \in Users : list'[v] # {}}
        OBVIOUS
    <2> QED
        BY <2>2, <2>3, <2>4, <2>5, <2>6
  <1>2. Belongs'
      BY DEF Belongs
  <1>3. Fresh'
      BY DEF Fresh
  <1>4. EarlyFits'
      BY DEF EarlyFits, Belongs
  <1>5. BeforeDue'
      BY DEF BeforeDue, DrainFits
  <1>6. OneAtWork'
    <2>1. \A e \in Drains : AtWork(e)' => AtWork(e)
        BY DEF AtWork
    <2> QED
        BY <2>1 DEF OneAtWork
  <1>7. ASSUME NEW e \in Drains, NEW v \in Users
        PROVE  DrainFits(e, v)'
    <2>3. <<e, v>> /= <<d, u>> => visit'[<<e, v>>] = visit[<<e, v>>]
        OBVIOUS
    <2>4. drain'[e] = drain[e] \/ (e = d /\ drain'[e] = "failed")
        BY FailsAlone
    <2>5. list'[v] \subseteq list[v]
        OBVIOUS
    <2>1. CASE <<e, v>> = <<d, u>>
        BY <2>1, <2>4, <2>5 DEF DrainFits
    <2>2. CASE <<e, v>> /= <<d, u>>
      <3>1. DrainFits(e, v) /\ hand' = hand /\ early' = early
          OBVIOUS
      <3> QED
          BY <2>2, <2>3, <2>4, <2>5, <3>1, FitsKept
    <2> QED
        BY <2>1, <2>2
  <1>8. ASSUME NEW k \in Items
        PROVE  Accounted(k)'
    <2>1. Carried(k) => Carried(k)' \/ k \in Gone(d)
      <3>1. ASSUME NEW e \in Drains, e /= d, drain[e] = "open",
                   visit[<<e, UserOf[k]>>] = "done", k \in hand[<<e, UserOf[k]>>]
            PROVE  Carried(k)'
        <4>1. drain'[e] = "open" /\ visit'[<<e, UserOf[k]>>] = "done"
            BY <3>1, ItemUser
        <4> QED
            BY <3>1, <4>1 DEF Carried
      <3> QED
          BY <3>1, HandOfItem DEF Carried
    <2>2. Gone(d) \subseteq dropped' /\ dropped \subseteq dropped'
        OBVIOUS
    <2>3. k \in list[UserOf[k]] => k \in list'[UserOf[k]] \/ k \in dropped'
        BY ItemUser
    <2> QED
        BY <2>1, <2>2, <2>3 DEF Accounted
  <1>9. ASSUME NEW k \in Items
        PROVE  Once(k)'
    <2>1. list'[UserOf[k]] \subseteq list[UserOf[k]]
        BY ItemUser
    <2>2. \A e \in Drains : drain'[e] = "open" => drain[e] = "open"
        OBVIOUS
    <2> QED
        BY <2>1, <2>2 DEF Once
  <1> QED
      BY <1>1, <1>2, <1>3, <1>4, <1>5, <1>6, <1>7, <1>8, <1>9

LEMMA DrainCrashesStep ==
    ASSUME DeferredInv, NEW d \in Drains, DrainCrashes(d)
    PROVE  DeferredInv'
  <1> USE ItemUser
      DEF DeferredInv, TypeOK, DrainCrashes, Leave, InFlight, redis, calls, losses, history
  <1>1. TypeOK'
    <2>1. Gone(d) \subseteq Items
        BY GoneItems
    <2>2. dropped' \subseteq Items
        BY <2>1
    <2>3. drain' \in [Drains -> {"new", "open", "returned", "failed"}]
        OBVIOUS
    <2>4. visit' \in [Drains \X Users -> {"none", "listed", "read", "done"}]
        OBVIOUS
    <2>5. hand' \in [Drains \X Users -> SUBSET Items]
        OBVIOUS
    <2>6. list' \in [Users -> SUBSET Items] /\ limited' \subseteq {v \in Users : list'[v] # {}}
        OBVIOUS
    <2> QED
        BY <2>2, <2>3, <2>4, <2>5, <2>6
  <1>2. Belongs'
      BY DEF Belongs
  <1>3. Fresh'
      BY DEF Fresh
  <1>4. EarlyFits'
      BY DEF EarlyFits, Belongs
  <1>5. BeforeDue'
    <2>1. drain[d] /= "new"
        BY DEF AtWork, DrainFits
    <2> QED
        BY <2>1 DEF BeforeDue
  <1>6. OneAtWork'
      BY DEF OneAtWork, AtWork
  <1>7. ASSUME NEW e \in Drains, NEW v \in Users
        PROVE  DrainFits(e, v)'
    <2>3. e /= d =>
            /\ visit'[<<e, v>>] = visit[<<e, v>>] /\ hand'[<<e, v>>] = hand[<<e, v>>]
            /\ drain'[e] = drain[e]
        OBVIOUS
    <2>4. e = d => visit'[<<e, v>>] = "none" /\ hand'[<<e, v>>] = {}
        OBVIOUS
    <2>5. list' = list /\ early' = early /\ DrainFits(e, v)
        OBVIOUS
    <2>1. CASE e = d
        BY <2>1, <2>4 DEF DrainFits
    <2>2. CASE ~(e = d)
        BY <2>2, <2>3, <2>5, FitsKept
    <2> QED
        BY <2>1, <2>2
  <1>8. ASSUME NEW k \in Items
        PROVE  Accounted(k)'
      BY HandOfItem DEF Accounted, Carried, DrainFits
  <1>9. ASSUME NEW k \in Items
        PROVE  Once(k)'
    <2>1. \A e \in Drains : drain'[e] = "open" =>
              drain[e] = "open" /\ hand'[<<e, UserOf[k]>>] = hand[<<e, UserOf[k]>>]
        BY ItemUser
    <2>2. UNCHANGED <<list, delivered, overlap>> /\ Once(k)
        OBVIOUS
    <2> QED
        BY <2>1, <2>2 DEF Once
  <1> QED
      BY <1>1, <1>2, <1>3, <1>4, <1>5, <1>6, <1>7, <1>8, <1>9

LEMMA ExpireStep ==
    ASSUME DeferredInv, NEW u \in Users, Expire(u)
    PROVE  DeferredInv'
  <1> USE ItemUser
      DEF DeferredInv, TypeOK, Expire, Deleted, InFlight, redis, calls, losses, history
  <1>1. TypeOK'
      BY DEF Belongs, MaxDelivered
  <1>2. Belongs'
      BY DEF Belongs
  <1>3. Fresh'
      BY DEF Fresh
  <1>4. EarlyFits'
      BY DEF EarlyFits, Belongs
  <1>5. BeforeDue'
      BY DEF BeforeDue, DrainFits
  <1>6. OneAtWork'
      BY DEF OneAtWork, AtWork
  <1>7. ASSUME NEW e \in Drains, NEW v \in Users
        PROVE  DrainFits(e, v)'
      BY DEF DrainFits, Belongs, EarlyFits, BeforeDue
  <1>8. ASSUME NEW k \in Items
        PROVE  Accounted(k)'
      BY DEF Accounted, Carried, DrainFits
  <1>9. ASSUME NEW k \in Items
        PROVE  Once(k)'
      BY DEF Once, Fresh, Belongs, DrainFits
  <1> QED
      BY <1>1, <1>2, <1>3, <1>4, <1>5, <1>6, <1>7, <1>8, <1>9

LEMMA DeferredStep == DeferredInv /\ [Next]_vars => DeferredInv'
  <1> SUFFICES ASSUME DeferredInv, [Next]_vars PROVE DeferredInv'
      OBVIOUS
  <1>1. CASE UNCHANGED vars
    <2> USE <1>1 DEF vars, redis, calls, losses, history, DeferredInv
    <2>1. TypeOK'
        BY DEF TypeOK
    <2>2. Belongs' /\ Fresh' /\ EarlyFits' /\ BeforeDue'
        BY DEF Belongs, Fresh, EarlyFits, BeforeDue
    <2>3. OneAtWork'
        BY DEF OneAtWork, AtWork
    <2>4. ASSUME NEW d \in Drains, NEW u \in Users
          PROVE  DrainFits(d, u)'
      <3>1. DrainFits(d, u)
          OBVIOUS
      <3> QED
          BY <3>1 DEF DrainFits
    <2>5. \A i \in Items : Accounted(i)' /\ Once(i)'
        BY DEF Accounted, Carried, Once
    <2> QED
        BY <2>1, <2>2, <2>3, <2>4, <2>5
  <1>2. ASSUME NEW i \in Items, DeliverImmediately(i) \/ Queue(i) \/ QueueFails(i)
        PROVE  DeferredInv'
      BY <1>2, DeliverImmediatelyStep, PushItemStep, IndexUserStep, LimitKeysStep, QueueFailsStep
         DEF Queue
  <1>3. CASE FallsDue
      BY <1>3, FallsDueStep
  <1>4. ASSUME NEW d \in Drains, StartDrain(d) \/ StartThrows(d) \/ Visit(d) \/ DrainCrashes(d)
        PROVE  DeferredInv'
      BY <1>4, StartDrainStep, StartThrowsStep, ReadItemsStep, DeleteItemsStep, DrainThrowsStep,
         ReturnDigestsStep, DrainCrashesStep
         DEF Visit
  <1>5. ASSUME NEW u \in Users, Expire(u)
        PROVE  DeferredInv'
      BY <1>5, ExpireStep
  <1> QED
      BY <1>1, <1>2, <1>3, <1>4, <1>5 DEF Next

\* Every variable keeps its type, in it that only a list there is has a time to
\* live, whatever fails (preferences/digest.ts, compliance/quiet-hours-queue.ts).
THEOREM TypeCorrect == Spec => []TypeOK
  <1>1. DeferredInv => TypeOK
      BY DEF DeferredInv
  <1> QED
      BY <1>1, InitDeferred, DeferredStep, PTL DEF Spec

\* An item queued before the window came is lost to a failing drain or the
\* retention only; a later one also if it was pushed between the LRANGE and the
\* DEL of a drain, in any interleaving of any number of calls.
THEOREM OnlyFaultsLose == Spec => []NothingElseLost
  <1>1. DeferredInv => NothingElseLost
    <2> SUFFICES ASSUME DeferredInv, NEW i \in Items, pc[i] = "queued"
                 PROVE  Kept(i) \/ i \in dropped \cup swept
        BY DEF DeferredInv, NothingElseLost, EarlyFits, TypeOK
    <2>1. Accounted(i) /\ Belongs
        BY DEF DeferredInv
    <2> QED
        BY <2>1, HandOfItem DEF Accounted, Carried, Kept
  <1> QED
      BY <1>1, InitDeferred, DeferredStep, PTL DEF Spec

\* As long as no two drains of a window run at once, no item is in two digests,
\* whatever failed in between (drain).
THEOREM ReturnedOnce == Spec => []DeliveredOnce
  <1>1. DeferredInv => DeliveredOnce
      BY DEF DeferredInv, Once, DeliveredOnce
  <1> QED
      BY <1>1, InitDeferred, DeferredStep, PTL DEF Spec
================================================================================
