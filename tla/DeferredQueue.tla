---------------------------- MODULE DeferredQueue ----------------------------
(***************************************************************************)
(* The digest of low-priority notifications (preferences/digest.ts) and    *)
(* the morning queue of quiet hours (compliance/quiet-hours-queue.ts).     *)
(* Both keep, for one delivery window, a Redis list of items per user and  *)
(* a set of the users that have one, and drain them with the same five     *)
(* commands; no two of these commands are atomic together.  Windows share  *)
(* no key, so the model follows one of them.                               *)
(***************************************************************************)
EXTENDS Naturals, FiniteSets

CONSTANTS
    Users,          \* recipients
    Items,          \* calls of queue or enqueue made before the delivery time,
                    \* so that this window is the next one
    UserOf,         \* per item: its recipient
    Drains,         \* calls of drain for the window
    Timezones,      \* per drain: the users whose timezone the caller knows;
                    \* all of them for a digest
    Faults          \* what may go wrong, a subset of FaultKinds

(***************************************************************************)
(* crash     a process that queues or drains dies                          *)
(* refused   a Redis command throws, applied or not                        *)
(* expiry    the retention of the keys ends                                *)
(***************************************************************************)
FaultKinds == {"crash", "refused", "expiry"}

ASSUME DeferredAssumption ==
    /\ UserOf \in [Items -> Users]
    /\ Timezones \in [Drains -> SUBSET Users]
    /\ Faults \subseteq FaultKinds

VARIABLES
    list,       \* per user: the items in the user's list
    limited,    \* the users whose list has a time to live
    index,      \* the users in the index set
    due,        \* whether the window's delivery time has come
    pc,         \* per item: where the call of queue is
    drain,      \* per drain: new, open, returned or failed
    visit,      \* per drain and user: what is left to do for the user
    hand,       \* per drain and user: the items it has read
    delivered,  \* history, per item: in how many digests it was returned
    early,      \* history: the items whose queue returned before the window
    swept,      \* history: the items deleted by a drain that had not read them
    dropped,    \* history: the items a failing drain or the retention lost
    overlap     \* history: two drains ran at the same time

redis == <<list, limited, index>>
calls == <<drain, visit, hand>>
losses == <<swept, dropped>>
history == <<delivered, early, losses, overlap>>
vars == <<redis, due, pc, calls, history>>

MaxDelivered == 2   \* delivered counts up to this bound
InFlight == {"called", "pushed", "indexed"}

TypeOK ==
    /\ list \in [Users -> SUBSET Items]
    /\ limited \subseteq {u \in Users : list[u] # {}}
    /\ index \subseteq Users
    /\ due \in BOOLEAN
    /\ pc \in [Items -> {"queued", "gone"} \cup InFlight]
    /\ drain \in [Drains -> {"new", "open", "returned", "failed"}]
    /\ visit \in [Drains \X Users -> {"none", "listed", "read", "done"}]
    /\ hand \in [Drains \X Users -> SUBSET Items]
    /\ delivered \in [Items -> 0..MaxDelivered]
    /\ early \cup swept \cup dropped \subseteq Items
    /\ overlap \in BOOLEAN

Init ==
    /\ list = [u \in Users |-> {}]
    /\ limited = {}
    /\ index = {}
    /\ due = FALSE
    /\ pc = [i \in Items |-> "called"]
    /\ drain = [d \in Drains |-> "new"]
    /\ visit = [t \in Drains \X Users |-> "none"]
    /\ hand = [t \in Drains \X Users |-> {}]
    /\ delivered = [i \in Items |-> 0]
    /\ early = {}
    /\ swept = {}
    /\ dropped = {}
    /\ overlap = FALSE

-----------------------------------------------------------------------------
(* queue, enqueue *)

Goes(i, state) == pc' = [pc EXCEPT ![i] = state]

\* The mode, the priority or the quiet-hours decision is not one to queue
\* for: the caller delivers at once, or gets an error.
DeliverImmediately(i) ==
    /\ pc[i] = "called"
    /\ Goes(i, "gone")
    /\ UNCHANGED <<redis, due, calls, history>>

PushItem(i) ==
    /\ pc[i] = "called"
    /\ list' = [list EXCEPT ![UserOf[i]] = @ \cup {i}]
    /\ Goes(i, "pushed")
    /\ UNCHANGED <<limited, index, due, calls, history>>

\* Mutant of IndexUser: the user is not added to the index.
IndexNobody(i) ==
    /\ pc[i] = "pushed"
    /\ Goes(i, "indexed")
    /\ UNCHANGED <<redis, due, calls, history>>

IndexUser(i) ==
    /\ pc[i] = "pushed"
    /\ index' = index \cup {UserOf[i]}
    /\ Goes(i, "indexed")
    /\ UNCHANGED <<list, limited, due, calls, history>>

\* EXPIRE of the list and of the index: the index never ends before a list,
\* and a list that has been drained meanwhile has no lifetime to set.
LimitKeys(i) ==
    /\ pc[i] = "indexed"
    /\ limited' = IF list[UserOf[i]] # {} THEN limited \cup {UserOf[i]} ELSE limited
    /\ early' = IF due THEN early ELSE early \cup {i}
    /\ Goes(i, "queued")
    /\ UNCHANGED <<list, index, due, calls, delivered, losses, overlap>>

\* queue throws or its process dies; what it has written stays.
QueueFails(i) ==
    /\ Faults \cap {"crash", "refused"} # {}
    /\ pc[i] \in InFlight
    /\ Goes(i, "gone")
    /\ UNCHANGED <<redis, due, calls, history>>

-----------------------------------------------------------------------------
(* drain *)

FallsDue ==
    /\ ~due
    /\ due' = TRUE
    /\ UNCHANGED <<redis, pc, calls, history>>

\* A drain is at work until its last command is answered, failed or not.
AtWork(d) == drain[d] = "open" \/ \E u \in Users : visit[<<d, u>>] \in {"listed", "read"}

Start(d, users) ==
    /\ drain[d] = "new"
    /\ due
    /\ drain' = [drain EXCEPT ![d] = "open"]
    /\ visit' = [t \in Drains \X Users |->
                    IF t[1] = d /\ t[2] \in users THEN "listed" ELSE visit[t]]
    /\ overlap' = (overlap \/ \E e \in Drains : AtWork(e))
    /\ UNCHANGED <<redis, due, pc, hand, delivered, early, losses>>

\* SMEMBERS; the entries of a user without a timezone are kept intact.
StartDrain(d) == Start(d, index \cap Timezones[d])

\* SMEMBERS throws: nothing has been touched.
StartThrows(d) ==
    /\ "refused" \in Faults
    /\ drain[d] = "new"
    /\ due
    /\ drain' = [drain EXCEPT ![d] = "failed"]
    /\ UNCHANGED <<redis, due, pc, visit, hand, history>>

\* Mutant of ItemsRead: the last item is left out.
AllButOne(u) == IF list[u] = {} THEN {} ELSE list[u] \ {CHOOSE i \in list[u] : TRUE}

\* LRANGE key 0 -1.
ItemsRead(u) == list[u]

ReadItems(d, u) ==
    /\ visit[<<d, u>>] = "listed"
    /\ hand' = [hand EXCEPT ![<<d, u>>] = ItemsRead(u)]
    /\ visit' = [visit EXCEPT ![<<d, u>>] = "read"]
    /\ UNCHANGED <<redis, due, pc, drain, history>>

\* Mutant of Deleted: the key keeps its time to live.
DeletedKeepsTtl(u) ==
    /\ list' = [list EXCEPT ![u] = {}]
    /\ UNCHANGED <<limited, index>>

Deleted(u) ==
    /\ list' = [list EXCEPT ![u] = {}]
    /\ limited' = limited \ {u}
    /\ UNCHANGED index

\* Mutant of DeleteItems: there is no DEL.
DeleteNothing(d, u) ==
    /\ visit[<<d, u>>] = "read"
    /\ visit' = [visit EXCEPT ![<<d, u>>] = "done"]
    /\ UNCHANGED <<redis, due, pc, drain, hand, history>>

\* DEL removes the list with whatever it holds by now.  Promise.all does not
\* stop the commands of the other users when a drain has failed.
DeleteItems(d, u) ==
    /\ visit[<<d, u>>] = "read"
    /\ Deleted(u)
    /\ visit' = [visit EXCEPT ![<<d, u>>] = "done"]
    /\ swept' = swept \cup (list[u] \ hand[<<d, u>>])
    /\ dropped' = IF drain[d] = "failed" THEN dropped \cup hand[<<d, u>>] ELSE dropped
    /\ UNCHANGED <<due, pc, drain, hand, delivered, early, overlap>>

Taken(d) == UNION {hand[<<d, u>>] : u \in Users}

Gone(d) == UNION {hand[<<d, u>>] : u \in {v \in Users : visit[<<d, v>>] = "done"}}

\* The call is over and its local variables are gone.
Leave(d, result) ==
    /\ drain' = [drain EXCEPT ![d] = result]
    /\ visit' = [t \in Drains \X Users |-> IF t[1] = d THEN "none" ELSE visit[t]]
    /\ hand' = [t \in Drains \X Users |-> IF t[1] = d THEN {} ELSE hand[t]]

\* Every user has been visited: the digests are returned.
ReturnDigests(d) ==
    /\ drain[d] = "open"
    /\ ~\E u \in Users : visit[<<d, u>>] \in {"listed", "read"}
    /\ Leave(d, "returned")
    /\ delivered' = [i \in Items |->
                        IF i \in Taken(d) /\ delivered[i] < MaxDelivered
                        THEN delivered[i] + 1 ELSE delivered[i]]
    /\ UNCHANGED <<redis, due, pc, early, losses, overlap>>

\* LRANGE or DEL throws, the DEL applied or not: drain rejects, and what it
\* has deleted is lost.
DrainThrows(d, u) ==
    /\ "refused" \in Faults
    /\ visit[<<d, u>>] \in {"listed", "read"}
    /\ drain' = [drain EXCEPT ![d] = "failed"]
    /\ visit' = [visit EXCEPT ![<<d, u>>] = "done"]
    /\ \/ UNCHANGED redis /\ dropped' = dropped \cup Gone(d)
       \/ /\ visit[<<d, u>>] = "read"
          /\ Deleted(u)
          /\ dropped' = dropped \cup Gone(d) \cup list[u] \cup hand[<<d, u>>]
    /\ UNCHANGED <<due, pc, hand, delivered, early, swept, overlap>>

DrainCrashes(d) ==
    /\ "crash" \in Faults
    /\ AtWork(d)
    /\ Leave(d, "failed")
    /\ dropped' = dropped \cup Gone(d)
    /\ UNCHANGED <<redis, due, pc, delivered, early, swept, overlap>>

\* retentionSeconds after the last EXPIRE, two days, the calls for the window
\* are over.
Expire(u) ==
    /\ "expiry" \in Faults
    /\ u \in limited
    /\ \A i \in Items : pc[i] \notin InFlight
    /\ \A d \in Drains : drain[d] # "new" /\ ~AtWork(d)
    /\ Deleted(u)
    /\ dropped' = dropped \cup list[u]
    /\ UNCHANGED <<due, pc, calls, delivered, early, swept, overlap>>

Queue(i) ==
    \/ PushItem(i) \/ IndexUser(i) \/ LimitKeys(i)

Visit(d) ==
    \/ \E u \in Users : ReadItems(d, u) \/ DeleteItems(d, u) \/ DrainThrows(d, u)
    \/ ReturnDigests(d)

Next ==
    \/ \E i \in Items :
          DeliverImmediately(i) \/ Queue(i) \/ QueueFails(i)
    \/ FallsDue
    \/ \E d \in Drains : StartDrain(d) \/ StartThrows(d) \/ Visit(d) \/ DrainCrashes(d)
    \/ \E u \in Users : Expire(u)

Spec == Init /\ [][Next]_vars

\* The window's time comes, each drain is called then and runs on.
Fairness ==
    /\ WF_vars(FallsDue)
    /\ \A d \in Drains : WF_vars(StartDrain(d)) /\ WF_vars(Visit(d))

FairSpec == Spec /\ Fairness

-----------------------------------------------------------------------------
(* Properties *)

Kept(i) ==
    \/ i \in list[UserOf[i]]
    \/ \E d \in Drains : drain[d] = "open" /\ i \in Taken(d)
    \/ delivered[i] > 0

\* An item whose queue returned before the window came is never lost to the
\* race of RPUSH with LRANGE and DEL, however many drains there are; a later
\* one is lost only if it was pushed between those two commands.  Beyond that
\* only a failing drain or the retention loses an item.
NothingElseLost ==
    /\ \A i \in early : Kept(i) \/ i \in dropped
    /\ \A i \in Items : pc[i] = "queued" => Kept(i) \/ i \in dropped \cup swept

\* An item is returned in one digest only, as long as no two drains of the
\* window run at once, also when a drain failed after it had read the item.
DeliveredOnce == ~overlap => \A i \in Items : delivered[i] <= 1

\* In the end every item queued in time, for a user whose timezone is known,
\* has been delivered by some drain of the window, unless one of them failed
\* or the item expired.
Waiting ==
    {i \in early : delivered[i] = 0 /\ \A d \in Drains : UserOf[i] \in Timezones[d]}
Delivers == <>[](Waiting \subseteq dropped \/ \E d \in Drains : drain[d] = "failed")
=============================================================================
