----------------------- MODULE DeliveryLifecycleProofs -----------------------
(***************************************************************************)
(* Theorems about the transactions that move a notification, for any       *)
(* handlers, consumers, operators, callbacks and retry policies.           *)
(***************************************************************************)
EXTENDS DeliveryLifecycle, TLAPS, FiniteSetTheorems

Busy(t) == pc[t] /= "idle"
Ready(t) == pc[t] = "ready"

\* A handler works on a callback, an operator on an entry there is, and a
\* consumer has read a status.
ArgFits(t) ==
    Busy(t) =>
        /\ t \in Handlers => arg[t] \in Callbacks
        /\ t \in Consumers => seen[t] \in Statuses
        /\ t \in Operators => arg[t] \in DOMAIN entries

\* What did not overlap so far is not open twice now.
Apart ==
    /\ "callbacks" \notin overlaps => \A h, i \in Handlers : Busy(h) /\ Busy(i) => h = i
    /\ "consumers" \notin overlaps => \A c, d \in Consumers : Busy(c) /\ Busy(d) => c = d
    /\ "operators" \notin overlaps => \A o, p \in Operators : Busy(o) /\ Busy(p) => o = p
    /\ "mixed" \notin overlaps =>
        \A t, u \in Transactions : Busy(t) /\ Busy(u) => Kind(t) = Kind(u)

\* A callback that changed the row is stored.
AppliedIsStored(c) ==
    /\ applied[c] <= 1
    /\ applied[c] > 0 => c \in acks

\* Without overlapping consumers nobody has created a second entry.
SingleEntry ==
    "consumers" \notin overlaps =>
        /\ \A i, j \in Unresolved : i = j
        /\ \A c \in Consumers : Ready(c) => Unresolved = {}

\* As long as callbacks meet only callbacks and operators only operators, they
\* know of an unresolved entry.
EntryIsKnown ==
    overlaps \subseteq {"callbacks", "operators"} =>
        /\ Unresolved /= {} => status = "DLQ"
        /\ \A h \in Handlers : Ready(h) /\ Unresolved /= {} => seen[h] \in {None, "DLQ"}
        /\ \A o \in Operators : Busy(o) => Unresolved \subseteq {arg[o]}

\* A callback that is alone among callbacks has not missed a confirmation.
ConfirmationIsSeen ==
    "callbacks" \notin overlaps =>
        \A h \in Handlers : Ready(h) /\ status \in {"DELIVERED", "READ"} =>
            seen[h] \in {None, status}

\* A transaction that is alone knows the status.
StatusIsSeen ==
    overlaps = {} =>
        /\ \A h \in Handlers : Ready(h) => seen[h] \in {None, status}
        /\ \A c \in Consumers : Busy(c) => seen[c] = status
        /\ \A o \in Operators : Busy(o) => status = "DLQ"

LifeInv ==
    /\ TypeOK
    /\ \A t \in Transactions : ArgFits(t)
    /\ Apart
    /\ \A c \in Callbacks : AppliedIsStored(c)
    /\ NoStrandedDeadLetter
    /\ SingleEntry
    /\ EntryIsKnown
    /\ ConfirmationIsSeen
    /\ log.to = status /\ StatusIsSeen

LEMMA Kinds ==
    ASSUME NEW t \in Transactions
    PROVE  /\ Kind(t) \in {"callbacks", "consumers", "operators"}
           /\ t \in Handlers => Kind(t) = "callbacks" /\ t \notin Consumers /\ t \notin Operators
           /\ t \in Consumers => Kind(t) = "consumers" /\ t \notin Handlers /\ t \notin Operators
           /\ t \in Operators => Kind(t) = "operators" /\ t \notin Handlers /\ t \notin Consumers
  BY LifecycleAssumption DEF Kind, Transactions

LEMMA InitLife == Init => LifeInv
  <1> SUFFICES ASSUME Init PROVE LifeInv
      OBVIOUS
  <1>1. TypeOK
    <2>1. entries \in Seq(BOOLEAN) /\ log \in [from : Statuses, to : Statuses]
        BY DEF Init, Statuses
    <2>2. pc \in [Transactions -> {"idle", "started", "ready"}] /\ arg \in [Transactions -> Args]
        BY DEF Init, Args
    <2>3. seen \in [Transactions -> Statuses \cup {None}] /\ applied \in [Callbacks -> 0..MaxApplied]
        BY DEF Init, MaxApplied
    <2> QED
        BY <2>1, <2>2, <2>3 DEF Init, TypeOK, Statuses
  <1>2. Unresolved = {}
      BY DEF Init, Unresolved
  <1>3. \A t \in Transactions : ~Busy(t) /\ ~Ready(t)
      BY DEF Init, Busy, Ready
  <1>4. (Handlers \cup Consumers \cup Operators) \subseteq Transactions
      BY DEF Transactions
  <1> QED
      BY <1>1, <1>2, <1>3, <1>4
         DEF Init, LifeInv, ArgFits, Apart, AppliedIsStored, NoStrandedDeadLetter, SingleEntry,
             EntryIsKnown, ConfirmationIsSeen, StatusIsSeen

\* What the first step of a transaction does, and what it cannot meet unseen.
LEMMA Begins ==
    ASSUME LifeInv, NEW t \in Transactions, NEW next \in {"started", "ready"}, NEW a \in Args,
           NEW s \in Statuses \cup {None}, Begin(t, next, a, s)
    PROVE  /\ pc' \in [Transactions -> {"idle", "started", "ready"}] /\ pc'[t] = next
           /\ arg' \in [Transactions -> Args] /\ arg'[t] = a
           /\ seen' \in [Transactions -> Statuses \cup {None}] /\ seen'[t] = s
           /\ \A u \in Transactions \ {t} : pc'[u] = pc[u] /\ arg'[u] = arg[u] /\ seen'[u] = seen[u]
           /\ overlaps \subseteq overlaps' /\ overlaps' \subseteq OverlapKinds
           /\ ~Busy(t)
           /\ \A u \in Transactions : Busy(u) =>
                /\ Kind(u) = Kind(t) => Kind(t) \in overlaps'
                /\ Kind(u) /= Kind(t) => "mixed" \in overlaps'
           /\ Apart'
  <1>1. /\ pc' \in [Transactions -> {"idle", "started", "ready"}] /\ pc'[t] = next
        /\ arg' \in [Transactions -> Args] /\ arg'[t] = a
        /\ seen' \in [Transactions -> Statuses \cup {None}] /\ seen'[t] = s
        /\ \A u \in Transactions \ {t} : pc'[u] = pc[u] /\ arg'[u] = arg[u] /\ seen'[u] = seen[u]
        /\ ~Busy(t)
      BY DEF Begin, LifeInv, TypeOK, Busy
  <1>2. /\ overlaps \subseteq overlaps' /\ overlaps' \subseteq OverlapKinds
        /\ \A u \in Transactions : Busy(u) =>
                /\ Kind(u) = Kind(t) => Kind(t) \in overlaps'
                /\ Kind(u) /= Kind(t) => "mixed" \in overlaps'
      BY Kinds DEF Begin, Overlapping, Open, Busy, LifeInv, TypeOK, OverlapKinds
  <1>3. \A u \in Transactions \ {t} : Busy(u)' = Busy(u)
      BY <1>1 DEF Busy
  <1>4. Apart
      BY DEF LifeInv
  <1>5. "mixed" \notin overlaps' =>
            \A v, u \in Transactions : Busy(v)' /\ Busy(u)' => Kind(v) = Kind(u)
      BY <1>2, <1>3, <1>4 DEF Apart
  <1>6. \A k \in {"callbacks", "consumers", "operators"} :
            k \notin overlaps' =>
                \A v, u \in Transactions :
                    Kind(v) = k /\ Kind(u) = k /\ Busy(v)' /\ Busy(u)' => v = u
    <2> SUFFICES ASSUME NEW k \in {"callbacks", "consumers", "operators"}, k \notin overlaps',
                        NEW v \in Transactions, NEW u \in Transactions,
                        Kind(v) = k, Kind(u) = k, Busy(v)', Busy(u)'
                 PROVE  v = u
        OBVIOUS
    <2>1. CASE v = t \/ u = t
        BY <1>2, <1>3, <2>1
    <2>2. CASE v /= t /\ u /= t
        BY <1>2, <1>3, <1>4, <2>2 DEF Apart, Kind, Transactions
    <2> QED
        BY <2>1, <2>2
  <1>7. Apart'
      BY <1>5, <1>6, Kinds DEF Apart, Transactions, Kind
  <1> QED
      BY <1>1, <1>2, <1>7

\* What the end of a transaction, or a read in it, leaves alone.
LEMMA Ends ==
    ASSUME LifeInv, NEW t \in Transactions, End(t)
    PROVE  /\ pc' \in [Transactions -> {"idle", "started", "ready"}] /\ pc'[t] = "idle"
           /\ arg' \in [Transactions -> Args]
           /\ seen' \in [Transactions -> Statuses \cup {None}]
           /\ \A u \in Transactions \ {t} : pc'[u] = pc[u] /\ arg'[u] = arg[u] /\ seen'[u] = seen[u]
           /\ overlaps' = overlaps => Apart'
  <1>1. /\ pc' \in [Transactions -> {"idle", "started", "ready"}] /\ pc'[t] = "idle"
        /\ arg' \in [Transactions -> Args]
        /\ seen' \in [Transactions -> Statuses \cup {None}]
        /\ \A u \in Transactions \ {t} : pc'[u] = pc[u] /\ arg'[u] = arg[u] /\ seen'[u] = seen[u]
      BY DEF End, LifeInv, TypeOK, Args
  <1>2. \A u \in Transactions : Busy(u)' => Busy(u)
      BY <1>1 DEF Busy
  <1>3. overlaps' = overlaps => Apart'
      BY <1>2 DEF LifeInv, Apart, Transactions, Kind
  <1> QED
      BY <1>1, <1>3

LEMMA Reads ==
    ASSUME LifeInv, NEW t \in Transactions, NEW s \in Statuses \cup {None}, Read(t, s), Busy(t)
    PROVE  /\ pc' \in [Transactions -> {"idle", "started", "ready"}] /\ pc'[t] = "ready"
           /\ arg' = arg
           /\ seen' \in [Transactions -> Statuses \cup {None}] /\ seen'[t] = s
           /\ \A u \in Transactions \ {t} : pc'[u] = pc[u] /\ seen'[u] = seen[u]
           /\ overlaps' = overlaps => Apart'
  <1>1. /\ pc' \in [Transactions -> {"idle", "started", "ready"}] /\ pc'[t] = "ready"
        /\ arg' = arg
        /\ seen' \in [Transactions -> Statuses \cup {None}] /\ seen'[t] = s
        /\ \A u \in Transactions \ {t} : pc'[u] = pc[u] /\ seen'[u] = seen[u]
      BY DEF Read, LifeInv, TypeOK
  <1>2. \A u \in Transactions : Busy(u)' => Busy(u)
      BY <1>1 DEF Busy
  <1>3. overlaps' = overlaps => Apart'
      BY <1>2 DEF LifeInv, Apart, Transactions, Kind
  <1> QED
      BY <1>1, <1>3

\* Who is alone: no other transaction of the kinds that have not met.
LEMMA Alone ==
    ASSUME LifeInv, NEW t \in Transactions, NEW u \in Transactions, Busy(t), Busy(u), t /= u
    PROVE  /\ overlaps /= {}
           /\ t \in Handlers /\ u \in Handlers => "callbacks" \in overlaps
           /\ t \in Consumers /\ u \in Consumers => "consumers" \in overlaps
           /\ Kind(t) /= Kind(u) => "mixed" \in overlaps
  BY Kinds DEF LifeInv, Apart, Kind, Transactions

LEMMA EntryAdded ==
    ASSUME LifeInv, entries' = Append(entries, FALSE)
    PROVE  /\ entries' \in Seq(BOOLEAN)
           /\ Unresolved' = Unresolved \cup {Len(entries) + 1}
           /\ DOMAIN entries \subseteq DOMAIN entries'
  BY DEF LifeInv, TypeOK, Unresolved

LEMMA EntryResolved ==
    ASSUME LifeInv, NEW i \in DOMAIN entries, entries' = [entries EXCEPT ![i] = TRUE]
    PROVE  /\ entries' \in Seq(BOOLEAN)
           /\ Unresolved' = Unresolved \ {i}
           /\ DOMAIN entries' = DOMAIN entries
  BY DEF LifeInv, TypeOK, Unresolved

LEMMA CallbackArrivesStep ==
    ASSUME LifeInv, NEW h \in Handlers, NEW k \in Callbacks, CallbackArrives(h, k)
    PROVE  LifeInv'
  <1> USE DEF CallbackArrives, rows, history
  <1>1. /\ pc' \in [Transactions -> {"idle", "started", "ready"}]
        /\ arg' \in [Transactions -> Args] /\ seen' \in [Transactions -> Statuses \cup {None}]
        /\ \A u \in Transactions \ {h} : pc'[u] = pc[u] /\ arg'[u] = arg[u] /\ seen'[u] = seen[u]
        /\ Apart' /\ overlaps \subseteq overlaps' /\ overlaps' \subseteq OverlapKinds
        /\ h \in Transactions
        /\ pc'[h] = "started" /\ arg'[h] = k /\ seen'[h] = None /\ ~Busy(h)
        /\ \A u \in Transactions : Busy(u) =>
                /\ Kind(u) = Kind(h) => Kind(h) \in overlaps'
                /\ Kind(u) /= Kind(h) => "mixed" \in overlaps'
    <2>1. Begin(h, "started", k, None)
        BY DEF Begin
    <2>2. h \in Transactions /\ k \in Args /\ None \in Statuses \cup {None}
        BY DEF Transactions, LifeInv, TypeOK, Args
    <2> QED
        BY <2>1, <2>2, Begins
  <1>2. Unresolved' = Unresolved /\ DOMAIN entries' = DOMAIN entries /\ entries' \in Seq(BOOLEAN)
      BY DEF Unresolved, LifeInv, TypeOK
  <1>3. TypeOK'
      BY <1>1, <1>2, LifecycleAssumption DEF LifeInv, TypeOK, Statuses, MaxApplied, ArgFits
  <1>4. \A u \in Transactions : ArgFits(u)'
      BY <1>1, <1>2, Kinds DEF LifeInv, TypeOK, ArgFits, Busy, Unresolved
  <1>5. \A b \in Callbacks : AppliedIsStored(b)'
      BY <1>1 DEF LifeInv, AppliedIsStored, ArgFits, Busy, TypeOK
  <1>6. NoStrandedDeadLetter'
      BY <1>1, <1>2, LifecycleAssumption DEF LifeInv, NoStrandedDeadLetter, ArgFits
  <1>7. SingleEntry'
      BY <1>1, <1>2, Alone, Kinds DEF LifeInv, SingleEntry, Ready, Busy, Transactions
  <1>8. EntryIsKnown'
      BY <1>1, <1>2, Alone, Kinds DEF LifeInv, EntryIsKnown, SingleEntry, Ready, Busy, Transactions
  <1>9. ConfirmationIsSeen'
      BY <1>1, Alone, Kinds DEF LifeInv, ConfirmationIsSeen, Ready, Busy, Transactions
  <1>10. log'.to = status' /\ StatusIsSeen'
      BY <1>1, Alone, Kinds DEF LifeInv, StatusIsSeen, EntryIsKnown, Ready, Busy, Transactions
  <1> QED
      BY <1>1, <1>3, <1>4, <1>5, <1>6, <1>7, <1>8, <1>9, <1>10 DEF LifeInv

LEMMA CallbackReadsRowStep ==
    ASSUME LifeInv, NEW h \in Handlers, CallbackReadsRow(h)
    PROVE  LifeInv'
  <1> USE DEF CallbackReadsRow, rows, history
  <1>1. /\ pc' \in [Transactions -> {"idle", "started", "ready"}]
        /\ arg' \in [Transactions -> Args] /\ seen' \in [Transactions -> Statuses \cup {None}]
        /\ \A u \in Transactions \ {h} : pc'[u] = pc[u] /\ arg'[u] = arg[u] /\ seen'[u] = seen[u]
        /\ Apart' /\ overlaps \subseteq overlaps' /\ overlaps' \subseteq OverlapKinds
        /\ h \in Transactions
        /\ pc'[h] = "ready" /\ pc[h] = "started" /\ seen'[h] = (IF linked THEN status ELSE None)
        /\ arg'[h] = arg[h] /\ overlaps' = overlaps
      BY Reads DEF Transactions, Busy, LifeInv, TypeOK
  <1>2. Unresolved' = Unresolved /\ DOMAIN entries' = DOMAIN entries /\ entries' \in Seq(BOOLEAN)
      BY DEF Unresolved, LifeInv, TypeOK
  <1>3. TypeOK'
      BY <1>1, <1>2, LifecycleAssumption DEF LifeInv, TypeOK, Statuses, MaxApplied, ArgFits
  <1>4. \A u \in Transactions : ArgFits(u)'
      BY <1>1, <1>2, Kinds DEF LifeInv, TypeOK, ArgFits, Busy, Unresolved
  <1>5. \A b \in Callbacks : AppliedIsStored(b)'
      BY <1>1 DEF LifeInv, AppliedIsStored, ArgFits, Busy, TypeOK
  <1>6. NoStrandedDeadLetter'
      BY <1>1, <1>2, LifecycleAssumption DEF LifeInv, NoStrandedDeadLetter, ArgFits
  <1>7. SingleEntry'
      BY <1>1, <1>2, Alone, Kinds DEF LifeInv, SingleEntry, Ready, Busy, Transactions
  <1>8. EntryIsKnown'
      BY <1>1, <1>2, Alone, Kinds DEF LifeInv, EntryIsKnown, SingleEntry, Ready, Busy, Transactions
  <1>9. ConfirmationIsSeen'
      BY <1>1, Alone, Kinds DEF LifeInv, ConfirmationIsSeen, Ready, Busy, Transactions
  <1>10. log'.to = status' /\ StatusIsSeen'
      BY <1>1, Alone, Kinds DEF LifeInv, StatusIsSeen, EntryIsKnown, Ready, Busy, Transactions
  <1> QED
      BY <1>1, <1>3, <1>4, <1>5, <1>6, <1>7, <1>8, <1>9, <1>10 DEF LifeInv

LEMMA CallbackOnlyStoredStep ==
    ASSUME LifeInv, NEW h \in Handlers, CallbackOnlyStored(h)
    PROVE  LifeInv'
  <1> USE DEF CallbackOnlyStored, Stores, rows, history
  <1>1. /\ pc' \in [Transactions -> {"idle", "started", "ready"}]
        /\ arg' \in [Transactions -> Args] /\ seen' \in [Transactions -> Statuses \cup {None}]
        /\ \A u \in Transactions \ {h} : pc'[u] = pc[u] /\ arg'[u] = arg[u] /\ seen'[u] = seen[u]
        /\ Apart' /\ overlaps \subseteq overlaps' /\ overlaps' \subseteq OverlapKinds
        /\ h \in Transactions
        /\ pc'[h] = "idle" /\ Busy(h) /\ overlaps' = overlaps
      BY Ends DEF Transactions, Busy, LifeInv, TypeOK
  <1>2. Unresolved' = Unresolved /\ DOMAIN entries' = DOMAIN entries /\ entries' \in Seq(BOOLEAN)
      BY DEF Unresolved, LifeInv, TypeOK
  <1>3. TypeOK'
      BY <1>1, <1>2, LifecycleAssumption DEF LifeInv, TypeOK, Statuses, MaxApplied, ArgFits
  <1>4. \A u \in Transactions : ArgFits(u)'
      BY <1>1, <1>2, Kinds DEF LifeInv, TypeOK, ArgFits, Busy, Unresolved
  <1>5. \A b \in Callbacks : AppliedIsStored(b)'
      BY <1>1 DEF LifeInv, AppliedIsStored, ArgFits, Busy, TypeOK
  <1>6. NoStrandedDeadLetter'
      BY <1>1, <1>2, LifecycleAssumption DEF LifeInv, NoStrandedDeadLetter, ArgFits
  <1>7. SingleEntry'
      BY <1>1, <1>2, Alone, Kinds DEF LifeInv, SingleEntry, Ready, Busy, Transactions
  <1>8. EntryIsKnown'
      BY <1>1, <1>2, Alone, Kinds DEF LifeInv, EntryIsKnown, SingleEntry, Ready, Busy, Transactions
  <1>9. ConfirmationIsSeen'
      BY <1>1, Alone, Kinds DEF LifeInv, ConfirmationIsSeen, Ready, Busy, Transactions
  <1>10. log'.to = status' /\ StatusIsSeen'
      BY <1>1, Alone, Kinds DEF LifeInv, StatusIsSeen, EntryIsKnown, Ready, Busy, Transactions
  <1> QED
      BY <1>1, <1>3, <1>4, <1>5, <1>6, <1>7, <1>8, <1>9, <1>10 DEF LifeInv

LEMMA CallbackAppliedStep ==
    ASSUME LifeInv, NEW h \in Handlers, CallbackApplied(h)
    PROVE  LifeInv'
  <1> USE DEF CallbackApplied, Stores, Move, rows, history
  <1>1. /\ pc' \in [Transactions -> {"idle", "started", "ready"}]
        /\ arg' \in [Transactions -> Args] /\ seen' \in [Transactions -> Statuses \cup {None}]
        /\ \A u \in Transactions \ {h} : pc'[u] = pc[u] /\ arg'[u] = arg[u] /\ seen'[u] = seen[u]
        /\ Apart' /\ overlaps \subseteq overlaps' /\ overlaps' \subseteq OverlapKinds
        /\ h \in Transactions
        /\ pc'[h] = "idle" /\ Busy(h) /\ overlaps' = overlaps
      BY Ends DEF Transactions, Busy, LifeInv, TypeOK
  <1>2. Unresolved' = Unresolved /\ DOMAIN entries' = DOMAIN entries /\ entries' \in Seq(BOOLEAN)
      BY DEF Unresolved, LifeInv, TypeOK
  <1>3. TypeOK'
    <2>1. /\ arg[h] \in Callbacks /\ CallbackStatus[arg[h]] \in Statuses
          /\ seen[h] \in Statuses
        BY <1>1, LifecycleAssumption DEF LifeInv, TypeOK, ArgFits
    <2>2. applied' \in [Callbacks -> 0..MaxApplied]
        BY <2>1 DEF LifeInv, TypeOK, MaxApplied
    <2> QED
        BY <1>1, <1>2, <2>1, <2>2 DEF LifeInv, TypeOK
  <1>4. \A u \in Transactions : ArgFits(u)'
      BY <1>1, <1>2, Kinds DEF LifeInv, TypeOK, ArgFits, Busy, Unresolved
  <1>5. \A b \in Callbacks : AppliedIsStored(b)'
      BY <1>1 DEF LifeInv, AppliedIsStored, ArgFits, Busy, TypeOK
  <1>6. NoStrandedDeadLetter'
      BY <1>1, <1>2, LifecycleAssumption DEF LifeInv, NoStrandedDeadLetter, ArgFits
  <1>7. SingleEntry'
      BY <1>1, <1>2, Alone, Kinds DEF LifeInv, SingleEntry, Ready, Busy, Transactions
  <1>8. EntryIsKnown'
      BY <1>1, <1>2, Alone, Kinds DEF LifeInv, EntryIsKnown, ShouldApply, Ready, Busy, Transactions
  <1>9. ConfirmationIsSeen'
      BY <1>1, Alone, Kinds DEF LifeInv, ConfirmationIsSeen, Ready, Busy, Transactions
  <1>10. log'.to = status' /\ StatusIsSeen'
      BY <1>1, Alone, Kinds DEF LifeInv, StatusIsSeen, EntryIsKnown, Ready, Busy, Transactions
  <1> QED
      BY <1>1, <1>3, <1>4, <1>5, <1>6, <1>7, <1>8, <1>9, <1>10 DEF LifeInv

LEMMA ConsumeReadsRowStep ==
    ASSUME LifeInv, NEW c \in Consumers, ConsumeReadsRow(c)
    PROVE  LifeInv'
  <1> USE DEF ConsumeReadsRow, rows, history
  <1>1. /\ pc' \in [Transactions -> {"idle", "started", "ready"}]
        /\ arg' \in [Transactions -> Args] /\ seen' \in [Transactions -> Statuses \cup {None}]
        /\ \A u \in Transactions \ {c} : pc'[u] = pc[u] /\ arg'[u] = arg[u] /\ seen'[u] = seen[u]
        /\ Apart' /\ overlaps \subseteq overlaps' /\ overlaps' \subseteq OverlapKinds
        /\ c \in Transactions
        /\ pc'[c] = "started" /\ arg'[c] = None /\ seen'[c] = status /\ ~Busy(c)
        /\ \A u \in Transactions : Busy(u) =>
                /\ Kind(u) = Kind(c) => Kind(c) \in overlaps'
                /\ Kind(u) /= Kind(c) => "mixed" \in overlaps'
    <2>1. Begin(c, "started", None, status)
        BY DEF Begin
    <2>2. c \in Transactions /\ None \in Args /\ status \in Statuses \cup {None}
        BY DEF Transactions, LifeInv, TypeOK, Args
    <2> QED
        BY <2>1, <2>2, Begins
  <1>2. Unresolved' = Unresolved /\ DOMAIN entries' = DOMAIN entries /\ entries' \in Seq(BOOLEAN)
      BY DEF Unresolved, LifeInv, TypeOK
  <1>3. TypeOK'
      BY <1>1, <1>2, LifecycleAssumption DEF LifeInv, TypeOK, Statuses, MaxApplied, ArgFits
  <1>4. \A u \in Transactions : ArgFits(u)'
      BY <1>1, <1>2, Kinds DEF LifeInv, TypeOK, ArgFits, Busy, Unresolved
  <1>5. \A b \in Callbacks : AppliedIsStored(b)'
      BY <1>1 DEF LifeInv, AppliedIsStored, ArgFits, Busy, TypeOK
  <1>6. NoStrandedDeadLetter'
      BY <1>1, <1>2, LifecycleAssumption DEF LifeInv, NoStrandedDeadLetter, ArgFits
  <1>7. SingleEntry'
      BY <1>1, <1>2, Alone, Kinds DEF LifeInv, SingleEntry, Ready, Busy, Transactions
  <1>8. EntryIsKnown'
      BY <1>1, <1>2, Alone, Kinds DEF LifeInv, EntryIsKnown, SingleEntry, Ready, Busy, Transactions
  <1>9. ConfirmationIsSeen'
      BY <1>1, Alone, Kinds DEF LifeInv, ConfirmationIsSeen, Ready, Busy, Transactions
  <1>10. log'.to = status' /\ StatusIsSeen'
      BY <1>1, Alone, Kinds DEF LifeInv, StatusIsSeen, EntryIsKnown, Ready, Busy, Transactions
  <1> QED
      BY <1>1, <1>3, <1>4, <1>5, <1>6, <1>7, <1>8, <1>9, <1>10 DEF LifeInv

LEMMA ConsumeFindsEntryStep ==
    ASSUME LifeInv, NEW c \in Consumers, ConsumeFindsEntry(c)
    PROVE  LifeInv'
  <1> USE DEF ConsumeFindsEntry, rows, history
  <1>1. /\ pc' \in [Transactions -> {"idle", "started", "ready"}]
        /\ arg' \in [Transactions -> Args] /\ seen' \in [Transactions -> Statuses \cup {None}]
        /\ \A u \in Transactions \ {c} : pc'[u] = pc[u] /\ arg'[u] = arg[u] /\ seen'[u] = seen[u]
        /\ Apart' /\ overlaps \subseteq overlaps' /\ overlaps' \subseteq OverlapKinds
        /\ c \in Transactions
        /\ pc'[c] = "idle" /\ Busy(c) /\ overlaps' = overlaps
      BY Ends DEF Transactions, Busy, LifeInv, TypeOK
  <1>2. Unresolved' = Unresolved /\ DOMAIN entries' = DOMAIN entries /\ entries' \in Seq(BOOLEAN)
      BY DEF Unresolved, LifeInv, TypeOK
  <1>3. TypeOK'
      BY <1>1, <1>2, LifecycleAssumption DEF LifeInv, TypeOK, Statuses, MaxApplied, ArgFits
  <1>4. \A u \in Transactions : ArgFits(u)'
      BY <1>1, <1>2, Kinds DEF LifeInv, TypeOK, ArgFits, Busy, Unresolved
  <1>5. \A b \in Callbacks : AppliedIsStored(b)'
      BY <1>1 DEF LifeInv, AppliedIsStored, ArgFits, Busy, TypeOK
  <1>6. NoStrandedDeadLetter'
      BY <1>1, <1>2, LifecycleAssumption DEF LifeInv, NoStrandedDeadLetter, ArgFits
  <1>7. SingleEntry'
      BY <1>1, <1>2, Alone, Kinds DEF LifeInv, SingleEntry, Ready, Busy, Transactions
  <1>8. EntryIsKnown'
      BY <1>1, <1>2, Alone, Kinds DEF LifeInv, EntryIsKnown, SingleEntry, Ready, Busy, Transactions
  <1>9. ConfirmationIsSeen'
      BY <1>1, Alone, Kinds DEF LifeInv, ConfirmationIsSeen, Ready, Busy, Transactions
  <1>10. log'.to = status' /\ StatusIsSeen'
      BY <1>1, Alone, Kinds DEF LifeInv, StatusIsSeen, EntryIsKnown, Ready, Busy, Transactions
  <1> QED
      BY <1>1, <1>3, <1>4, <1>5, <1>6, <1>7, <1>8, <1>9, <1>10 DEF LifeInv

LEMMA ConsumeFindsNoneStep ==
    ASSUME LifeInv, NEW c \in Consumers, ConsumeFindsNone(c)
    PROVE  LifeInv'
  <1> USE DEF ConsumeFindsNone, rows, history
  <1>1. /\ pc' \in [Transactions -> {"idle", "started", "ready"}]
        /\ arg' \in [Transactions -> Args] /\ seen' \in [Transactions -> Statuses \cup {None}]
        /\ \A u \in Transactions \ {c} : pc'[u] = pc[u] /\ arg'[u] = arg[u] /\ seen'[u] = seen[u]
        /\ Apart' /\ overlaps \subseteq overlaps' /\ overlaps' \subseteq OverlapKinds
        /\ c \in Transactions
        /\ pc'[c] = "ready" /\ pc[c] = "started" /\ seen'[c] = (seen[c])
        /\ arg'[c] = arg[c] /\ overlaps' = overlaps
      BY Reads DEF Transactions, Busy, LifeInv, TypeOK
  <1>2. Unresolved' = Unresolved /\ DOMAIN entries' = DOMAIN entries /\ entries' \in Seq(BOOLEAN)
      BY DEF Unresolved, LifeInv, TypeOK
  <1>3. TypeOK'
      BY <1>1, <1>2, LifecycleAssumption DEF LifeInv, TypeOK, Statuses, MaxApplied, ArgFits
  <1>4. \A u \in Transactions : ArgFits(u)'
      BY <1>1, <1>2, Kinds DEF LifeInv, TypeOK, ArgFits, Busy, Unresolved
  <1>5. \A b \in Callbacks : AppliedIsStored(b)'
      BY <1>1 DEF LifeInv, AppliedIsStored, ArgFits, Busy, TypeOK
  <1>6. NoStrandedDeadLetter'
      BY <1>1, <1>2, LifecycleAssumption DEF LifeInv, NoStrandedDeadLetter, ArgFits
  <1>7. SingleEntry'
      BY <1>1, <1>2, Alone, Kinds DEF LifeInv, SingleEntry, Ready, Busy, Transactions
  <1>8. EntryIsKnown'
      BY <1>1, <1>2, Alone, Kinds DEF LifeInv, EntryIsKnown, SingleEntry, Ready, Busy, Transactions
  <1>9. ConfirmationIsSeen'
      BY <1>1, Alone, Kinds DEF LifeInv, ConfirmationIsSeen, Ready, Busy, Transactions
  <1>10. log'.to = status' /\ StatusIsSeen'
      BY <1>1, Alone, Kinds DEF LifeInv, StatusIsSeen, EntryIsKnown, Ready, Busy, Transactions
  <1> QED
      BY <1>1, <1>3, <1>4, <1>5, <1>6, <1>7, <1>8, <1>9, <1>10 DEF LifeInv

LEMMA ConsumeEnqueuesStep ==
    ASSUME LifeInv, NEW c \in Consumers, ConsumeEnqueues(c)
    PROVE  LifeInv'
  <1> USE DEF ConsumeEnqueues, Move, rows, history
  <1>1. /\ pc' \in [Transactions -> {"idle", "started", "ready"}]
        /\ arg' \in [Transactions -> Args] /\ seen' \in [Transactions -> Statuses \cup {None}]
        /\ \A u \in Transactions \ {c} : pc'[u] = pc[u] /\ arg'[u] = arg[u] /\ seen'[u] = seen[u]
        /\ Apart' /\ overlaps \subseteq overlaps' /\ overlaps' \subseteq OverlapKinds
        /\ c \in Transactions
        /\ pc'[c] = "idle" /\ Busy(c) /\ overlaps' = overlaps
      BY Ends DEF Transactions, Busy, LifeInv, TypeOK
  <1>2. /\ Unresolved' = Unresolved \cup {Len(entries) + 1} /\ entries' \in Seq(BOOLEAN)
        /\ DOMAIN entries \subseteq DOMAIN entries'
      BY EntryAdded
  <1>3. TypeOK'
    <2>1. seen[c] \in Statuses /\ "DLQ" \in Statuses
        BY <1>1 DEF LifeInv, ArgFits, Statuses
    <2> QED
        BY <1>1, <1>2, <2>1 DEF LifeInv, TypeOK
  <1>4. \A u \in Transactions : ArgFits(u)'
      BY <1>1, <1>2, Kinds DEF LifeInv, TypeOK, ArgFits, Busy, Unresolved
  <1>5. \A b \in Callbacks : AppliedIsStored(b)'
      BY <1>1 DEF LifeInv, AppliedIsStored, ArgFits, Busy, TypeOK
  <1>6. NoStrandedDeadLetter'
      BY <1>1, <1>2, LifecycleAssumption DEF LifeInv, NoStrandedDeadLetter, ArgFits
  <1>7. SingleEntry'
      BY <1>1, <1>2, Alone, Kinds DEF LifeInv, SingleEntry, Ready, Busy, Transactions
  <1>8. EntryIsKnown'
      BY <1>1, <1>2, Alone, Kinds DEF LifeInv, EntryIsKnown, SingleEntry, Ready, Busy, Transactions
  <1>9. ConfirmationIsSeen'
      BY <1>1, Alone, Kinds DEF LifeInv, ConfirmationIsSeen, Ready, Busy, Transactions
  <1>10. log'.to = status' /\ StatusIsSeen'
      BY <1>1, Alone, Kinds DEF LifeInv, StatusIsSeen, EntryIsKnown, Ready, Busy, Transactions
  <1> QED
      BY <1>1, <1>3, <1>4, <1>5, <1>6, <1>7, <1>8, <1>9, <1>10 DEF LifeInv

LEMMA ResolveReadsEntryStep ==
    ASSUME LifeInv, NEW o \in Operators, NEW i \in 1..MaxEntries, ResolveReadsEntry(o, i)
    PROVE  LifeInv'
  <1> USE DEF ResolveReadsEntry, rows, history
  <1>1. /\ pc' \in [Transactions -> {"idle", "started", "ready"}]
        /\ arg' \in [Transactions -> Args] /\ seen' \in [Transactions -> Statuses \cup {None}]
        /\ \A u \in Transactions \ {o} : pc'[u] = pc[u] /\ arg'[u] = arg[u] /\ seen'[u] = seen[u]
        /\ Apart' /\ overlaps \subseteq overlaps' /\ overlaps' \subseteq OverlapKinds
        /\ o \in Transactions
        /\ pc'[o] = "ready" /\ arg'[o] = i /\ seen'[o] = None /\ ~Busy(o)
        /\ \A u \in Transactions : Busy(u) =>
                /\ Kind(u) = Kind(o) => Kind(o) \in overlaps'
                /\ Kind(u) /= Kind(o) => "mixed" \in overlaps'
    <2>1. Begin(o, "ready", i, None)
        BY DEF Begin
    <2>2. o \in Transactions /\ i \in Args /\ None \in Statuses \cup {None}
        BY DEF Transactions, LifeInv, TypeOK, Args
    <2> QED
        BY <2>1, <2>2, Begins
  <1>2. Unresolved' = Unresolved /\ DOMAIN entries' = DOMAIN entries /\ entries' \in Seq(BOOLEAN)
      BY DEF Unresolved, LifeInv, TypeOK
  <1>3. TypeOK'
      BY <1>1, <1>2, LifecycleAssumption DEF LifeInv, TypeOK, Statuses, MaxApplied, ArgFits
  <1>4. \A u \in Transactions : ArgFits(u)'
      BY <1>1, <1>2, Kinds DEF LifeInv, TypeOK, ArgFits, Busy, Unresolved
  <1>5. \A b \in Callbacks : AppliedIsStored(b)'
      BY <1>1 DEF LifeInv, AppliedIsStored, ArgFits, Busy, TypeOK
  <1>6. NoStrandedDeadLetter'
      BY <1>1, <1>2, LifecycleAssumption DEF LifeInv, NoStrandedDeadLetter, ArgFits
  <1>7. SingleEntry'
      BY <1>1, <1>2, Alone, Kinds DEF LifeInv, SingleEntry, Ready, Busy, Transactions
  <1>8. EntryIsKnown'
      BY <1>1, <1>2, Alone, Kinds DEF LifeInv, EntryIsKnown, SingleEntry, Ready, Busy, Transactions
  <1>9. ConfirmationIsSeen'
      BY <1>1, Alone, Kinds DEF LifeInv, ConfirmationIsSeen, Ready, Busy, Transactions
  <1>10. log'.to = status' /\ StatusIsSeen'
      BY <1>1, Alone, Kinds DEF LifeInv, StatusIsSeen, EntryIsKnown, Ready, Busy, Transactions
  <1> QED
      BY <1>1, <1>3, <1>4, <1>5, <1>6, <1>7, <1>8, <1>9, <1>10 DEF LifeInv

LEMMA ResolveCommitsStep ==
    ASSUME LifeInv, NEW o \in Operators, NEW to \in {"QUEUED", "FAILED"}, ResolveCommits(o, to)
    PROVE  LifeInv'
  <1> USE DEF ResolveCommits, Move, rows, history
  <1>1. /\ pc' \in [Transactions -> {"idle", "started", "ready"}]
        /\ arg' \in [Transactions -> Args] /\ seen' \in [Transactions -> Statuses \cup {None}]
        /\ \A u \in Transactions \ {o} : pc'[u] = pc[u] /\ arg'[u] = arg[u] /\ seen'[u] = seen[u]
        /\ Apart' /\ overlaps \subseteq overlaps' /\ overlaps' \subseteq OverlapKinds
        /\ o \in Transactions
        /\ pc'[o] = "idle" /\ Busy(o) /\ overlaps' = overlaps
      BY Ends DEF Transactions, Busy, LifeInv, TypeOK
  <1>2. /\ arg[o] \in DOMAIN entries
        /\ Unresolved' = Unresolved \ {arg[o]} /\ entries' \in Seq(BOOLEAN)
        /\ DOMAIN entries' = DOMAIN entries
      BY <1>1, EntryResolved DEF LifeInv, ArgFits
  <1>3. TypeOK'
      BY <1>1, <1>2, LifecycleAssumption DEF LifeInv, TypeOK, Statuses, MaxApplied, ArgFits
  <1>4. \A u \in Transactions : ArgFits(u)'
      BY <1>1, <1>2, Kinds DEF LifeInv, TypeOK, ArgFits, Busy, Unresolved
  <1>5. \A b \in Callbacks : AppliedIsStored(b)'
      BY <1>1 DEF LifeInv, AppliedIsStored, ArgFits, Busy, TypeOK
  <1>6. NoStrandedDeadLetter'
      BY <1>1, <1>2, LifecycleAssumption DEF LifeInv, NoStrandedDeadLetter, ArgFits
  <1>7. SingleEntry'
      BY <1>1, <1>2, Alone, Kinds DEF LifeInv, SingleEntry, Ready, Busy, Transactions
  <1>8. EntryIsKnown'
      BY <1>1, <1>2, Alone, Kinds DEF LifeInv, EntryIsKnown, SingleEntry, Ready, Busy, Transactions
  <1>9. ConfirmationIsSeen'
      BY <1>1, Alone, Kinds DEF LifeInv, ConfirmationIsSeen, Ready, Busy, Transactions
  <1>10. log'.to = status' /\ StatusIsSeen'
      BY <1>1, Alone, Kinds DEF LifeInv, StatusIsSeen, EntryIsKnown, Ready, Busy, Transactions
  <1> QED
      BY <1>1, <1>3, <1>4, <1>5, <1>6, <1>7, <1>8, <1>9, <1>10 DEF LifeInv

LEMMA RollbackStep ==
    ASSUME LifeInv, NEW t \in Transactions, Rollback(t)
    PROVE  LifeInv'
  <1> USE DEF Rollback, rows, history
  <1>1. /\ pc' \in [Transactions -> {"idle", "started", "ready"}]
        /\ arg' \in [Transactions -> Args] /\ seen' \in [Transactions -> Statuses \cup {None}]
        /\ \A u \in Transactions \ {t} : pc'[u] = pc[u] /\ arg'[u] = arg[u] /\ seen'[u] = seen[u]
        /\ Apart' /\ overlaps \subseteq overlaps' /\ overlaps' \subseteq OverlapKinds
        /\ t \in Transactions
        /\ pc'[t] = "idle" /\ Busy(t) /\ overlaps' = overlaps
      BY Ends DEF Transactions, Busy, LifeInv, TypeOK
  <1>2. Unresolved' = Unresolved /\ DOMAIN entries' = DOMAIN entries /\ entries' \in Seq(BOOLEAN)
      BY DEF Unresolved, LifeInv, TypeOK
  <1>3. TypeOK'
      BY <1>1, <1>2, LifecycleAssumption DEF LifeInv, TypeOK, Statuses, MaxApplied, ArgFits
  <1>4. \A u \in Transactions : ArgFits(u)'
      BY <1>1, <1>2, Kinds DEF LifeInv, TypeOK, ArgFits, Busy, Unresolved
  <1>5. \A b \in Callbacks : AppliedIsStored(b)'
      BY <1>1 DEF LifeInv, AppliedIsStored, ArgFits, Busy, TypeOK
  <1>6. NoStrandedDeadLetter'
      BY <1>1, <1>2, LifecycleAssumption DEF LifeInv, NoStrandedDeadLetter, ArgFits
  <1>7. SingleEntry'
      BY <1>1, <1>2, Alone, Kinds DEF LifeInv, SingleEntry, Ready, Busy, Transactions
  <1>8. EntryIsKnown'
      BY <1>1, <1>2, Alone, Kinds DEF LifeInv, EntryIsKnown, SingleEntry, Ready, Busy, Transactions
  <1>9. ConfirmationIsSeen'
      BY <1>1, Alone, Kinds DEF LifeInv, ConfirmationIsSeen, Ready, Busy, Transactions
  <1>10. log'.to = status' /\ StatusIsSeen'
      BY <1>1, Alone, Kinds DEF LifeInv, StatusIsSeen, EntryIsKnown, Ready, Busy, Transactions
  <1> QED
      BY <1>1, <1>3, <1>4, <1>5, <1>6, <1>7, <1>8, <1>9, <1>10 DEF LifeInv

\* The delivery worker moves no notification that has an unresolved entry, nor
\* one whose transactions it has not overlapped with.
LEMMA WorkerSendsStep ==
    ASSUME LifeInv, WorkerSends
    PROVE  LifeInv'
  <1> USE DEF WorkerSends, Move, local
  <1>1. /\ overlaps \subseteq overlaps' /\ overlaps' \subseteq OverlapKinds
        /\ \A t \in Transactions : Busy(t) => "mixed" \in overlaps'
      BY Kinds DEF Overlapping, Kind, Open, Busy, LifeInv, TypeOK, OverlapKinds
  <1>2. Unresolved' = Unresolved
      BY DEF Unresolved
  <1>3. TypeOK'
      BY <1>1 DEF LifeInv, TypeOK, Statuses
  <1>4. Apart' /\ \A t \in Transactions : ArgFits(t)'
      BY <1>1 DEF LifeInv, Apart, ArgFits, Busy, Kind
  <1>5. SingleEntry' /\ EntryIsKnown'
      BY <1>1, <1>2 DEF LifeInv, SingleEntry, EntryIsKnown, Ready, Busy
  <1>6. ConfirmationIsSeen' /\ log'.to = status' /\ StatusIsSeen'
      BY <1>1 DEF ConfirmationIsSeen, StatusIsSeen, Ready, Busy, Transactions
  <1> QED
      BY <1>3, <1>4, <1>5, <1>6 DEF LifeInv, AppliedIsStored, NoStrandedDeadLetter

LEMMA LifeStep == LifeInv /\ [Next]_vars => LifeInv'
  <1> SUFFICES ASSUME LifeInv, [Next]_vars
               PROVE  LifeInv'
      OBVIOUS
  <1>1. CASE UNCHANGED vars
      BY <1>1 DEF vars, rows, local, history, LifeInv, TypeOK, ArgFits, Apart, AppliedIsStored,
                  NoStrandedDeadLetter, SingleEntry, EntryIsKnown, ConfirmationIsSeen,
                  StatusIsSeen, Busy, Ready, Unresolved
  <1>2. CASE \E h \in Handlers : Callback(h)
      BY <1>2, CallbackArrivesStep, CallbackReadsRowStep, CallbackOnlyStoredStep,
         CallbackAppliedStep DEF Callback
  <1>3. CASE \E c \in Consumers : Consume(c)
      BY <1>3, ConsumeReadsRowStep, ConsumeFindsEntryStep, ConsumeFindsNoneStep,
         ConsumeEnqueuesStep DEF Consume
  <1>4. CASE \E o \in Operators : Resolve(o)
      BY <1>4, ResolveReadsEntryStep, ResolveCommitsStep DEF Resolve
  <1>5. CASE \E t \in Transactions : Rollback(t)
      BY <1>5, RollbackStep
  <1>6. CASE WorkerSends
      BY <1>6, WorkerSendsStep
  <1> QED
      BY <1>1, <1>2, <1>3, <1>4, <1>5, <1>6 DEF Next

LEMMA LifeAlways == Spec => []LifeInv
  BY InitLife, LifeStep, PTL DEF Spec

\* Every row and every variable of a transaction keeps its type
\* (delivery/acknowledgements.ts, dlq/consumer.ts, dlq/service.ts).
THEOREM TypeCorrect == Spec => []TypeOK
  <1>1. LifeInv => TypeOK
      BY DEF LifeInv
  <1> QED
      BY <1>1, LifeAlways, PTL

\* A callback changes the notification at most once, for any number of
\* redeliveries at once (DeliveryAcknowledgementService.record).
THEOREM CallbackAppliedOnce == Spec => []AppliedOnce
  <1>1. LifeInv => AppliedOnce
      BY DEF LifeInv, AppliedIsStored, AppliedOnce
  <1> QED
      BY <1>1, LifeAlways, PTL

\* A notification in DLQ always has an entry an operator can resolve, for any
\* interleaving of consumers, operators and callbacks (dlq/consumer.ts).
THEOREM DeadLetterIsOpen == Spec => []NoStrandedDeadLetter
  <1>1. LifeInv => NoStrandedDeadLetter
      BY DEF LifeInv
  <1> QED
      BY <1>1, LifeAlways, PTL

\* One unresolved entry at most while no consumers overlap, and one exactly in
\* DLQ while only transactions of one kind do (dlq/consumer.ts, dlq/service.ts).
THEOREM EntryIsSingle == Spec => []OneOpenEntry
  <1>1. LifeInv => OneOpenEntry
    <2> SUFFICES ASSUME LifeInv
                 PROVE  OneOpenEntry
        OBVIOUS
    <2>1. "consumers" \notin overlaps => Cardinality(Unresolved) <= 1
      <3> SUFFICES ASSUME "consumers" \notin overlaps
                   PROVE  Cardinality(Unresolved) <= 1
          OBVIOUS
      <3>1. \A i, j \in Unresolved : i = j
          BY DEF LifeInv, SingleEntry
      <3>2. CASE Unresolved = {}
          BY <3>2, FS_EmptySet
      <3>3. CASE Unresolved /= {}
        <4>1. PICK i : i \in Unresolved
            BY <3>3
        <4>2. Unresolved = {i}
            BY <3>1, <4>1
        <4>3. Cardinality({i}) = 1
            BY FS_Singleton
        <4> QED
            BY <4>2, <4>3
      <3> QED
          BY <3>2, <3>3
    <2> QED
        BY <2>1 DEF LifeInv, EntryIsKnown, OneOpenEntry
  <1> QED
      BY <1>1, LifeAlways, PTL

\* A callback handled alone among callbacks takes no confirmation back,
\* whatever consumers, operators and the delivery worker do meanwhile
\* (shouldApply).
THEOREM ConfirmedStays == Spec => ConfirmedStaysAlone
  <1>1. LifeInv /\ [Next]_vars =>
            [\A h \in Handlers :
                CallbackApplied(h) /\ "callbacks" \notin overlaps =>
                    status /= "READ" /\ (status = "DELIVERED" => status' = "READ")]_vars
    <2> SUFFICES ASSUME LifeInv, NEW h \in Handlers, CallbackApplied(h), "callbacks" \notin overlaps
                 PROVE  status /= "READ" /\ (status = "DELIVERED" => status' = "READ")
        OBVIOUS
    <2>1. status \in {"DELIVERED", "READ"} => seen[h] = status
        BY DEF LifeInv, ConfirmationIsSeen, CallbackApplied, Ready
    <2>2. arg[h] \in Callbacks /\ CallbackStatus[arg[h]] \in Statuses
        BY LifecycleAssumption DEF LifeInv, ArgFits, CallbackApplied, Busy, Transactions
    <2>3. ShouldApply(seen[h], CallbackStatus[arg[h]]) /\ status' = CallbackStatus[arg[h]]
        BY DEF CallbackApplied, Move
    <2>4. seen[h] = "DELIVERED" => CallbackStatus[arg[h]] = "READ"
        BY <2>2, <2>3 DEF ShouldApply, Rank, Statuses
    <2> QED
        BY <2>1, <2>3, <2>4 DEF ShouldApply
  <1> QED
      BY <1>1, LifeAlways, PTL DEF Spec, ConfirmedStaysAlone

\* Without overlaps the state log names every change of the status as it was
\* (notificationStateLog of all three transactions).
THEOREM LogIsTrue == Spec => TransitionsLogged
  <1>1. LifeInv /\ [Next]_vars =>
            [overlaps' = {} /\ status' /= status =>
                log' = [from |-> status, to |-> status'] /\ log.to = status]_vars
    <2> SUFFICES ASSUME LifeInv, Next, overlaps' = {}, status' /= status
                 PROVE  log' = [from |-> status, to |-> status'] /\ log.to = status
        OBVIOUS
    <2>1. log.to = status /\ (overlaps = {} => StatusIsSeen)
        BY DEF LifeInv
    <2>2. ASSUME NEW h \in Handlers, Callback(h)
          PROVE  log' = [from |-> status, to |-> status']
        BY <2>1, <2>2 DEF Callback, CallbackArrives, CallbackReadsRow, CallbackOnlyStored,
                          CallbackApplied, Move, StatusIsSeen, Ready, rows, history
    <2>3. ASSUME NEW c \in Consumers, Consume(c)
          PROVE  log' = [from |-> status, to |-> status']
        BY <2>1, <2>3 DEF Consume, ConsumeReadsRow, ConsumeFindsEntry, ConsumeFindsNone,
                          ConsumeEnqueues, Move, StatusIsSeen, Busy, rows, history
    <2>4. ASSUME NEW o \in Operators, Resolve(o)
          PROVE  log' = [from |-> status, to |-> status']
        BY <2>1, <2>4 DEF Resolve, ResolveReadsEntry, ResolveCommits, Move, StatusIsSeen,
                          Busy, rows, history
    <2>5. WorkerSends => log' = [from |-> status, to |-> status']
        BY DEF WorkerSends, Move
    <2>6. ASSUME NEW t \in Transactions, Rollback(t)
          PROVE  FALSE
        BY <2>6 DEF Rollback, rows
    <2> QED
        BY <2>1, <2>2, <2>3, <2>4, <2>5, <2>6 DEF Next
  <1> QED
      BY <1>1, LifeAlways, PTL DEF Spec, TransitionsLogged
=============================================================================
