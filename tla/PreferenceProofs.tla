-------------------------- MODULE PreferenceProofs --------------------------
(***************************************************************************)
(* Theorems about what a user has set and what is made of an event for     *)
(* them.  PreferenceRouting: its cache, its logs and the routes that       *)
(* follow the settings.  NotificationContent: classification, rendering    *)
(* and quiet hours of an admitted event.                                   *)
(***************************************************************************)
EXTENDS PreferenceRouting, NotificationContent,
        FiniteSetTheorems, WellFoundedInduction, TLAPS

\* Some number of a set is the least: induction on numbers, as the well-founded
\* order that the recursive functions and the searches of the models follow.
LEMMA LeastNumber ==
    ASSUME NEW T \in SUBSET Nat, T /= {}
    PROVE  \E m \in T : \A n \in T : m <= n
  <1>1. PICK x \in T : \A y \in T : ~ (<<y, x>> \in OpToRel(<, Nat))
      BY WFMin, NatLessThanWellFounded
  <1>2. \A y \in T : ~ (y < x)
      BY <1>1 DEF OpToRel
  <1> QED
      BY <1>2

-----------------------------------------------------------------------------
(* The preferences, their cache and the audit of consents.                 *)

Labels == {"idle", "writing", "updating", "invalidating", "counting", "consenting"}
ConsentEntries == [granted : BOOLEAN, previous : BOOLEAN \cup {None}]

\* There are defaults or a choice of the user; nothing is left to be created.
Ensured == EnsureDefaultPreferences(rows) = rows

\* What a call carries is still so, unless another one committed meanwhile.
CallIsTrue(c) ==
    /\ pc[c] = "writing" /\ c \notin crossed => hand[c] = rows /\ Ensured
    /\ pc[c] = "updating" /\ c \notin crossed =>
        hand[c].previous = Restrict(EnsureDefaultPreferences(rows), DOMAIN hand[c].edit)
    /\ pc[c] \in {"invalidating", "counting"} /\ hand[c].alone => hand[c].noted = hand[c].made
    /\ pc[c] = "consenting" =>
        /\ hand[c] \in ConsentEntries
        /\ c \notin crossed => hand[c].previous = Latest(consents)

CacheIsTrue ==
    cache /= None /\ "cache" \notin mixed =>
        (cache = rows /\ Ensured) \/ \E c \in Calls : pc[c] = "invalidating"

LogIsTrue ==
    "consents" \notin mixed =>
        consentLog = [i \in DOMAIN consents |->
            [granted |-> consents[i], previous |-> IF i = 1 THEN None ELSE consents[i - 1]]]

RoutingTypeOK ==
    /\ pc \in [Calls -> Labels] /\ DOMAIN hand = Calls
    /\ consents \in Seq(BOOLEAN) /\ consentLog \in Seq(ConsentEntries)
    /\ Len(consentLog) = Len(consents)

RoutingInv ==
    /\ RoutingTypeOK
    /\ \A c \in Calls : CallIsTrue(c)
    /\ CacheIsTrue
    /\ LogIsTrue


LEMMA EnsureOnce ==
    \A r : EnsureDefaultPreferences(EnsureDefaultPreferences(r)) = EnsureDefaultPreferences(r)
  BY DEF EnsureDefaultPreferences

LEMMA Going ==
    ASSUME RoutingInv, NEW c \in Calls, NEW label, NEW carried, Goto(c, label, carried)
    PROVE  /\ pc'[c] = label /\ hand'[c] = carried
           /\ \A d \in Calls : d /= c => pc'[d] = pc[d] /\ hand'[d] = hand[d]
           /\ DOMAIN hand' = Calls
           /\ label \in Labels => pc' \in [Calls -> Labels]
  BY DEF Goto, RoutingInv, RoutingTypeOK

LEMMA InitRouting == Init => RoutingInv
  <1> SUFFICES ASSUME Init PROVE RoutingInv
      OBVIOUS
  <1>1. /\ pc = [c \in Calls |-> "idle"] /\ DOMAIN hand = Calls
        /\ consents = <<>> /\ consentLog = <<>> /\ cache = None
      BY DEF Init
  <1>2. RoutingTypeOK
      BY <1>1 DEF RoutingTypeOK, Labels
  <1>3. \A c \in Calls : CallIsTrue(c)
      BY <1>1 DEF CallIsTrue
  <1>4. CacheIsTrue
      BY <1>1 DEF CacheIsTrue
  <1>5. LogIsTrue
      BY <1>1 DEF LogIsTrue
  <1> QED
      BY <1>2, <1>3, <1>4, <1>5 DEF RoutingInv

\* A call that keeps its place keeps what is true of it, as long as it is
\* crossed by whoever changes what it has read.
LEMMA OtherCall ==
    ASSUME NEW d \in Calls, CallIsTrue(d), pc'[d] = pc[d], hand'[d] = hand[d],
           d \in crossed => d \in crossed',
           pc[d] = "writing" /\ d \notin crossed' =>
                rows' = rows \/ rows' = EnsureDefaultPreferences(rows),
           pc[d] = "updating" /\ d \notin crossed' =>
                rows' = rows \/ rows' = EnsureDefaultPreferences(rows),
           pc[d] = "consenting" /\ d \notin crossed' => consents' = consents
    PROVE  CallIsTrue(d)'
  <1>1. pc[d] = "writing" /\ d \notin crossed' => hand'[d] = rows' /\ Ensured'
      BY EnsureOnce DEF CallIsTrue, Ensured, EnsureDefaultPreferences
  <1>2. ASSUME pc[d] = "updating", d \notin crossed'
        PROVE  EnsureDefaultPreferences(rows') = EnsureDefaultPreferences(rows)
      BY <1>2, EnsureOnce
  <1>3. pc[d] = "updating" /\ d \notin crossed' =>
            hand'[d].previous = Restrict(EnsureDefaultPreferences(rows'), DOMAIN hand'[d].edit)
      BY <1>2 DEF CallIsTrue
  <1>4. pc[d] = "consenting" =>
            /\ hand'[d] \in ConsentEntries
            /\ d \notin crossed' => hand'[d].previous = Latest(consents')
      BY DEF CallIsTrue
  <1>5. pc[d] \in {"invalidating", "counting"} /\ hand'[d].alone => hand'[d].noted = hand'[d].made
      BY DEF CallIsTrue
  <1> QED
      BY <1>1, <1>3, <1>4, <1>5 DEF CallIsTrue

\* The cache stays as true as it was, by a step that ends no invalidation.
LEMMA CacheStays ==
    ASSUME CacheIsTrue, cache' = cache, "cache" \in mixed => "cache" \in mixed',
           rows' = rows \/ rows' = EnsureDefaultPreferences(rows),
           \A d \in Calls : pc[d] = "invalidating" => pc'[d] = "invalidating"
    PROVE  CacheIsTrue'
  <1>1. Ensured => rows' = rows /\ Ensured'
      BY DEF Ensured, EnsureDefaultPreferences
  <1> QED
      BY <1>1 DEF CacheIsTrue

LEMMA LogStays ==
    ASSUME LogIsTrue, UNCHANGED <<consents, consentLog>>,
           "consents" \in mixed => "consents" \in mixed'
    PROVE  LogIsTrue'
  BY DEF LogIsTrue

\* A step of one call, and what it has to show besides.
LEMMA CallMoves ==
    ASSUME RoutingInv, NEW c \in Calls, NEW label \in Labels, NEW carried,
           Goto(c, label, carried),
           \A d \in Calls \ {c} : CallIsTrue(d)', CallIsTrue(c)',
           CacheIsTrue', LogIsTrue',
           consents' \in Seq(BOOLEAN), consentLog' \in Seq(ConsentEntries),
           Len(consentLog') = Len(consents')
    PROVE  RoutingInv'
  <1>1. pc' \in [Calls -> Labels] /\ DOMAIN hand' = Calls
      BY Going
  <1>2. RoutingTypeOK'
      BY <1>1 DEF RoutingTypeOK
  <1>3. \A d \in Calls : CallIsTrue(d)'
      OBVIOUS
  <1> QED
      BY <1>2, <1>3 DEF RoutingInv

\* A step of one call that changes no row, no consent and not the cache.
LEMMA CallMovesAlone ==
    ASSUME RoutingInv, NEW c \in Calls, NEW label \in Labels, NEW carried,
           Goto(c, label, carried), pc[c] /= "invalidating",
           UNCHANGED <<consents, consentLog, cache, mixed>>,
           rows' = rows \/ rows' = EnsureDefaultPreferences(rows),
           \A d \in Calls \ {c} : d \in crossed => d \in crossed',
           CallIsTrue(c)'
    PROVE  RoutingInv'
  <1>1. \A d \in Calls \ {c} : pc'[d] = pc[d] /\ hand'[d] = hand[d]
      BY Going
  <1>2. \A d \in Calls \ {c} : CallIsTrue(d)'
      BY <1>1, OtherCall DEF RoutingInv
  <1>3. CacheIsTrue'
      BY <1>1, CacheStays DEF RoutingInv
  <1>4. LogIsTrue'
      BY LogStays DEF RoutingInv
  <1> QED
      BY <1>2, <1>3, <1>4, CallMoves DEF RoutingInv, RoutingTypeOK

LEMMA BeginsKeep ==
    ASSUME RoutingInv, NEW c \in Calls,
           \/ Load(c)
           \/ \E edit \in Edits : ReadPrevious(c, edit)
           \/ \E granted \in BOOLEAN : ReadLatestConsent(c, granted)
    PROVE  RoutingInv'
  <1>1. CASE Load(c)
    <2>1. /\ pc[c] = "idle" /\ rows' = EnsureDefaultPreferences(rows)
          /\ Goto(c, "writing", rows')
          /\ UNCHANGED <<cache, consents, consentLog, crossed, mixed>>
        BY <1>1 DEF Load, AboutPreferences
    <2>2. pc'[c] = "writing" /\ hand'[c] = rows'
        BY <2>1, Going
    <2>3. Ensured'
        BY <2>1, EnsureOnce DEF Ensured, EnsureDefaultPreferences
    <2>4. CallIsTrue(c)'
        BY <2>2, <2>3 DEF CallIsTrue
    <2> QED
        BY <2>1, <2>4, CallMovesAlone DEF Labels
  <1>2. CASE \E edit \in Edits : ReadPrevious(c, edit)
    <2>1. PICK edit \in Edits : ReadPrevious(c, edit)
        BY <1>2
    <2> DEFINE carried == [edit |-> edit,
                 previous |-> Restrict(EnsureDefaultPreferences(rows), DOMAIN edit)]
    <2>2. /\ pc[c] = "idle" /\ Goto(c, "updating", carried)
          /\ UNCHANGED <<rows, consents, consentLog, cache, crossed, mixed>>
        BY <2>1 DEF ReadPrevious, AboutPreferences, UnchangedStore
    <2>3. pc'[c] = "updating" /\ hand'[c] = carried
        BY <2>2, Going
    <2>4. CallIsTrue(c)'
        BY <2>2, <2>3 DEF CallIsTrue, EnsureDefaultPreferences
    <2> QED
        BY <2>2, <2>4, CallMovesAlone DEF Labels
  <1>3. CASE \E granted \in BOOLEAN : ReadLatestConsent(c, granted)
    <2>1. PICK granted \in BOOLEAN : ReadLatestConsent(c, granted)
        BY <1>3
    <2> DEFINE carried == [granted |-> granted, previous |-> Latest(consents)]
    <2>2. /\ pc[c] = "idle" /\ Goto(c, "consenting", carried)
          /\ UNCHANGED <<rows, consents, consentLog, cache, crossed, mixed>>
        BY <2>1 DEF ReadLatestConsent, AboutConsents, UnchangedStore
    <2>3. pc'[c] = "consenting" /\ hand'[c] = carried
        BY <2>2, Going
    <2>4. Latest(consents) \in BOOLEAN \cup {None}
        BY DEF Latest, RoutingInv, RoutingTypeOK
    <2>5. carried \in ConsentEntries
        BY <2>4 DEF ConsentEntries
    <2>6. CallIsTrue(c)'
        BY <2>2, <2>3, <2>5 DEF CallIsTrue, Latest
    <2> QED
        BY <2>2, <2>6, CallMovesAlone DEF Labels
  <1> QED
      BY <1>1, <1>2, <1>3

\* A call that returns without another effect.
LEMMA ReturnsKeep ==
    ASSUME RoutingInv, NEW c \in Calls,
           WriteCacheFails(c) \/ UpdateAborts(c) \/ CountChanges(c) \/ ConsentAborts(c)
    PROVE  RoutingInv'
  <1>1. /\ pc[c] /= "invalidating" /\ Goto(c, "idle", None) /\ crossed' = crossed \ {c}
        /\ UNCHANGED <<rows, consents, consentLog, cache, mixed>>
      BY DEF WriteCacheFails, UpdateAborts, CountChanges, ConsentAborts, Return, UnchangedStore
  <1>2. pc'[c] = "idle"
      BY <1>1, Going
  <1>3. CallIsTrue(c)'
      BY <1>2 DEF CallIsTrue
  <1> QED
      BY <1>1, <1>3, CallMovesAlone DEF Labels

LEMMA WriteCacheKeeps ==
    ASSUME RoutingInv, NEW c \in Calls, WriteCache(c)
    PROVE  RoutingInv'
  <1>1. /\ pc[c] = "writing" /\ Goto(c, "idle", None) /\ crossed' = crossed \ {c}
        /\ cache' = hand[c] /\ UNCHANGED <<rows, consents, consentLog>>
        /\ mixed' = IF c \in crossed THEN mixed \cup {"cache"} ELSE mixed \ {"cache"}
      BY DEF WriteCache, Return, UnchangedStore
  <1>2. pc'[c] = "idle" /\ \A d \in Calls \ {c} : pc'[d] = pc[d] /\ hand'[d] = hand[d]
      BY <1>1, Going
  <1>3. CallIsTrue(c)'
      BY <1>2 DEF CallIsTrue
  <1>4. \A d \in Calls \ {c} : CallIsTrue(d)'
      BY <1>1, <1>2, OtherCall DEF RoutingInv
  <1>5. CacheIsTrue'
    <2>1. c \notin crossed => hand[c] = rows /\ Ensured
        BY <1>1 DEF RoutingInv, CallIsTrue
    <2> QED
        BY <1>1, <2>1 DEF CacheIsTrue, Ensured, EnsureDefaultPreferences
  <1>6. LogIsTrue'
      BY <1>1, LogStays DEF RoutingInv
  <1> QED
      BY <1>1, <1>3, <1>4, <1>5, <1>6, CallMoves DEF RoutingInv, RoutingTypeOK, Labels

\* The update notes what it makes when nothing came between.
LEMMA UpdateKeeps ==
    ASSUME RoutingInv, NEW c \in Calls, UpdateCommits(c)
    PROVE  RoutingInv'
  <1> DEFINE edit == hand[c].edit
             before == EnsureDefaultPreferences(rows)
             carried == [noted |-> PreferenceChanges(hand[c].previous, edit),
                         made |-> PreferenceChanges(before, edit),
                         alone |-> c \notin crossed]
  <1>1. /\ pc[c] = "updating" /\ Goto(c, "invalidating", carried)
        /\ crossed' = (crossed \ {c}) \cup {d \in Calls \ {c} : pc[d] \in {"writing", "updating"}}
        /\ UNCHANGED <<cache, consents, consentLog, mixed>>
      BY DEF UpdateCommits, Cross
  <1>2. /\ pc'[c] = "invalidating" /\ hand'[c] = carried
        /\ \A d \in Calls \ {c} : pc'[d] = pc[d] /\ hand'[d] = hand[d]
      BY <1>1, Going
  <1>3. ASSUME c \notin crossed
        PROVE  PreferenceChanges(hand[c].previous, edit) = PreferenceChanges(before, edit)
    <2>1. hand[c].previous = Restrict(before, DOMAIN edit)
        BY <1>1, <1>3 DEF RoutingInv, CallIsTrue
    <2>2. \A k \in DOMAIN edit : hand[c].previous[k] = before[k]
        BY <2>1 DEF Restrict
    <2>3. {k \in DOMAIN edit : hand[c].previous[k] = "absent"} = {k \in DOMAIN edit : before[k] = "absent"}
        BY <2>2
    <2>4. {k \in DOMAIN edit : hand[c].previous[k] \notin {"absent", edit[k]}}
            = {k \in DOMAIN edit : before[k] \notin {"absent", edit[k]}}
        BY <2>2
    <2> HIDE DEF edit, before
    <2> QED
        BY <2>3, <2>4 DEF PreferenceChanges
  <1>4. CallIsTrue(c)'
    <2>1. hand'[c].alone => hand'[c].noted = hand'[c].made
      <3>1. CASE c \notin crossed
          BY <1>2, <1>3, <3>1
      <3>2. CASE c \in crossed
        <4>1. (c \notin crossed) = FALSE
            BY <3>2
        <4>2. carried.alone = FALSE
            BY <4>1
        <4> QED
            BY <1>2, <4>2
      <3> QED
          BY <3>1, <3>2
    <2> QED
        BY <1>2, <2>1 DEF CallIsTrue
  <1>5. \A d \in Calls \ {c} : CallIsTrue(d)'
      BY <1>1, <1>2, OtherCall DEF RoutingInv
  <1>6. CacheIsTrue'
      BY <1>2 DEF CacheIsTrue
  <1>7. LogIsTrue'
      BY <1>1, LogStays DEF RoutingInv
  <1> QED
      BY <1>1, <1>4, <1>5, <1>6, <1>7, CallMoves DEF RoutingInv, RoutingTypeOK, Labels

LEMMA InvalidateKeeps ==
    ASSUME RoutingInv, NEW c \in Calls, Invalidate(c) \/ InvalidateFails(c)
    PROVE  RoutingInv'
  <1>1. /\ pc[c] = "invalidating" /\ Goto(c, "counting", hand[c])
        /\ UNCHANGED <<rows, consents, consentLog, crossed>>
        /\ "consents" \in mixed' <=> "consents" \in mixed
        /\ cache' = None \/ "cache" \in mixed'
      BY DEF Invalidate, InvalidateFails, UnchangedStore
  <1>2. /\ pc'[c] = "counting" /\ hand'[c] = hand[c]
        /\ \A d \in Calls \ {c} : pc'[d] = pc[d] /\ hand'[d] = hand[d]
      BY <1>1, Going
  <1>3. CallIsTrue(c)'
      BY <1>1, <1>2 DEF RoutingInv, CallIsTrue
  <1>4. \A d \in Calls \ {c} : CallIsTrue(d)'
      BY <1>1, <1>2, OtherCall DEF RoutingInv
  <1>5. CacheIsTrue'
      BY <1>1 DEF CacheIsTrue
  <1>6. LogIsTrue'
      BY <1>1, LogStays DEF RoutingInv
  <1> QED
      BY <1>1, <1>3, <1>4, <1>5, <1>6, CallMoves DEF RoutingInv, RoutingTypeOK, Labels

\* A consent's entry names the one before it when nothing came between.
LEMMA ConsentKeeps ==
    ASSUME RoutingInv, NEW c \in Calls, ConsentCommits(c)
    PROVE  RoutingInv'
  <1>1. /\ pc[c] = "consenting" /\ Goto(c, "idle", None)
        /\ consents' = Append(consents, hand[c].granted)
        /\ consentLog' = Append(consentLog, hand[c])
        /\ mixed' = IF c \in crossed THEN mixed \cup {"consents"} ELSE mixed
        /\ crossed' = (crossed \ {c}) \cup {d \in Calls \ {c} : pc[d] \in {"consenting"}}
        /\ UNCHANGED <<rows, cache>>
      BY DEF ConsentCommits, Cross
  <1>2. pc'[c] = "idle" /\ \A d \in Calls \ {c} : pc'[d] = pc[d] /\ hand'[d] = hand[d]
      BY <1>1, Going
  <1>3. /\ hand[c] \in ConsentEntries
        /\ c \notin crossed => hand[c].previous = Latest(consents)
      BY <1>1 DEF RoutingInv, CallIsTrue
  <1>4. /\ consents \in Seq(BOOLEAN) /\ consentLog \in Seq(ConsentEntries)
        /\ Len(consentLog) = Len(consents)
      BY DEF RoutingInv, RoutingTypeOK
  <1>5. hand[c].granted \in BOOLEAN
      BY <1>3 DEF ConsentEntries
  <1>6. /\ consents' \in Seq(BOOLEAN) /\ consentLog' \in Seq(ConsentEntries)
        /\ Len(consentLog') = Len(consents')
      BY <1>1, <1>3, <1>4, <1>5
  <1>7. CallIsTrue(c)'
      BY <1>2 DEF CallIsTrue
  <1>8. \A d \in Calls \ {c} : CallIsTrue(d)'
      BY <1>1, <1>2, OtherCall DEF RoutingInv
  <1>9. CacheIsTrue'
      BY <1>1, <1>2, CacheStays DEF RoutingInv
  <1>10. LogIsTrue'
    <2> SUFFICES ASSUME "consents" \notin mixed'
                 PROVE  consentLog' = [i \in DOMAIN consents' |->
                            [granted |-> consents'[i],
                             previous |-> IF i = 1 THEN None ELSE consents'[i - 1]]]
        BY DEF LogIsTrue
    <2> DEFINE n == Len(consents)
               Entry(i) == [granted |-> consents'[i],
                            previous |-> IF i = 1 THEN None ELSE consents'[i - 1]]
    <2>1. c \notin crossed /\ "consents" \notin mixed
        BY <1>1
    <2>2. consentLog = [i \in DOMAIN consents |->
            [granted |-> consents[i], previous |-> IF i = 1 THEN None ELSE consents[i - 1]]]
        BY <2>1 DEF RoutingInv, LogIsTrue
    <2>3. /\ n \in Nat /\ DOMAIN consents = 1..n /\ DOMAIN consents' = 1..n + 1
          /\ DOMAIN consentLog' = 1..n + 1
          /\ \A i \in 1..n : consents'[i] = consents[i] /\ consentLog'[i] = consentLog[i]
          /\ consents'[n + 1] = hand[c].granted /\ consentLog'[n + 1] = hand[c]
        BY <1>1, <1>3, <1>4, <1>5
    <2>4. ASSUME NEW i \in 1..n
          PROVE  consentLog'[i] = Entry(i)
      <3>1. i = 1 \/ i - 1 \in 1..n
          BY <2>3
      <3>2. consentLog[i] = [granted |-> consents[i],
                             previous |-> IF i = 1 THEN None ELSE consents[i - 1]]
          BY <2>2, <2>3
      <3>3. CASE i = 1
          BY <2>3, <3>2, <3>3
      <3>4. CASE i /= 1
          BY <2>3, <3>1, <3>2, <3>4
      <3> QED
          BY <3>3, <3>4
    <2>5. consentLog'[n + 1] = Entry(n + 1)
      <3>1. hand[c] = [granted |-> hand[c].granted, previous |-> hand[c].previous]
          BY <1>3 DEF ConsentEntries
      <3>2. hand[c].previous = IF n = 0 THEN None ELSE consents[n]
          BY <1>3, <1>4, <2>1 DEF Latest
      <3>3. CASE n = 0
          BY <2>3, <3>1, <3>2, <3>3
      <3>4. CASE n /= 0
        <4>1. n \in 1..n /\ n + 1 /= 1 /\ (n + 1) - 1 = n
            BY <2>3, <3>4
        <4> QED
            BY <2>3, <3>1, <3>2, <3>4, <4>1
      <3> QED
          BY <3>3, <3>4
    <2>6. \A i \in 1..n + 1 : consentLog'[i] = Entry(i)
      <3> HIDE DEF Entry, n
      <3> QED
          BY <2>3, <2>4, <2>5
    <2>7. consentLog' = [i \in 1..n + 1 |-> consentLog'[i]]
        BY <1>6, <2>3
    <2> HIDE DEF n
    <2> QED
        BY <2>3, <2>6, <2>7
  <1> QED
      BY <1>1, <1>6, <1>7, <1>8, <1>9, <1>10, CallMoves DEF Labels

LEMMA StepRouting == RoutingInv /\ [Next]_vars => RoutingInv'
  <1> SUFFICES ASSUME RoutingInv, [Next]_vars PROVE RoutingInv'
      OBVIOUS
  <1>1. ASSUME UNCHANGED <<rows, consents, consentLog, pc, hand, crossed>>,
               "consents" \in mixed' <=> "consents" \in mixed, CacheIsTrue'
        PROVE  RoutingInv'
    <2>1. RoutingTypeOK'
        BY <1>1 DEF RoutingInv, RoutingTypeOK
    <2>2. \A d \in Calls : CallIsTrue(d)'
        BY <1>1, OtherCall DEF RoutingInv
    <2>3. LogIsTrue'
        BY <1>1, LogStays DEF RoutingInv
    <2> QED
        BY <1>1, <2>1, <2>2, <2>3 DEF RoutingInv
  <1>2. CASE \E c \in Calls : Load(c) \/ (\E edit \in Edits : ReadPrevious(c, edit))
                                \/ (\E granted \in BOOLEAN : ReadLatestConsent(c, granted))
      BY <1>2, BeginsKeep
  <1>3. CASE \E c \in Calls :
                WriteCacheFails(c) \/ UpdateAborts(c) \/ CountChanges(c) \/ ConsentAborts(c)
      BY <1>3, ReturnsKeep
  <1>4. CASE \E c \in Calls : WriteCache(c)
      BY <1>4, WriteCacheKeeps
  <1>5. CASE \E c \in Calls : UpdateCommits(c)
      BY <1>5, UpdateKeeps
  <1>6. CASE \E c \in Calls : Invalidate(c) \/ InvalidateFails(c)
      BY <1>6, InvalidateKeeps
  <1>7. CASE \E c \in Calls : ConsentCommits(c)
      BY <1>7, ConsentKeeps
  <1>8. CASE ExpireCache
      BY <1>1, <1>8 DEF ExpireCache, UnchangedStore, CacheIsTrue
  <1>9. CASE UNCHANGED <<rows, cache, consents, consentLog, pc, hand, crossed, mixed>>
      BY <1>1, <1>9, CacheStays DEF RoutingInv
  <1>10. CASE \E t \in RoutedTypes, segment \in Segments, priority \in Priorities,
                p \in Performances, order \in RowOrders : Route(t, segment, priority, p, order)
      BY <1>9, <1>10 DEF Route, UnchangedStore
  <1>11. CASE UNCHANGED vars
      BY <1>9, <1>11 DEF vars
  <1> QED
      BY <1>2, <1>3, <1>4, <1>5, <1>6, <1>7, <1>8, <1>10, <1>11 DEF Next

\* The cache holds the preferences in the database, but for an update about to
\* invalidate it, a failed invalidation or a get that an update overtook.
THEOREM CacheFollowsRows == Spec => []CacheIsCurrent
  <1>1. RoutingInv => CacheIsCurrent
      BY DEF RoutingInv, CacheIsTrue, CacheIsCurrent
  <1> QED
      BY <1>1, InitRouting, StepRouting, PTL DEF Spec

\* A consent's audit entry names the consent before it and an update notes the
\* changes it made, unless two such calls overlapped.
THEOREM LogsTellTheTruth == Spec => []LogsAreTrue
  <1>1. RoutingInv => LogsAreTrue
      BY DEF RoutingInv, LogIsTrue, CallIsTrue, LogsAreTrue
  <1> QED
      BY <1>1, InitRouting, StepRouting, PTL DEF Spec

-----------------------------------------------------------------------------
(* The routes of a decision.                                               *)

\* A list of channels that names none twice.
ChannelList(s) == s \in Seq(AllChannels) /\ IsInjective(s)

LEMMA AppendList ==
    ASSUME NEW q, ChannelList(q), NEW e \in AllChannels, e \notin Range(q)
    PROVE  ChannelList(Append(q, e)) /\ Range(Append(q, e)) = Range(q) \cup {e}
  <1>1. q \in Seq(AllChannels) /\ \A i, j \in 1..Len(q) : q[i] = q[j] => i = j
      BY DEF ChannelList, IsInjective
  <1>2. /\ Append(q, e) \in Seq(AllChannels) /\ Len(q) \in Nat
        /\ Len(Append(q, e)) = Len(q) + 1
        /\ \A i \in 1..Len(q) : Append(q, e)[i] = q[i]
        /\ Append(q, e)[Len(q) + 1] = e
        /\ DOMAIN Append(q, e) = 1..Len(q) + 1 /\ DOMAIN q = 1..Len(q)
      BY <1>1
  <1>3. \A i \in 1..Len(q) : q[i] /= e
      BY <1>2 DEF Range
  <1>4. IsInjective(Append(q, e))
      BY <1>1, <1>2, <1>3 DEF IsInjective
  <1>5. Range(Append(q, e)) = Range(q) \cup {e}
      BY <1>2 DEF Range
  <1> QED
      BY <1>2, <1>4, <1>5 DEF ChannelList

LEMMA JoinList ==
    ASSUME NEW q, ChannelList(q), NEW r, ChannelList(r), Range(q) \cap Range(r) = {}
    PROVE  ChannelList(q \o r) /\ Range(q \o r) = Range(q) \cup Range(r)
  <1>1. /\ q \in Seq(AllChannels) /\ \A i, j \in 1..Len(q) : q[i] = q[j] => i = j
        /\ r \in Seq(AllChannels) /\ \A i, j \in 1..Len(r) : r[i] = r[j] => i = j
      BY DEF ChannelList, IsInjective
  <1>2. /\ q \o r \in Seq(AllChannels) /\ Len(q) \in Nat /\ Len(r) \in Nat
        /\ \A i \in 1..Len(q) : (q \o r)[i] = q[i]
        /\ \A i \in Len(q) + 1..Len(q) + Len(r) : (q \o r)[i] = r[i - Len(q)]
        /\ DOMAIN (q \o r) = 1..Len(q) + Len(r)
        /\ DOMAIN q = 1..Len(q) /\ DOMAIN r = 1..Len(r)
      BY <1>1
  <1>3. \A i \in 1..Len(q), j \in 1..Len(r) : q[i] /= r[j]
      BY <1>2 DEF Range
  <1>4. ASSUME NEW i \in 1..Len(q) + Len(r), NEW j \in 1..Len(q) + Len(r),
               (q \o r)[i] = (q \o r)[j]
        PROVE  i = j
    <2>1. CASE i \in 1..Len(q) /\ j \in 1..Len(q)
        BY <1>1, <1>2, <1>4, <2>1
    <2>2. CASE i \in 1..Len(q) /\ j \in Len(q) + 1..Len(q) + Len(r)
      <3>1. j - Len(q) \in 1..Len(r)
          BY <1>2, <2>2
      <3> QED
          BY <1>2, <1>3, <1>4, <2>2, <3>1
    <2>3. CASE j \in 1..Len(q) /\ i \in Len(q) + 1..Len(q) + Len(r)
      <3>1. i - Len(q) \in 1..Len(r)
          BY <1>2, <2>3
      <3> QED
          BY <1>2, <1>3, <1>4, <2>3, <3>1
    <2>4. CASE /\ i \in Len(q) + 1..Len(q) + Len(r)
               /\ j \in Len(q) + 1..Len(q) + Len(r)
      <3>1. i - Len(q) \in 1..Len(r) /\ j - Len(q) \in 1..Len(r)
          BY <1>2, <2>4
      <3>2. i - Len(q) = j - Len(q)
          BY <1>1, <1>2, <1>4, <2>4, <3>1
      <3> QED
          BY <1>2, <2>4, <3>2
    <2> QED
        BY <1>2, <2>1, <2>2, <2>3, <2>4
  <1>5. Range(q \o r) = Range(q) \cup Range(r)
    <2>1. ASSUME NEW c \in Range(q \o r) PROVE c \in Range(q) \cup Range(r)
      <3>1. PICK i \in 1..Len(q) + Len(r) : c = (q \o r)[i]
          BY <1>2 DEF Range
      <3>2. CASE i \in 1..Len(q)
          BY <1>2, <3>1, <3>2 DEF Range
      <3>3. CASE i \in Len(q) + 1..Len(q) + Len(r)
        <4>1. i - Len(q) \in 1..Len(r)
            BY <1>2, <3>3
        <4> QED
            BY <1>2, <3>1, <3>3, <4>1 DEF Range
      <3> QED
          BY <1>2, <3>2, <3>3
    <2>2. ASSUME NEW c \in Range(q) PROVE c \in Range(q \o r)
      <3>1. PICK i \in 1..Len(q) : c = q[i]
          BY <1>2 DEF Range
      <3>2. i \in 1..Len(q) + Len(r)
          BY <1>2
      <3> QED
          BY <1>2, <3>1, <3>2 DEF Range
    <2>3. ASSUME NEW c \in Range(r) PROVE c \in Range(q \o r)
      <3>1. PICK i \in 1..Len(r) : c = r[i]
          BY <1>2 DEF Range
      <3>2. i + Len(q) \in Len(q) + 1..Len(q) + Len(r) /\ i + Len(q) \in 1..Len(q) + Len(r)
          BY <1>2
      <3>3. (i + Len(q)) - Len(q) = i
          BY <1>2
      <3>4. (q \o r)[i + Len(q)] = c
          BY <1>2, <3>1, <3>2, <3>3
      <3> QED
          BY <1>2, <3>2, <3>4 DEF Range
    <2> QED
        BY <2>1, <2>2, <2>3
  <1>6. IsInjective(q \o r)
      BY <1>2, <1>4 DEF IsInjective
  <1> QED
      BY <1>2, <1>5, <1>6 DEF ChannelList

\* The function by which Kept is defined, up to a place in the sequence.
KeptUpTo(s, S, n, kept) ==
    kept = [i \in 0..n |->
              IF i = 0 THEN <<>>
              ELSE IF s[i] \in S THEN Append(kept[i - 1], s[i]) ELSE kept[i - 1]]

LEMMA KeptExists ==
    ASSUME NEW s \in Seq(AllChannels), NEW S, NEW n \in 0..Len(s)
    PROVE  \E kept : KeptUpTo(s, S, n, kept)
  <1> DEFINE Bad == {m \in 0..Len(s) : ~ \E kept : KeptUpTo(s, S, m, kept)}
  <1> SUFFICES ASSUME Bad /= {} PROVE FALSE
      OBVIOUS
  <1>1. Bad \in SUBSET Nat /\ Len(s) \in Nat
      OBVIOUS
  <1>2. PICK m \in Bad : \A k \in Bad : m <= k
      BY <1>1, LeastNumber
  <1>3. m \in 0..Len(s) /\ ~ \E kept : KeptUpTo(s, S, m, kept)
      BY <1>2
  <1>4. CASE m = 0
    <2>1. KeptUpTo(s, S, 0, [i \in 0..0 |-> <<>>])
        BY DEF KeptUpTo
    <2> QED
        BY <1>3, <1>4, <2>1
  <1>5. CASE m /= 0
    <2>1. m - 1 \in 0..Len(s) /\ m - 1 \notin Bad
        BY <1>1, <1>2, <1>3, <1>5
    <2>2. PICK f : KeptUpTo(s, S, m - 1, f)
        BY <2>1
    <2>3. m \in Nat \ {0}
        BY <1>1, <1>3, <1>5
    <2>4. PICK last : last = IF s[m] \in S THEN Append(f[m - 1], s[m]) ELSE f[m - 1]
        OBVIOUS
    <2>5. PICK g : g = [i \in 0..m |-> IF i = m THEN last ELSE f[i]]
        OBVIOUS
    <2>6. \A i \in 0..m - 1 : g[i] = f[i] /\ i \in 0..m
        BY <2>3, <2>5
    <2>7. \A i \in 0..m - 1 : f[i] = IF i = 0 THEN <<>>
                ELSE IF s[i] \in S THEN Append(f[i - 1], s[i]) ELSE f[i - 1]
        BY <2>2, <2>3 DEF KeptUpTo
    <2>8. ASSUME NEW i \in 0..m
          PROVE  g[i] = IF i = 0 THEN <<>>
                ELSE IF s[i] \in S THEN Append(g[i - 1], s[i]) ELSE g[i - 1]
      <3>1. CASE i = m
        <4>1. g[i] = last /\ i /= 0 /\ m - 1 \in 0..m - 1 /\ g[m - 1] = f[m - 1]
            BY <2>3, <2>5, <2>6, <3>1
        <4> QED
            BY <2>4, <3>1, <4>1
      <3>2. CASE i = 0
          BY <2>3, <2>6, <2>7, <3>2
      <3>3. CASE i \in 1..m - 1
        <4>1. i \in 0..m - 1 /\ i - 1 \in 0..m - 1 /\ i /= 0
            BY <2>3, <3>3
        <4> QED
            BY <2>6, <2>7, <4>1
      <3> QED
          BY <2>3, <3>1, <3>2, <3>3
    <2>9. KeptUpTo(s, S, m, g)
        BY <2>5, <2>8 DEF KeptUpTo
    <2> QED
        BY <1>3, <2>9
  <1> QED
      BY <1>4, <1>5

\* What is kept of a list of channels is a list of those in the set.
LEMMA KeptList ==
    ASSUME NEW s, ChannelList(s), NEW S
    PROVE  ChannelList(Kept(s, S)) /\ Range(Kept(s, S)) = Range(s) \cap S
  <1>1. /\ s \in Seq(AllChannels) /\ Len(s) \in Nat /\ DOMAIN s = 1..Len(s)
        /\ \A i, j \in 1..Len(s) : s[i] = s[j] => i = j
      BY DEF ChannelList, IsInjective
  <1>2. PICK kept : kept = CHOOSE f : KeptUpTo(s, S, Len(s), f)
      OBVIOUS
  <1>3. KeptUpTo(s, S, Len(s), kept)
    <2>1. Len(s) \in 0..Len(s)
        BY <1>1
    <2>2. \E f : KeptUpTo(s, S, Len(s), f)
        BY <1>1, <2>1, KeptExists
    <2> QED
        BY <1>2, <2>2
  <1>4. Kept(s, S) = kept[Len(s)]
      BY <1>2 DEF Kept, KeptUpTo
  <1>5. \A i \in 0..Len(s) : kept[i] = IF i = 0 THEN <<>>
            ELSE IF s[i] \in S THEN Append(kept[i - 1], s[i]) ELSE kept[i - 1]
      BY <1>3 DEF KeptUpTo
  <1> DEFINE Seen(i) == {s[j] : j \in 1..i}
             Good(i) == ChannelList(kept[i]) /\ Range(kept[i]) = Seen(i) \cap S
             Bad == {i \in 0..Len(s) : ~Good(i)}
  <1>6. Good(0)
    <2>1. kept[0] = <<>>
        BY <1>1, <1>5
    <2>2. ChannelList(<<>>) /\ Range(<<>>) = {}
        BY DEF ChannelList, IsInjective, Range
    <2> QED
        BY <2>1, <2>2
  <1>7. ASSUME NEW i \in 1..Len(s), Good(i - 1) PROVE Good(i)
    <2>1. i - 1 \in 0..Len(s) /\ i \in 0..Len(s) /\ i /= 0 /\ s[i] \in AllChannels
        BY <1>1
    <2>2. Seen(i) = Seen(i - 1) \cup {s[i]} /\ s[i] \notin Seen(i - 1)
      <3>1. \A j \in 1..i : j \in 1..i - 1 \/ j = i
          BY <1>1
      <3>2. \A j \in 1..i - 1 : j \in 1..i /\ j \in 1..Len(s) /\ j /= i
          BY <1>1
      <3>3. i \in 1..i
          BY <1>1
      <3> QED
          BY <1>1, <3>1, <3>2, <3>3
    <2> HIDE DEF Seen
    <2>3. CASE s[i] \in S
      <3>1. kept[i] = Append(kept[i - 1], s[i])
          BY <1>5, <2>1, <2>3
      <3>2. s[i] \notin Range(kept[i - 1])
          BY <1>7, <2>2
      <3> QED
          BY <1>7, <2>1, <2>2, <2>3, <3>1, <3>2, AppendList
    <2>4. CASE s[i] \notin S
      <3>1. kept[i] = kept[i - 1]
          BY <1>5, <2>1, <2>4
      <3> QED
          BY <1>7, <2>2, <2>4, <3>1
    <2> QED
        BY <2>3, <2>4
  <1> HIDE DEF Good
  <1>8. \A i \in 0..Len(s) : Good(i)
    <2> SUFFICES ASSUME Bad /= {} PROVE FALSE
        OBVIOUS
    <2>1. Bad \in SUBSET Nat
        OBVIOUS
    <2>2. PICK m \in Bad : \A k \in Bad : m <= k
        BY <2>1, LeastNumber
    <2>3. m \in 0..Len(s) /\ ~Good(m)
        BY <2>2
    <2>4. m /= 0
        BY <2>3, <1>6
    <2>5. m \in 1..Len(s) /\ m - 1 \in 0..Len(s) /\ ~(m <= m - 1)
        BY <1>1, <2>3, <2>4
    <2>6. Good(m - 1)
        BY <2>2, <2>5
    <2> QED
        BY <1>7, <2>3, <2>5, <2>6
  <1>9. ChannelList(kept[Len(s)]) /\ Range(kept[Len(s)]) = Seen(Len(s)) \cap S
    <2>1. Len(s) \in 0..Len(s)
        BY <1>1
    <2> QED
        BY <1>8, <2>1 DEF Good
  <1>10. Seen(Len(s)) = Range(s)
      BY <1>1 DEF Range
  <1> QED
      BY <1>4, <1>9, <1>10

LEMMA WithoutList ==
    ASSUME NEW s, ChannelList(s), NEW t, ChannelList(t)
    PROVE  /\ ChannelList(Without(s, t)) /\ Range(Without(s, t)) = Range(s) \ Range(t)
           /\ ChannelList(t \o Without(s, t))
           /\ Range(t \o Without(s, t)) = Range(t) \cup Range(s)
  <1>1. Range(s) \subseteq AllChannels
      BY DEF ChannelList, Range
  <1>2. /\ ChannelList(Without(s, t))
        /\ Range(Without(s, t)) = Range(s) \cap (AllChannels \ Range(t))
      BY KeptList DEF Without
  <1>3. Range(Without(s, t)) = Range(s) \ Range(t)
      BY <1>1, <1>2
  <1>4. /\ ChannelList(t \o Without(s, t))
        /\ Range(t \o Without(s, t)) = Range(t) \cup Range(Without(s, t))
      BY <1>2, <1>3, JoinList
  <1> QED
      BY <1>2, <1>3, <1>4

-----------------------------------------------------------------------------
\* Counted by how many are before it, a strict total order gives each member
\* of a finite set a place of its own, and leaves no place empty.
LEMMA Places ==
    ASSUME NEW D, IsFiniteSet(D), NEW before, NEW place,
           \A i \in D : before[i] \subseteq D /\ i \notin before[i],
           \A i, j \in D : i \in before[j] => before[i] \subseteq before[j],
           \A i, j \in D : i /= j => i \in before[j] \/ j \in before[i],
           \A i \in D : place[i] = 1 + Cardinality(before[i])
    PROVE  /\ \A i \in D : place[i] \in 1..Cardinality(D)
           /\ \A i, j \in D : i \in before[j] => place[i] < place[j]
           /\ \A k \in 1..Cardinality(D) : \E i \in D : place[i] = k
  <1>1. Cardinality(D) \in Nat
      BY FS_CardinalityType
  <1>2. ASSUME NEW i \in D
        PROVE  /\ IsFiniteSet(before[i]) /\ Cardinality(before[i]) \in Nat
               /\ Cardinality(before[i]) < Cardinality(D)
    <2>1. before[i] \in SUBSET D /\ i \notin before[i]
        OBVIOUS
    <2>2. IsFiniteSet(before[i]) /\ Cardinality(before[i]) <= Cardinality(D)
        BY <2>1, FS_Subset
    <2>3. Cardinality(before[i]) /= Cardinality(D)
        BY <2>1, FS_Subset
    <2>4. Cardinality(before[i]) \in Nat
        BY <2>2, FS_CardinalityType
    <2> QED
        BY <1>1, <2>2, <2>3, <2>4
  <1>3. \A i \in D : place[i] \in 1..Cardinality(D)
    <2> TAKE i \in D
    <2>1. place[i] = 1 + Cardinality(before[i])
        OBVIOUS
    <2> QED
        BY <1>1, <1>2, <2>1
  <1>4. ASSUME NEW i \in D, NEW j \in D, i \in before[j]
        PROVE  place[i] < place[j]
    <2>1. before[i] \cup {i} \subseteq before[j] /\ i \notin before[i]
        BY <1>4
    <2>2. place[i] = 1 + Cardinality(before[i]) /\ place[j] = 1 + Cardinality(before[j])
        OBVIOUS
    <2>3. /\ IsFiniteSet(before[i]) /\ Cardinality(before[i]) \in Nat
          /\ IsFiniteSet(before[j]) /\ Cardinality(before[j]) \in Nat
        BY <1>2
    <2>4. Cardinality(before[i] \cup {i}) = Cardinality(before[i]) + 1
        BY <2>1, <2>3, FS_AddElement
    <2>5. Cardinality(before[i] \cup {i}) <= Cardinality(before[j])
        BY <2>1, <2>3, FS_Subset
    <2> QED
        BY <2>2, <2>3, <2>4, <2>5
  <1>5. \A i, j \in D : place[i] = place[j] => i = j
    <2> SUFFICES ASSUME NEW i \in D, NEW j \in D, place[i] = place[j], i /= j
                 PROVE  FALSE
        OBVIOUS
    <2>1. place[i] < place[j] \/ place[j] < place[i]
        BY <1>4
    <2> QED
        BY <1>3, <2>1
  <1>6. \A k \in 1..Cardinality(D) : \E i \in D : place[i] = k
    <2> DEFINE image == {place[i] : i \in D}
               f == [i \in D |-> place[i]]
    <2>1. f \in Injection(D, image)
      <3>1. f \in [D -> image]
          OBVIOUS
      <3>2. IsInjective(f)
          BY <1>5 DEF IsInjective
      <3> QED
          BY <3>1, <3>2 DEF Injection
    <2>2. f \in Surjection(D, image)
      <3>1. f \in [D -> image] /\ \A p \in image : \E i \in D : f[i] = p
          OBVIOUS
      <3> QED
          BY <3>1 DEF Surjection
    <2>3. ExistsBijection(D, image)
        BY <2>1, <2>2 DEF ExistsBijection, Bijection
    <2>4. IsFiniteSet(image) /\ Cardinality(image) = Cardinality(D)
        BY <2>3, FS_Bijection
    <2>5. image \subseteq 1..Cardinality(D)
        BY <1>3
    <2>6. IsFiniteSet(1..Cardinality(D)) /\ Cardinality(1..Cardinality(D)) = Cardinality(D)
      <3>1. PICK n \in Nat : n = Cardinality(D)
          BY <1>1
      <3>2. 1 \in Int /\ n \in Int
          OBVIOUS
      <3>3. IsFiniteSet(1..n) /\ Cardinality(1..n) = IF 1 > n THEN 0 ELSE n - 1 + 1
          BY <3>2, FS_Interval
      <3> QED
          BY <3>1, <3>3
    <2>7. image = 1..Cardinality(D)
      <3> HIDE DEF image
      <3> QED
          BY <2>4, <2>5, <2>6, FS_Subset
    <2> QED
        BY <2>7
  <1> QED
      BY <1>3, <1>4, <1>6

\* Ranked lists every route once, and none before one that beats it.
LEMMA RankedRoutes ==
    ASSUME NEW n \in Nat, NEW routes, DOMAIN routes = 1..n,
           \A i \in 1..n : routes[i].score \in Int
    PROVE  /\ DOMAIN Ranked(routes) = 1..n
           /\ \E origin \in [1..n -> 1..n] :
                /\ \A k \in 1..n : Ranked(routes)[k] = routes[origin[k]]
                /\ \A i \in 1..n : \E k \in 1..n : origin[k] = i
                /\ \A k, l \in 1..n : k < l => Before(routes, origin[k], origin[l])
  <1> DEFINE D == 1..n
             before == [i \in D |-> {j \in DOMAIN routes : Before(routes, j, i)}]
             place == [i \in D |-> Place(routes, i)]
             origin == [k \in D |-> CHOOSE i \in DOMAIN routes : Place(routes, i) = k]
  <1>1. \A i, j \in D : i \in before[j] <=> Before(routes, i, j)
      OBVIOUS
  <1>2. IsFiniteSet(D) /\ Cardinality(D) = n
    <2>1. 1 \in Int /\ n \in Int
        OBVIOUS
    <2>2. IsFiniteSet(1..n) /\ Cardinality(1..n) = IF 1 > n THEN 0 ELSE n - 1 + 1
        BY <2>1, FS_Interval
    <2> QED
        BY <2>2
  <1>3. \A i \in D : before[i] \subseteq D /\ i \notin before[i]
      BY DEF Before
  <1>4. ASSUME NEW i \in D, NEW j \in D, i \in before[j] PROVE before[i] \subseteq before[j]
    <2>1. \A k \in D : Before(routes, k, i) /\ Before(routes, i, j) => Before(routes, k, j)
        BY DEF Before
    <2> QED
        BY <1>1, <1>3, <1>4, <2>1
  <1>5. ASSUME NEW i \in D, NEW j \in D, i /= j PROVE i \in before[j] \/ j \in before[i]
    <2>1. Before(routes, i, j) \/ Before(routes, j, i)
        BY <1>5 DEF Before
    <2> QED
        BY <1>1, <2>1
  <1>6. \A i \in D : place[i] = 1 + Cardinality(before[i])
      BY DEF Place
  <1> HIDE DEF before
  <1>7. /\ \A i \in D : place[i] \in 1..n
        /\ \A i, j \in D : i \in before[j] => place[i] < place[j]
        /\ \A k \in 1..n : \E i \in D : place[i] = k
    <2> HIDE DEF place, D
    <2>1. /\ \A i \in D : place[i] \in 1..Cardinality(D)
          /\ \A i, j \in D : i \in before[j] => place[i] < place[j]
          /\ \A k \in 1..Cardinality(D) : \E i \in D : place[i] = k
      <3>1. IsFiniteSet(D)
          BY <1>2
      <3> QED
          BY ONLY <3>1, <1>3, <1>4, <1>5, <1>6, Places
    <2> QED
        BY <1>2, <2>1
  <1>8. \A k \in D : origin[k] \in D /\ place[origin[k]] = k
    <2> TAKE k \in D
    <2>1. \E i \in D : Place(routes, i) = k
        BY <1>7
    <2> QED
        BY <2>1
  <1>9. origin \in [1..n -> 1..n] /\ \A k \in 1..n : Ranked(routes)[k] = routes[origin[k]]
    <2>1. \A k \in 1..n : Ranked(routes)[k] = routes[origin[k]]
        BY DEF Ranked
    <2>2. origin = [k \in D |-> origin[k]]
        OBVIOUS
    <2> HIDE DEF origin
    <2> QED
        BY <1>8, <2>1, <2>2
  <1>10. \A i \in D : \E k \in D : origin[k] = i
    <2> TAKE i \in D
    <2>1. place[i] \in D
        BY <1>7
    <2>2. origin[place[i]] \in D /\ place[origin[place[i]]] = place[i]
        BY <1>8, <2>1
    <2>3. ASSUME NEW j \in D, place[j] = place[i] PROVE j = i
      <3> SUFFICES ASSUME j /= i PROVE FALSE
          OBVIOUS
      <3>1. place[i] < place[j] \/ place[j] < place[i]
          BY <1>5, <1>7
      <3> HIDE DEF place, origin
      <3>2. place[i] \in 1..n /\ place[j] \in 1..n
          BY <1>7
      <3> HIDE DEF D
      <3> QED
          BY <2>3, <3>1, <3>2
    <2> HIDE DEF place, origin
    <2> QED
        BY <2>1, <2>2, <2>3
  <1>11. ASSUME NEW k \in D, NEW l \in D, k < l
         PROVE  Before(routes, origin[k], origin[l])
    <2> HIDE DEF place, origin
    <2>1. /\ origin[k] \in D /\ place[origin[k]] = k
          /\ origin[l] \in D /\ place[origin[l]] = l
        BY <1>8
    <2>2. origin[k] /= origin[l]
        BY <1>11, <2>1
    <2>3. origin[l] \notin before[origin[k]]
      <3>1. ~(l < k)
          BY <1>11
      <3> QED
          BY <1>7, <2>1, <3>1
    <2> QED
        BY <1>1, <1>5, <2>1, <2>2, <2>3
  <1>12. DOMAIN Ranked(routes) = 1..n
      BY DEF Ranked
  <1> HIDE DEF place, origin
  <1> QED
      BY <1>9, <1>10, <1>11, <1>12

-----------------------------------------------------------------------------
LEMMA ShortLists ==
    /\ ChannelList(<<>>) /\ Range(<<>>) = {}
    /\ \A a \in AllChannels : ChannelList(<<a>>)
    /\ \A a, b \in AllChannels : a /= b => ChannelList(<<a, b>>)
    /\ \A a, b, c \in AllChannels :
            a /= b /\ a /= c /\ b /= c => ChannelList(<<a, b, c>>)
  <1>1. ChannelList(<<>>) /\ Range(<<>>) = {}
      BY DEF ChannelList, IsInjective, Range
  <1>2. ASSUME NEW a \in AllChannels PROVE ChannelList(<<a>>)
      BY DEF ChannelList, IsInjective
  <1>3. ASSUME NEW a \in AllChannels, NEW b \in AllChannels, a /= b
        PROVE  ChannelList(<<a, b>>)
      BY <1>3 DEF ChannelList, IsInjective
  <1>4. ASSUME NEW a \in AllChannels, NEW b \in AllChannels, NEW c \in AllChannels,
               a /= b, a /= c, b /= c
        PROVE  ChannelList(<<a, b, c>>)
      BY <1>4 DEF ChannelList, IsInjective
  <1> QED
      BY <1>1, <1>2, <1>3, <1>4

LEMMA EventTypesAre ==
    EventTypes = TransactionEvents \cup RiskMarginEvents \cup SipInvestmentEvents
                 \cup MarketPriceEvents \cup RegulatoryEvents
BY DEF EventTypes, PayloadTypes, TransactionTypes, RiskMarginTypes, SipInvestmentTypes,
       MarketPriceTypes, RegulatoryTypes, ++

\* The default channels of the table.
DefaultLists ==
    {<<"SMS", "PUSH", "EMAIL">>, <<"PUSH", "SMS">>, <<"EMAIL", "PUSH">>,
     <<"SMS", "PUSH">>, <<"PUSH", "EMAIL">>, <<"EMAIL", "IN_APP">>,
     <<"PUSH", "WHATSAPP">>, <<"SMS", "EMAIL">>, <<"PUSH", "IN_APP">>, <<"PUSH">>,
     <<"SMS", "EMAIL", "PUSH">>, <<"EMAIL">>}

LEMMA DefaultListsAreLists == \A s \in DefaultLists : ChannelList(s)
  <1>1. \A a \in {"SMS", "EMAIL", "PUSH", "WHATSAPP", "IN_APP"} : a \in AllChannels
      BY DEF AllChannels
  <1> QED
      BY <1>1, ShortLists DEF DefaultLists

LEMMA PolicyRows ==
    ASSUME NEW t \in EventTypes
    PROVE  \E s \in DefaultLists : ChannelPolicy[t] = Regulated(s) \/ ChannelPolicy[t] = Unregulated(s)
  <1>1. \A s \in DefaultLists : s \in DefaultLists
      OBVIOUS
  <1>2. CASE t \in TransactionEvents
      BY <1>2 DEF ChannelPolicy, DefaultLists, TransactionEvents
  <1>3. CASE t \in RiskMarginEvents
      BY <1>3 DEF ChannelPolicy, DefaultLists, RiskMarginEvents
  <1>4. CASE t \in SipInvestmentEvents
      BY <1>4 DEF ChannelPolicy, DefaultLists, SipInvestmentEvents
  <1>5. CASE t \in MarketPriceEvents
      BY <1>5 DEF ChannelPolicy, DefaultLists, MarketPriceEvents
  <1>6. CASE t \in RegulatoryEvents
      BY <1>6 DEF ChannelPolicy, DefaultLists, RegulatoryEvents
  <1> QED
      BY <1>2, <1>3, <1>4, <1>5, <1>6, EventTypesAre

\* The channels of a policy are lists, the regulatory ones among the default.
LEMMA PolicyLists ==
    ASSUME NEW t \in EventTypes
    PROVE  /\ ChannelList(ChannelPolicy[t].defaultChannels)
           /\ ChannelList(ChannelPolicy[t].regulatoryChannels)
           /\ Range(ChannelPolicy[t].regulatoryChannels)
                \subseteq Range(ChannelPolicy[t].defaultChannels)
  <1>1. PICK s \in DefaultLists :
            ChannelPolicy[t] = Regulated(s) \/ ChannelPolicy[t] = Unregulated(s)
      BY PolicyRows
  <1>2. ChannelList(s) /\ ChannelList(<<>>) /\ Range(<<>>) = {}
      BY DefaultListsAreLists, ShortLists
  <1>3. /\ ChannelPolicy[t].defaultChannels = s
        /\ ChannelPolicy[t].regulatoryChannels = s \/ ChannelPolicy[t].regulatoryChannels = <<>>
      BY <1>1 DEF Regulated, Unregulated
  <1>4. CASE ChannelPolicy[t].regulatoryChannels = s
      BY <1>2, <1>3, <1>4
  <1>5. CASE ChannelPolicy[t].regulatoryChannels = <<>>
      BY <1>2, <1>3, <1>5
  <1> QED
      BY <1>3, <1>4, <1>5

LEMMA SegmentList ==
    ASSUME NEW segment, NEW t
    PROVE  ChannelList(SegmentChannels(segment, t))
  <1>1. SegmentChannels(segment, t)
            \in {<<>>, <<"WHATSAPP">>, <<"PUSH", "SMS">>, <<"PUSH", "SMS", "EMAIL">>,
                 <<"EMAIL", "IN_APP">>}
      BY DEF SegmentChannels, SegmentOverrides
  <1>2. \A a \in {"SMS", "EMAIL", "PUSH", "WHATSAPP", "IN_APP"} : a \in AllChannels
      BY DEF AllChannels
  <1> QED
      BY <1>1, <1>2, ShortLists

\* The channels the user has a row for, of the type or of the category.
LEMMA UserOrderList ==
    ASSUME NEW r, NEW t, NEW order \in RowOrders
    PROVE  /\ ChannelList(UserOrder(r, t, order))
           /\ Range(UserOrder(r, t, order)) =
                {c \in AllChannels : UserPreference(r, t, c) /= "absent"}
  <1> DEFINE S == {c \in AllChannels : r[<<Category(t), c>>] /= "absent"}
             N == {c \in AllChannels : r[<<t, c>>] /= "absent"}
             starred == Kept(order, S)
             named == Kept(order, N)
  <1>1. ChannelList(order) /\ Range(order) = AllChannels
      BY RoutingAssumption DEF ChannelList
  <1>2. ChannelList(starred) /\ Range(starred) = S
      BY <1>1, KeptList
  <1>3. ChannelList(named) /\ Range(named) = N
      BY <1>1, KeptList
  <1>4. UserOrder(r, t, order) = starred \o Without(named, starred)
      BY DEF UserOrder
  <1>5. S \cup N = {c \in AllChannels : UserPreference(r, t, c) /= "absent"}
      BY DEF UserPreference
  <1> HIDE DEF starred, named
  <1>6. ChannelList(UserOrder(r, t, order)) /\ Range(UserOrder(r, t, order)) = S \cup N
      BY <1>2, <1>3, <1>4, WithoutList
  <1> QED
      BY <1>5, <1>6

\* Which channels an event resolves to.
Offered(t, segment) ==
    Range(ChannelPolicy[t].defaultChannels) \cup Range(SegmentChannels(segment, t))

LEMMA ResolvedList ==
    ASSUME NEW r, NEW t \in EventTypes, NEW segment, NEW order \in RowOrders
    PROVE  /\ ChannelList(ResolvedChannels(r, t, segment, order))
           /\ Range(ResolvedChannels(r, t, segment, order)) =
                Range(ChannelPolicy[t].regulatoryChannels) \cup
                {c \in AllChannels :
                    /\ c \in Offered(t, segment) \/ UserPreference(r, t, c) /= "absent"
                    /\ UserPreference(r, t, c) /= "off"}
  <1> DEFINE defaults == ChannelPolicy[t].defaultChannels
             regulatory == ChannelPolicy[t].regulatoryChannels
             ofSegment == SegmentChannels(segment, t)
             ofUser == UserOrder(r, t, order)
             offered == defaults \o Without(ofSegment, defaults)
             chosen == offered \o Without(ofUser, offered)
             On == {c \in AllChannels : UserPreference(r, t, c) /= "off"}
             kept == Kept(chosen, On)
  <1>1. /\ ChannelList(defaults) /\ ChannelList(regulatory) /\ ChannelList(ofSegment)
        /\ ChannelList(ofUser)
        /\ Range(ofUser) = {c \in AllChannels : UserPreference(r, t, c) /= "absent"}
      BY PolicyLists, SegmentList, UserOrderList
  <1>2. ResolvedChannels(r, t, segment, order) = kept \o Without(regulatory, kept)
      BY DEF ResolvedChannels
  <1> HIDE DEF defaults, regulatory, ofSegment, ofUser
  <1>3. ChannelList(offered) /\ Range(offered) = Range(defaults) \cup Range(ofSegment)
      BY <1>1, WithoutList
  <1> HIDE DEF offered
  <1>4. ChannelList(chosen) /\ Range(chosen) = Range(offered) \cup Range(ofUser)
      BY <1>1, <1>3, WithoutList
  <1> HIDE DEF chosen
  <1>5. ChannelList(kept) /\ Range(kept) = Range(chosen) \cap On
      BY <1>4, KeptList
  <1> HIDE DEF kept
  <1>6. /\ ChannelList(ResolvedChannels(r, t, segment, order))
        /\ Range(ResolvedChannels(r, t, segment, order)) = Range(kept) \cup Range(regulatory)
      BY <1>1, <1>2, <1>5, WithoutList
  <1>7. Offered(t, segment) = Range(defaults) \cup Range(ofSegment)
      BY DEF Offered, defaults, ofSegment
  <1>8. Range(offered) \subseteq AllChannels
      BY <1>3 DEF ChannelList, Range
  <1>9. Range(kept) = {c \in AllChannels :
                    /\ c \in Offered(t, segment) \/ UserPreference(r, t, c) /= "absent"
                    /\ UserPreference(r, t, c) /= "off"}
      BY <1>1, <1>3, <1>4, <1>5, <1>7, <1>8
  <1> QED
      BY <1>6, <1>9 DEF regulatory

-----------------------------------------------------------------------------
Sources == {"REGULATORY_OVERRIDE", "USER_PREFERENCE", "SEGMENT_OVERRIDE", "SYSTEM_DEFAULT"}

LEMMA SourceIs ==
    ASSUME NEW r, NEW t, NEW c
    PROVE  /\ Source(r, t, c) \in Sources
           /\ Source(r, t, c) = "REGULATORY_OVERRIDE"
                <=> c \in Range(ChannelPolicy[t].regulatoryChannels)
BY DEF Source, Sources

\* The weight of the source decides the score to within the rest of it.
LEMMA ScoreBounds ==
    ASSUME NEW c \in AllChannels, NEW source \in Sources, NEW priority \in Priorities,
           NEW p \in Performances
    PROVE  /\ Score(c, source, priority, p) \in Int
           /\ Score(c, source, priority, p) >= 4 * SourceWeight[source] - 380
           /\ Score(c, source, priority, p) <= 4 * SourceWeight[source] + 400
  <1>1. Performance(p, c).rate \in 0..100 /\ Performance(p, c).latency \in Nat
    <2>1. CASE c \in DOMAIN p
        BY <2>1, RoutingAssumption DEF Performance
    <2>2. CASE c \notin DOMAIN p
        BY <2>2 DEF Performance
    <2> QED
        BY <2>1, <2>2
  <1>2. PICK d \in -25..100 : d = DeliveryOptimization(Performance(p, c))
      BY <1>1 DEF DeliveryOptimization
  <1>3. PICK w \in {10000, 1000, 500, 0} : w = SourceWeight[source]
      BY DEF SourceWeight, Sources
  <1>4. PICK q \in {0, 1, 3, 4} : q = CostQuarters[priority]
      BY DEF CostQuarters, Priorities
  <1>5. PICK paisa \in 0..70 : paisa = ChannelCostPaisa[c]
      BY DEF ChannelCostPaisa, AllChannels
  <1>6. q * paisa \in 0..280
    <2>1. CASE q = 0
        BY <2>1
    <2>2. CASE q = 1
        BY <2>2
    <2>3. CASE q = 3
        BY <2>3
    <2>4. CASE q = 4
        BY <2>4
    <2> QED
        BY <2>1, <2>2, <2>3, <2>4
  <1>7. PICK k \in 0..280 : k = q * paisa
      BY <1>6
  <1>8. Score(c, source, priority, p) = 4 * (w + d) - k
      BY <1>2, <1>3, <1>4, <1>5, <1>7 DEF Score
  <1>9. 4 * (w + d) - k \in Int /\ 4 * (w + d) - k >= 4 * w - 380 /\ 4 * (w + d) - k <= 4 * w + 400
      OBVIOUS
  <1> QED
      BY <1>3, <1>8, <1>9

\* A route that is not beaten has a source that weighs as much or more.
LEMMA SourceFirst ==
    ASSUME NEW c \in AllChannels, NEW d \in AllChannels,
           NEW source \in Sources, NEW other \in Sources,
           NEW priority \in Priorities, NEW p \in Performances,
           Score(c, source, priority, p) >= Score(d, other, priority, p)
    PROVE  SourceWeight[source] >= SourceWeight[other]
  <1>1. PICK w \in {10000, 1000, 500, 0} : w = SourceWeight[source]
      BY DEF SourceWeight, Sources
  <1>2. PICK v \in {10000, 1000, 500, 0} : v = SourceWeight[other]
      BY DEF SourceWeight, Sources
  <1>3. PICK x \in Int : x = Score(c, source, priority, p)
      BY ScoreBounds
  <1>4. PICK y \in Int : y = Score(d, other, priority, p)
      BY ScoreBounds
  <1>5. x >= 4 * w - 380 /\ x <= 4 * w + 400
      BY <1>1, <1>3, ScoreBounds
  <1>6. y >= 4 * v - 380 /\ y <= 4 * v + 400
      BY <1>2, <1>4, ScoreBounds
  <1>7. x >= y
      BY <1>3, <1>4
  <1>8. w >= v
      BY <1>5, <1>6, <1>7
  <1> QED
      BY <1>1, <1>2, <1>8

-----------------------------------------------------------------------------
\* An update carries one of the edits.
EditsHeld == \A c \in Calls : pc[c] = "updating" => hand[c].edit \in Edits

\* Either nothing has been made or set yet, or every row is what the user set
\* last, and the default where the user never set it.
RowsAreWishes ==
    /\ rows \in Settings /\ wishes \in Settings
    /\ \/ \A k \in Keys : rows[k] = "absent" /\ wishes[k] = "absent"
       \/ \A k \in Keys :
            rows[k] = IF wishes[k] /= "absent" THEN wishes[k] ELSE DefaultRows[k]

LEMMA DefaultRowsAreSettings == DefaultRows \in Settings
BY DEF DefaultRows, Settings

LEMMA EnsuredAreWishes ==
    ASSUME RowsAreWishes
    PROVE  /\ EnsureDefaultPreferences(rows) \in Settings
           /\ \A k \in Keys : EnsureDefaultPreferences(rows)[k] =
                IF wishes[k] /= "absent" THEN wishes[k] ELSE DefaultRows[k]
  <1>1. CASE \E k \in Keys : rows[k] /= "absent"
      BY <1>1 DEF EnsureDefaultPreferences, RowsAreWishes
  <1>2. CASE \A k \in Keys : rows[k] = "absent"
    <2>1. EnsureDefaultPreferences(rows) = DefaultRows
        BY <1>2 DEF EnsureDefaultPreferences
    <2>2. \A k \in Keys : wishes[k] /= "absent" => rows[k] = wishes[k]
        BY DEF RowsAreWishes
    <2>3. \A k \in Keys : wishes[k] = "absent"
        BY <1>2, <2>2
    <2> QED
        BY <2>1, <2>3, DefaultRowsAreSettings
  <1> QED
      BY <1>1, <1>2

LEMMA WishesInit == Init => RowsAreWishes /\ EditsHeld
BY DEF Init, RowsAreWishes, Settings, EditsHeld

LEMMA WishesStep ==
    RoutingInv /\ RowsAreWishes /\ EditsHeld /\ [Next]_vars => (RowsAreWishes /\ EditsHeld)'
  <1> SUFFICES ASSUME RoutingInv, RowsAreWishes, EditsHeld, [Next]_vars
               PROVE  (RowsAreWishes /\ EditsHeld)'
      OBVIOUS
  <1>1. ASSUME rows' = rows, wishes' = wishes PROVE RowsAreWishes'
      BY <1>1 DEF RowsAreWishes
  <1>2. ASSUME NEW c \in Calls, NEW label, NEW carried, Goto(c, label, carried),
               label = "updating" => carried.edit \in Edits
        PROVE  EditsHeld'
    <2>1. /\ pc'[c] = label /\ hand'[c] = carried
          /\ \A d \in Calls : d /= c => pc'[d] = pc[d] /\ hand'[d] = hand[d]
        BY <1>2, Going
    <2> QED
        BY <1>2, <2>1 DEF EditsHeld
  <1>3. ASSUME NEW c \in Calls, Return(c) PROVE EditsHeld'
      BY <1>2, <1>3 DEF Return
  <1>4. ASSUME NEW c \in Calls, Load(c) PROVE (RowsAreWishes /\ EditsHeld)'
    <2>1. rows' = EnsureDefaultPreferences(rows) /\ wishes' = wishes
        BY <1>4 DEF Load
    <2>2. RowsAreWishes'
        BY <2>1, EnsuredAreWishes DEF RowsAreWishes
    <2>3. Goto(c, "writing", rows')
        BY <1>4 DEF Load
    <2> QED
        BY <1>2, <2>2, <2>3
  <1>5. ASSUME NEW c \in Calls, WriteCache(c) \/ WriteCacheFails(c) \/ UpdateAborts(c)
                                \/ CountChanges(c) \/ ConsentAborts(c)
        PROVE (RowsAreWishes /\ EditsHeld)'
      BY <1>1, <1>3, <1>5 DEF WriteCache, WriteCacheFails, UpdateAborts, CountChanges,
                              ConsentAborts, UnchangedStore
  <1>6. ASSUME NEW c \in Calls, NEW edit \in Edits, ReadPrevious(c, edit)
        PROVE  (RowsAreWishes /\ EditsHeld)'
    <2>1. PICK carried : /\ Goto(c, "updating", carried)
                         /\ carried = [edit |-> edit, previous |->
                                Restrict(EnsureDefaultPreferences(rows), DOMAIN edit)]
        BY <1>6 DEF ReadPrevious
    <2>2. carried.edit \in Edits
        BY <2>1
    <2>3. EditsHeld'
        BY <1>2, <2>1, <2>2
    <2> QED
        BY <1>1, <1>6, <2>3 DEF ReadPrevious, UnchangedStore
  <1>7. ASSUME NEW c \in Calls, UpdateCommits(c) PROVE (RowsAreWishes /\ EditsHeld)'
    <2>1. PICK edit : edit = hand[c].edit
        OBVIOUS
    <2>2. PICK before : before = EnsureDefaultPreferences(rows)
        OBVIOUS
    <2>3. /\ rows' = [k \in Keys |-> IF k \in DOMAIN edit THEN edit[k] ELSE before[k]]
          /\ wishes' = [k \in Keys |-> IF k \in DOMAIN edit THEN edit[k] ELSE wishes[k]]
          /\ pc[c] = "updating"
        BY <1>7, <2>1, <2>2 DEF UpdateCommits
    <2>4. \A k \in DOMAIN edit : edit[k] \in {"on", "off"}
        BY <2>1, <2>3, RoutingAssumption DEF EditsHeld, Range
    <2>5. rows' \in Settings /\ wishes' \in Settings
        BY <2>2, <2>3, <2>4, EnsuredAreWishes DEF Settings, RowsAreWishes
    <2>6. ASSUME NEW k \in Keys
          PROVE  rows'[k] = IF wishes'[k] /= "absent" THEN wishes'[k] ELSE DefaultRows[k]
        BY <2>2, <2>3, <2>4, EnsuredAreWishes
    <2>7. PICK carried : Goto(c, "invalidating", carried)
        BY <1>7 DEF UpdateCommits
    <2> QED
        BY <1>2, <2>5, <2>6, <2>7 DEF RowsAreWishes
  <1>8. ASSUME NEW c \in Calls, Invalidate(c) \/ InvalidateFails(c)
        PROVE  (RowsAreWishes /\ EditsHeld)'
    <2>1. Goto(c, "counting", hand[c])
        BY <1>8 DEF Invalidate, InvalidateFails
    <2> QED
        BY <1>1, <1>2, <1>8, <2>1 DEF Invalidate, InvalidateFails, UnchangedStore
  <1>9. ASSUME NEW c \in Calls, NEW granted \in BOOLEAN, ReadLatestConsent(c, granted)
        PROVE  (RowsAreWishes /\ EditsHeld)'
    <2>1. PICK carried : Goto(c, "consenting", carried)
        BY <1>9 DEF ReadLatestConsent
    <2> QED
        BY <1>1, <1>2, <1>9, <2>1 DEF ReadLatestConsent, UnchangedStore
  <1>10. ASSUME NEW c \in Calls, ConsentCommits(c)
         PROVE  (RowsAreWishes /\ EditsHeld)'
      BY <1>1, <1>2, <1>10 DEF ConsentCommits
  <1>11. ASSUME ExpireCache \/ UNCHANGED vars
                \/ \E t \in RoutedTypes, segment \in Segments, priority \in Priorities,
                      p \in Performances, order \in RowOrders :
                         Route(t, segment, priority, p, order)
         PROVE  (RowsAreWishes /\ EditsHeld)'
    <2>1. rows' = rows /\ wishes' = wishes /\ pc' = pc /\ hand' = hand
        BY <1>11 DEF ExpireCache, Route, UnchangedStore, vars
    <2> QED
        BY <1>1, <2>1 DEF EditsHeld
  <1> QED
      BY <1>4, <1>5, <1>6, <1>7, <1>8, <1>9, <1>10, <1>11 DEF Next

-----------------------------------------------------------------------------
\* Every step but a routing drops the last decision, unless it leaves all of
\* the user's settings as they are.
LEMMA RouteKeeps ==
    ASSUME RowsAreWishes, NEW t \in RoutedTypes, NEW segment \in Segments,
           NEW priority \in Priorities, NEW p \in Performances, NEW order \in RowOrders,
           Route(t, segment, priority, p, order)
    PROVE  RoutedAsWished'
  <1>1. PICK channels : channels = ResolvedChannels(rows, t, segment, order)
      OBVIOUS
  <1>2. PICK routes : routes = [i \in DOMAIN channels |->
            [channel |-> channels[i], source |-> Source(rows, t, channels[i]),
             score |-> Score(channels[i], Source(rows, t, channels[i]), priority, p)]]
      OBVIOUS
  <1>3. PICK n \in Nat : n = Len(channels) /\ DOMAIN channels = 1..n /\ DOMAIN routes = 1..n
    <2>1. channels \in Seq(AllChannels)
        BY <1>1, ResolvedList, RoutingAssumption DEF ChannelList
    <2> QED
        BY <1>2, <2>1
  <1>4. PICK ranked : ranked = Ranked(routes)
      OBVIOUS
  <1>5. /\ decision' = [type |-> t, priority |-> priority, segment |-> segment,
                        routes |-> ranked]
        /\ wishes' = wishes
      BY <1>1, <1>2, <1>4 DEF Route, UnchangedStore
  <1> DEFINE mandatory == Range(ChannelPolicy[t].regulatoryChannels)
             defaults == Range(ChannelPolicy[t].defaultChannels)
             pref(c) == UserPreference(rows, t, c)
  <1>6. t \in EventTypes
      BY RoutingAssumption
  <1>7. /\ ChannelList(channels)
        /\ \A c \in AllChannels : c \in Range(channels) <=>
                \/ c \in mandatory
                \/ c \in Offered(t, segment) /\ pref(c) /= "off"
                \/ pref(c) /= "absent" /\ pref(c) /= "off"
        /\ mandatory \subseteq Range(channels)
      BY <1>1, <1>6, ResolvedList
  <1>8. /\ \A i \in 1..n : channels[i] \in AllChannels
        /\ \A i, j \in 1..n : channels[i] = channels[j] => i = j
        /\ Range(channels) = {channels[i] : i \in 1..n}
      BY <1>3, <1>7 DEF ChannelList, IsInjective, Range
  <1>9. ASSUME NEW i \in 1..n
        PROVE  /\ routes[i].channel = channels[i]
               /\ routes[i].source \in Sources
               /\ routes[i].source = "REGULATORY_OVERRIDE" <=> channels[i] \in mandatory
               /\ routes[i].score = Score(channels[i], routes[i].source, priority, p)
               /\ routes[i].score \in Int
    <2>1. /\ routes[i].channel = channels[i]
          /\ routes[i].source = Source(rows, t, channels[i])
          /\ routes[i].score = Score(channels[i], Source(rows, t, channels[i]), priority, p)
        BY <1>2, <1>3
    <2>2. routes[i].source \in Sources /\ channels[i] \in AllChannels
        BY <1>8, <2>1, SourceIs
    <2>3. routes[i].source = "REGULATORY_OVERRIDE" <=> channels[i] \in mandatory
        BY <2>1, SourceIs
    <2> QED
        BY <2>1, <2>2, <2>3, ScoreBounds
  <1>10. PICK origin \in [1..n -> 1..n] :
            /\ \A k \in 1..n : ranked[k] = routes[origin[k]]
            /\ \A i \in 1..n : \E k \in 1..n : origin[k] = i
            /\ \A k, l \in 1..n : k < l => Before(routes, origin[k], origin[l])
    <2>1. \A i \in 1..n : routes[i].score \in Int
        BY <1>9
    <2>2. \E origin \in [1..n -> 1..n] :
            /\ \A k \in 1..n : Ranked(routes)[k] = routes[origin[k]]
            /\ \A i \in 1..n : \E k \in 1..n : origin[k] = i
            /\ \A k, l \in 1..n : k < l => Before(routes, origin[k], origin[l])
      <3>1. n \in Nat /\ DOMAIN routes = 1..n
          BY <1>3
      <3> QED
          BY ONLY <2>1, <3>1, RankedRoutes
    <2> QED
        BY <1>4, <2>2
  <1>11. DOMAIN ranked = 1..n
      BY <1>3, <1>4, <1>9, RankedRoutes
  <1>12. /\ Mandatory(decision)' = mandatory
         /\ Routed(decision)' = {ranked[k].channel : k \in 1..n}
         /\ \A c : Wish(decision, c)' = wishes[<<t, c>>]
         /\ \A c : CategoryWish(decision, c)' = wishes[<<Category(t), c>>]
         /\ \A c : IsDefault(decision, c)' <=> c \in defaults
    <2>1. /\ decision'.type = t /\ decision'.routes = ranked
        BY <1>5
    <2> QED
        BY <1>5, <1>11, <2>1 DEF Mandatory, Routed, Wish, CategoryWish, IsDefault
  <1>13. {ranked[k].channel : k \in 1..n} = Range(channels)
    <2>1. ASSUME NEW k \in 1..n PROVE ranked[k].channel \in Range(channels)
      <3>1. origin[k] \in 1..n /\ ranked[k].channel = channels[origin[k]]
          BY <1>9, <1>10
      <3> QED
          BY <1>8, <3>1
    <2>2. ASSUME NEW c \in Range(channels) PROVE \E k \in 1..n : ranked[k].channel = c
      <3>1. PICK i \in 1..n : c = channels[i]
          BY <1>8
      <3>2. PICK k \in 1..n : origin[k] = i
          BY <1>10
      <3>3. ranked[k].channel = channels[i]
          BY <1>9, <1>10, <3>2
      <3> QED
          BY <3>1, <3>3
    <2> QED
        BY <2>1, <2>2
  <1>14. ASSUME NEW k \in 1..n, NEW l \in 1..n, k < l
         PROVE  /\ ranked[k].channel /= ranked[l].channel
                /\ SourceWeight[ranked[k].source] >= SourceWeight[ranked[l].source]
                /\ ranked[l].channel \in mandatory => ranked[k].channel \in mandatory
    <2>1. PICK i \in 1..n : i = origin[k] /\ ranked[k] = routes[i]
        BY <1>10
    <2>2. PICK j \in 1..n : j = origin[l] /\ ranked[l] = routes[j]
        BY <1>10
    <2>3. Before(routes, i, j)
        BY <1>10, <1>14, <2>1, <2>2
    <2>4. i /= j /\ routes[i].score >= routes[j].score
      <3>1. PICK x \in Int : x = routes[i].score
          BY <1>9
      <3>2. PICK y \in Int : y = routes[j].score
          BY <1>9
      <3>3. x > y \/ (x = y /\ i < j)
          BY ONLY <2>3, <3>1, <3>2 DEF Before
      <3>4. x >= y /\ (x = y => i < j)
          BY <3>3
      <3>5. i = j => x = y /\ ~(i < j)
          BY <3>1, <3>2
      <3> QED
          BY <3>1, <3>2, <3>4, <3>5
    <2>5. SourceWeight[routes[i].source] >= SourceWeight[routes[j].source]
      <3>1. /\ channels[i] \in AllChannels /\ channels[j] \in AllChannels
            /\ routes[i].source \in Sources /\ routes[j].source \in Sources
            /\ Score(channels[i], routes[i].source, priority, p)
                    >= Score(channels[j], routes[j].source, priority, p)
          BY <1>8, <1>9, <2>4
      <3> QED
          BY <3>1, SourceFirst
    <2>6. routes[j].source = "REGULATORY_OVERRIDE" => routes[i].source = "REGULATORY_OVERRIDE"
      <3>1. routes[i].source \in Sources
          BY <1>9
      <3> QED
          BY <2>5, <3>1 DEF SourceWeight, Sources
    <2>7. routes[i].channel /= routes[j].channel
        BY <1>8, <1>9, <2>4
    <2>8. routes[j].channel \in mandatory => routes[i].channel \in mandatory
        BY <1>9, <2>6
    <2> QED
        BY <2>1, <2>2, <2>5, <2>7, <2>8
  <1>15. ASSUME NEW c \in AllChannels \ mandatory
         PROVE  /\ wishes[<<t, c>>] = "off" => c \notin Range(channels)
                /\ wishes[<<t, c>>] = "on" => c \in Range(channels)
                /\ wishes[<<t, c>>] = "absent" /\ c \notin defaults =>
                    /\ wishes[<<Category(t), c>>] = "off" => c \notin Range(channels)
                    /\ wishes[<<Category(t), c>>] = "on" => c \in Range(channels)
                /\ wishes[<<t, c>>] = "absent" /\ c \in defaults => c \in Range(channels)
    <2>1. <<t, c>> \in Keys /\ <<Category(t), c>> \in Keys
        BY DEF Keys, Scopes
    <2>2. c \in AllChannels /\ c \notin mandatory
        OBVIOUS
    <2>3. c \in Range(channels) <=>
                \/ c \in Offered(t, segment) /\ pref(c) /= "off"
                \/ pref(c) /= "absent" /\ pref(c) /= "off"
        BY <1>7, <2>2
    <2>4. pref(c) = IF rows[<<t, c>>] /= "absent" THEN rows[<<t, c>>]
                    ELSE rows[<<Category(t), c>>]
        BY DEF UserPreference
    <2>5. c \in defaults => c \in Offered(t, segment)
        BY DEF Offered
    <2> HIDE DEF pref, defaults, mandatory
    <2>6. CASE \A k \in Keys : rows[k] = "absent" /\ wishes[k] = "absent"
      <3>1. /\ rows[<<t, c>>] = "absent" /\ wishes[<<t, c>>] = "absent"
            /\ rows[<<Category(t), c>>] = "absent" /\ wishes[<<Category(t), c>>] = "absent"
          BY <2>1, <2>6
      <3> QED
          BY <2>3, <2>4, <2>5, <3>1
    <2>7. CASE \A k \in Keys :
                    rows[k] = IF wishes[k] /= "absent" THEN wishes[k] ELSE DefaultRows[k]
      <3>1. DefaultRows[<<t, c>>] = IF c \in defaults THEN "on" ELSE "absent"
          BY <2>1 DEF DefaultRows, defaults
      <3>2. rows[<<t, c>>] = IF wishes[<<t, c>>] /= "absent" THEN wishes[<<t, c>>]
                             ELSE IF c \in defaults THEN "on" ELSE "absent"
          BY <2>1, <2>7, <3>1
      <3>3. wishes[<<Category(t), c>>] /= "absent" =>
                rows[<<Category(t), c>>] = wishes[<<Category(t), c>>]
          BY <2>1, <2>7
      <3> QED
          BY <2>3, <2>4, <2>5, <3>2, <3>3
    <2> QED
        BY <2>6, <2>7 DEF RowsAreWishes
  <1> HIDE DEF mandatory, defaults, pref
  <1>16. decision'.routes = ranked
      BY <1>5
  <1>17. (Mandatory(decision) \subseteq Routed(decision))'
      BY <1>7, <1>12, <1>13
  <1>18. (\A i, j \in DOMAIN decision.routes : i < j =>
            /\ decision.routes[i].channel /= decision.routes[j].channel
            /\ SourceWeight[decision.routes[i].source] >= SourceWeight[decision.routes[j].source]
            /\ decision.routes[j].channel \in Mandatory(decision) =>
                    decision.routes[i].channel \in Mandatory(decision))'
      BY <1>11, <1>12, <1>14, <1>16
  <1>19. (\A c \in AllChannels \ Mandatory(decision) :
            /\ Wish(decision, c) = "off" => c \notin Routed(decision)
            /\ Wish(decision, c) = "on" => c \in Routed(decision)
            /\ Wish(decision, c) = "absent" /\ ~IsDefault(decision, c) =>
                /\ CategoryWish(decision, c) = "off" => c \notin Routed(decision)
                /\ CategoryWish(decision, c) = "on" => c \in Routed(decision)
            /\ Wish(decision, c) = "absent" /\ IsDefault(decision, c) => c \in Routed(decision))'
      BY <1>12, <1>13, <1>15
  <1> QED
      BY <1>17, <1>18, <1>19 DEF RoutedAsWished

LEMMA RoutedStep ==
    RowsAreWishes /\ RoutedAsWished /\ [Next]_vars => RoutedAsWished'
  <1> SUFFICES ASSUME RowsAreWishes, RoutedAsWished, [Next]_vars
               PROVE  RoutedAsWished'
      OBVIOUS
  <1>1. ASSUME decision' = None PROVE RoutedAsWished'
      BY <1>1 DEF RoutedAsWished
  <1>2. ASSUME NEW c \in Calls, NEW label, NEW carried, Goto(c, label, carried)
        PROVE  RoutedAsWished'
      BY <1>1, <1>2 DEF Goto
  <1>3. ASSUME NEW c \in Calls,
               \/ Load(c) \/ WriteCache(c) \/ WriteCacheFails(c)
               \/ \E edit \in Edits : ReadPrevious(c, edit)
               \/ UpdateCommits(c) \/ UpdateAborts(c)
               \/ Invalidate(c) \/ InvalidateFails(c) \/ CountChanges(c)
               \/ \E granted \in BOOLEAN : ReadLatestConsent(c, granted)
               \/ ConsentCommits(c) \/ ConsentAborts(c)
        PROVE  RoutedAsWished'
    <2>1. decision' = None
        BY <1>3 DEF Load, WriteCache, WriteCacheFails, ReadPrevious, UpdateCommits, UpdateAborts,
                    Invalidate, InvalidateFails, CountChanges, ReadLatestConsent,
                    ConsentCommits, ConsentAborts, Return, Goto
    <2> QED
        BY <1>1, <2>1
  <1>4. CASE ExpireCache
      BY <1>1, <1>4 DEF ExpireCache
  <1>5. ASSUME NEW t \in RoutedTypes, NEW segment \in Segments, NEW priority \in Priorities,
               NEW p \in Performances, NEW order \in RowOrders,
               Route(t, segment, priority, p, order)
        PROVE  RoutedAsWished'
      BY <1>5, RouteKeeps
  <1>6. CASE UNCHANGED vars
      BY <1>6 DEF vars, RoutedAsWished, Mandatory, Routed, Wish, CategoryWish, IsDefault
  <1> QED
      BY <1>3, <1>4, <1>5, <1>6 DEF Next

\* A routing decision takes in every mandated channel, first and with no source
\* after a weaker one, no channel twice, every channel the user wants and none
\* the user has switched off, whatever calls to the preferences are under way
\* (preferences/resolution.ts, routing/engine.ts).
THEOREM RoutesFollowWishes == Spec => []RoutedAsWished
  <1>1. Init => RoutedAsWished
      BY DEF Init, RoutedAsWished
  <1>2. Spec => []RoutingInv
      BY InitRouting, StepRouting, PTL DEF Spec
  <1>3. Spec => [](RowsAreWishes /\ EditsHeld)
      BY <1>2, WishesInit, WishesStep, PTL DEF Spec
  <1> QED
      BY <1>1, <1>3, RoutedStep, PTL DEF Spec

-----------------------------------------------------------------------------
(* Admission, classification and rendering.                                *)

\* The groups of events have none in common.
LEMMA GroupsApart ==
    /\ TransactionEvents \cap RiskMarginEvents = {}
    /\ (TransactionEvents \cup RiskMarginEvents) \cap SipInvestmentEvents = {}
    /\ (TransactionEvents \cup RiskMarginEvents \cup SipInvestmentEvents)
            \cap MarketPriceEvents = {}
    /\ (TransactionEvents \cup RiskMarginEvents \cup SipInvestmentEvents
            \cup MarketPriceEvents) \cap RegulatoryEvents = {}
BY DEF TransactionEvents, RiskMarginEvents, SipInvestmentEvents,
       MarketPriceEvents, RegulatoryEvents

\* A table put together from one of each group has the groups' rows.
LEMMA TableOfGroups ==
    ASSUME NEW a, NEW b, NEW c, NEW d, NEW e,
           DOMAIN a = TransactionEvents, DOMAIN b = RiskMarginEvents,
           DOMAIN c = SipInvestmentEvents, DOMAIN d = MarketPriceEvents,
           DOMAIN e = RegulatoryEvents
    PROVE  /\ DOMAIN (a ++ b ++ c ++ d ++ e) = EventTypes
           /\ \A t \in TransactionEvents : (a ++ b ++ c ++ d ++ e)[t] = a[t]
           /\ \A t \in RiskMarginEvents : (a ++ b ++ c ++ d ++ e)[t] = b[t]
           /\ \A t \in SipInvestmentEvents : (a ++ b ++ c ++ d ++ e)[t] = c[t]
           /\ \A t \in MarketPriceEvents : (a ++ b ++ c ++ d ++ e)[t] = d[t]
           /\ \A t \in RegulatoryEvents : (a ++ b ++ c ++ d ++ e)[t] = e[t]
  <1>1. DOMAIN (a ++ b ++ c ++ d ++ e) = EventTypes
      BY EventTypesAre DEF ++
  <1>2. \A t \in TransactionEvents : (a ++ b ++ c ++ d ++ e)[t] = a[t]
      BY DEF ++
  <1>3. \A t \in RiskMarginEvents : (a ++ b ++ c ++ d ++ e)[t] = b[t]
      BY GroupsApart DEF ++
  <1>4. \A t \in SipInvestmentEvents : (a ++ b ++ c ++ d ++ e)[t] = c[t]
      BY GroupsApart DEF ++
  <1>5. \A t \in MarketPriceEvents : (a ++ b ++ c ++ d ++ e)[t] = d[t]
      BY GroupsApart DEF ++
  <1>6. \A t \in RegulatoryEvents : (a ++ b ++ c ++ d ++ e)[t] = e[t]
      BY GroupsApart DEF ++
  <1> QED
      BY <1>1, <1>2, <1>3, <1>4, <1>5, <1>6

\* The schemas are of the same events as the types.
LEMMA SchemasAre ==
    /\ DOMAIN PayloadSchemas = EventTypes
    /\ \A t \in TransactionEvents : PayloadSchemas[t] = TransactionSchemas[t]
    /\ \A t \in RiskMarginEvents : PayloadSchemas[t] = RiskMarginSchemas[t]
    /\ \A t \in SipInvestmentEvents : PayloadSchemas[t] = SipInvestmentSchemas[t]
    /\ \A t \in MarketPriceEvents : PayloadSchemas[t] = MarketPriceSchemas[t]
    /\ \A t \in RegulatoryEvents : PayloadSchemas[t] = RegulatorySchemas[t]
  <1>1. /\ DOMAIN TransactionSchemas = TransactionEvents
        /\ DOMAIN RiskMarginSchemas = RiskMarginEvents
        /\ DOMAIN SipInvestmentSchemas = SipInvestmentEvents
        /\ DOMAIN MarketPriceSchemas = MarketPriceEvents
        /\ DOMAIN RegulatorySchemas = RegulatoryEvents
      BY DEF TransactionSchemas, RiskMarginSchemas, SipInvestmentSchemas,
             MarketPriceSchemas, RegulatorySchemas
  <1> QED
      BY <1>1, TableOfGroups DEF PayloadSchemas

\* The checks that let no empty and no missing value pass.
FirmChecks ==
    {"text", "number", "nonnegative", "positive", "percent", "someTexts",
     "anyTexts", "figures", "oneOf"}

LEMMA FirmChecksAreFirm ==
    \A check \in FirmChecks, value \in {"empty", "absent", "null"} :
        value \notin AdmittedValues[check]
BY DEF FirmChecks, AdmittedValues

\* Whatever the copy of an event names its schema checks, and but for a date
\* checks firmly.
CopyIsChecked(t) ==
    \A f \in Copy[t] :
        /\ f /= "userName" /\ f \in DOMAIN PayloadSchemas[t]
        /\ PayloadSchemas[t][f] \in FirmChecks \/ (PayloadSchemas[t][f] = "anyText" /\ f \in Dates)

LEMMA CopyChecked == \A t \in EventTypes : CopyIsChecked(t)
  <1>1. ASSUME NEW t \in TransactionEvents PROVE CopyIsChecked(t)
    <2>1. PayloadSchemas[t] = TransactionSchemas[t] /\ t \in EventTypes
        BY SchemasAre, EventTypesAre
    <2> QED
        BY <2>1, EventTypesAre DEF TransactionEvents, TransactionSchemas, Copy, CopyIsChecked, FirmChecks, Dates
  <1>2. ASSUME NEW t \in RiskMarginEvents PROVE CopyIsChecked(t)
    <2>1. PayloadSchemas[t] = RiskMarginSchemas[t] /\ t \in EventTypes
        BY SchemasAre, EventTypesAre
    <2> QED
        BY <2>1 DEF RiskMarginEvents, RiskMarginSchemas, Copy, CopyIsChecked, FirmChecks, Dates
  <1>3. ASSUME NEW t \in SipInvestmentEvents PROVE CopyIsChecked(t)
    <2>1. PayloadSchemas[t] = SipInvestmentSchemas[t] /\ t \in EventTypes
        BY SchemasAre, EventTypesAre
    <2> QED
        BY <2>1 DEF SipInvestmentEvents, SipInvestmentSchemas, Copy, CopyIsChecked, FirmChecks, Dates
  <1>4. ASSUME NEW t \in MarketPriceEvents PROVE CopyIsChecked(t)
    <2>1. PayloadSchemas[t] = MarketPriceSchemas[t] /\ t \in EventTypes
        BY SchemasAre, EventTypesAre
    <2> QED
        BY <2>1 DEF MarketPriceEvents, MarketPriceSchemas, Copy, CopyIsChecked, FirmChecks, Dates
  <1>5. ASSUME NEW t \in RegulatoryEvents PROVE CopyIsChecked(t)
    <2>1. PayloadSchemas[t] = RegulatorySchemas[t] /\ t \in EventTypes
        BY SchemasAre, EventTypesAre
    <2> QED
        BY <2>1 DEF RegulatoryEvents, RegulatorySchemas, Copy, CopyIsChecked, FirmChecks, Dates
  <1> QED
      BY <1>1, <1>2, <1>3, <1>4, <1>5, EventTypesAre

\* No event with mandatory channels is promotional.
LEMMA PromotionalIsOptional ==
    \A t \in PromotionalEvents : ChannelPolicy[t].regulatoryChannels = <<>>
  <1>1. \A t \in PromotionalEvents : t \in EventTypes
      BY EventTypesAre DEF PromotionalEvents, SipInvestmentEvents, MarketPriceEvents
  <1> QED
      BY <1>1 DEF PromotionalEvents, ChannelPolicy, Unregulated

-----------------------------------------------------------------------------
(* Production, encoding and consumption.                                   *)

LEMMA TypesAre ==
    /\ \A t \in TransactionEvents : PayloadTypes[t] = TransactionTypes[t]
    /\ \A t \in RiskMarginEvents : PayloadTypes[t] = RiskMarginTypes[t]
    /\ \A t \in SipInvestmentEvents : PayloadTypes[t] = SipInvestmentTypes[t]
    /\ \A t \in MarketPriceEvents : PayloadTypes[t] = MarketPriceTypes[t]
    /\ \A t \in RegulatoryEvents : PayloadTypes[t] = RegulatoryTypes[t]
  <1>1. /\ DOMAIN TransactionTypes = TransactionEvents
        /\ DOMAIN RiskMarginTypes = RiskMarginEvents
        /\ DOMAIN SipInvestmentTypes = SipInvestmentEvents
        /\ DOMAIN MarketPriceTypes = MarketPriceEvents
        /\ DOMAIN RegulatoryTypes = RegulatoryEvents
      BY DEF TransactionTypes, RiskMarginTypes, SipInvestmentTypes,
             MarketPriceTypes, RegulatoryTypes
  <1> QED
      BY <1>1, TableOfGroups DEF PayloadTypes

LEMMA SamplesAre ==
    /\ \A t \in TransactionEvents : Samples[t] = TransactionSamples[t]
    /\ \A t \in RiskMarginEvents : Samples[t] = RiskMarginSamples[t]
    /\ \A t \in SipInvestmentEvents : Samples[t] = SipInvestmentSamples[t]
    /\ \A t \in MarketPriceEvents : Samples[t] = MarketPriceSamples[t]
    /\ \A t \in RegulatoryEvents : Samples[t] = RegulatorySamples[t]
  <1>1. /\ DOMAIN TransactionSamples = TransactionEvents
        /\ DOMAIN RiskMarginSamples = RiskMarginEvents
        /\ DOMAIN SipInvestmentSamples = SipInvestmentEvents
        /\ DOMAIN MarketPriceSamples = MarketPriceEvents
        /\ DOMAIN RegulatorySamples = RegulatoryEvents
      BY DEF TransactionSamples, RiskMarginSamples, SipInvestmentSamples,
             MarketPriceSamples, RegulatorySamples
  <1> QED
      BY <1>1, TableOfGroups DEF Samples

\* A payload field of the name of a base field is a text.
BaseNamesAreTexts(t) ==
    \A f \in DOMAIN PayloadTypes[t] \cap DOMAIN BaseTypes :
        f = "source" /\ PayloadTypes[t][f] = "string"

LEMMA BaseNames == \A t \in EventTypes : BaseNamesAreTexts(t)
  <1>1. ASSUME NEW t \in TransactionEvents PROVE BaseNamesAreTexts(t)
    <2>1. PayloadTypes[t] = TransactionTypes[t]
        BY TypesAre
    <2> QED
        BY <2>1 DEF TransactionEvents, TransactionTypes, BaseNamesAreTexts, BaseTypes
  <1>2. ASSUME NEW t \in RiskMarginEvents PROVE BaseNamesAreTexts(t)
    <2>1. PayloadTypes[t] = RiskMarginTypes[t]
        BY TypesAre
    <2> QED
        BY <2>1 DEF RiskMarginEvents, RiskMarginTypes, BaseNamesAreTexts, BaseTypes
  <1>3. ASSUME NEW t \in SipInvestmentEvents PROVE BaseNamesAreTexts(t)
    <2>1. PayloadTypes[t] = SipInvestmentTypes[t]
        BY TypesAre
    <2> QED
        BY <2>1 DEF SipInvestmentEvents, SipInvestmentTypes, BaseNamesAreTexts, BaseTypes
  <1>4. ASSUME NEW t \in MarketPriceEvents PROVE BaseNamesAreTexts(t)
    <2>1. PayloadTypes[t] = MarketPriceTypes[t]
        BY TypesAre
    <2> QED
        BY <2>1 DEF MarketPriceEvents, MarketPriceTypes, BaseNamesAreTexts, BaseTypes
  <1>5. ASSUME NEW t \in RegulatoryEvents PROVE BaseNamesAreTexts(t)
    <2>1. PayloadTypes[t] = RegulatoryTypes[t]
        BY TypesAre
    <2> QED
        BY <2>1 DEF RegulatoryEvents, RegulatoryTypes, BaseNamesAreTexts, BaseTypes
  <1> QED
      BY <1>1, <1>2, <1>3, <1>4, <1>5, EventTypesAre

\* What the factory fills in: every field a schema lists, with a value its
\* check lets pass.
SampleIsAdmitted(t) ==
    /\ Samples[t].priority \in Priorities
    /\ "metadata" \notin DOMAIN Samples[t].payload
    /\ \A f \in DOMAIN PayloadSchemas[t] :
            /\ f \in DOMAIN Samples[t].payload
            /\ Samples[t].payload[f] \in AdmittedValues[PayloadSchemas[t][f]]
    /\ \A f \in DOMAIN Samples[t].payload :
            Samples[t].payload[f] = IF f = "pnlImpact" THEN "minus" ELSE "full"

LEMMA SampleParts ==
    ASSUME NEW priority, NEW fields
    PROVE  /\ Sample(priority, fields).priority = priority
           /\ DOMAIN Sample(priority, fields).payload = fields
           /\ \A f \in fields : Sample(priority, fields).payload[f]
                                    = IF f = "pnlImpact" THEN "minus" ELSE "full"
BY DEF Sample

LEMMA FullIsAdmitted ==
    /\ \A check \in FirmChecks \cup {"anyText"} : "full" \in AdmittedValues[check]
    /\ "minus" \in AdmittedValues["number"]
BY DEF FirmChecks, AdmittedValues

\* The rows of a schema that a sample of these fields has to meet.
Meets(schema, fields) ==
    \A f \in DOMAIN schema :
        /\ f \in fields
        /\ schema[f] \in FirmChecks \cup {"anyText"}
        /\ f = "pnlImpact" => schema[f] = "number"

LEMMA MeetingIsAdmitted ==
    ASSUME NEW t, NEW priority \in Priorities, NEW fields,
           Samples[t] = Sample(priority, fields), Meets(PayloadSchemas[t], fields),
           "metadata" \notin DOMAIN Samples[t].payload
    PROVE  SampleIsAdmitted(t)
BY SampleParts, FullIsAdmitted DEF SampleIsAdmitted, Meets

LEMMA SamplesAdmitted == \A t \in EventTypes : SampleIsAdmitted(t)
  <1>1. ASSUME NEW t \in TransactionEvents PROVE SampleIsAdmitted(t)
    <2>1. PayloadSchemas[t] = TransactionSchemas[t] /\ Samples[t] = TransactionSamples[t]
        BY SchemasAre, SamplesAre
    <2>2. \E priority \in Priorities : \E fields :
              Samples[t] = Sample(priority, fields) /\ Meets(PayloadSchemas[t], fields)
        BY <2>1 DEF TransactionEvents, TransactionSchemas, TransactionSamples, Meets, FirmChecks, Priorities
    <2>3. "metadata" \notin DOMAIN Samples[t].payload
        BY <2>1, SampleParts DEF TransactionEvents, TransactionSamples
    <2> QED
        BY <2>2, <2>3, MeetingIsAdmitted
  <1>2. ASSUME NEW t \in RiskMarginEvents PROVE SampleIsAdmitted(t)
    <2>1. PayloadSchemas[t] = RiskMarginSchemas[t] /\ Samples[t] = RiskMarginSamples[t]
        BY SchemasAre, SamplesAre
    <2>2. \E priority \in Priorities : \E fields :
              Samples[t] = Sample(priority, fields) /\ Meets(PayloadSchemas[t], fields)
        BY <2>1 DEF RiskMarginEvents, RiskMarginSchemas, RiskMarginSamples, Meets, FirmChecks, Priorities
    <2>3. "metadata" \notin DOMAIN Samples[t].payload
        BY <2>1, SampleParts DEF RiskMarginEvents, RiskMarginSamples
    <2> QED
        BY <2>2, <2>3, MeetingIsAdmitted
  <1>3. ASSUME NEW t \in SipInvestmentEvents PROVE SampleIsAdmitted(t)
    <2>1. PayloadSchemas[t] = SipInvestmentSchemas[t] /\ Samples[t] = SipInvestmentSamples[t]
        BY SchemasAre, SamplesAre
    <2>2. \E priority \in Priorities : \E fields :
              Samples[t] = Sample(priority, fields) /\ Meets(PayloadSchemas[t], fields)
        BY <2>1 DEF SipInvestmentEvents, SipInvestmentSchemas, SipInvestmentSamples, Meets, FirmChecks, Priorities
    <2>3. "metadata" \notin DOMAIN Samples[t].payload
        BY <2>1, SampleParts DEF SipInvestmentEvents, SipInvestmentSamples
    <2> QED
        BY <2>2, <2>3, MeetingIsAdmitted
  <1>4. ASSUME NEW t \in MarketPriceEvents PROVE SampleIsAdmitted(t)
    <2>1. PayloadSchemas[t] = MarketPriceSchemas[t] /\ Samples[t] = MarketPriceSamples[t]
        BY SchemasAre, SamplesAre
    <2>2. \E priority \in Priorities : \E fields :
              Samples[t] = Sample(priority, fields) /\ Meets(PayloadSchemas[t], fields)
        BY <2>1 DEF MarketPriceEvents, MarketPriceSchemas, MarketPriceSamples, Meets, FirmChecks, Priorities
    <2>3. "metadata" \notin DOMAIN Samples[t].payload
        BY <2>1, SampleParts DEF MarketPriceEvents, MarketPriceSamples
    <2> QED
        BY <2>2, <2>3, MeetingIsAdmitted
  <1>5. ASSUME NEW t \in RegulatoryEvents PROVE SampleIsAdmitted(t)
    <2>1. PayloadSchemas[t] = RegulatorySchemas[t] /\ Samples[t] = RegulatorySamples[t]
        BY SchemasAre, SamplesAre
    <2>2. \E priority \in Priorities : \E fields :
              Samples[t] = Sample(priority, fields) /\ Meets(PayloadSchemas[t], fields)
        BY <2>1 DEF RegulatoryEvents, RegulatorySchemas, RegulatorySamples, Meets, FirmChecks, Priorities
    <2>3. "metadata" \notin DOMAIN Samples[t].payload
        BY <2>1, SampleParts DEF RegulatoryEvents, RegulatorySamples
    <2> QED
        BY <2>2, <2>3, MeetingIsAdmitted
  <1> QED
      BY <1>1, <1>2, <1>3, <1>4, <1>5, EventTypesAre

-----------------------------------------------------------------------------
\* The fields and the values a producer can give an event that the encoding
\* tells apart.
Carriable(e) ==
    /\ e.type \in EventTypes
    /\ DOMAIN BaseTypes \subseteq DOMAIN e.fields
    /\ \A f \in DOMAIN BaseTypes \ {"idempotencyKey", "metadata"} :
            e.fields[f] \in {"full", "empty"}
    /\ e.fields["idempotencyKey"] \in {"full", "empty", "absent"}
    /\ e.fields["metadata"] \in {"full", "strings", "absent"}

\* The event as its factory makes it, field by field.
LEMMA TestEventFields ==
    ASSUME NEW t \in EventTypes
    PROVE  /\ TestEvent(t).type = t /\ TestEvent(t).category = Category(t)
           /\ TestEvent(t).priority \in Priorities
           /\ DOMAIN TestEvent(t).fields = DOMAIN Samples[t].payload \cup DOMAIN BaseTypes
           /\ \A f \in DOMAIN Samples[t].payload :
                    TestEvent(t).fields[f] = IF f = "pnlImpact" THEN "minus" ELSE "full"
           /\ \A f \in DOMAIN BaseTypes \ {"metadata"} : TestEvent(t).fields[f] = "full"
           /\ TestEvent(t).fields["metadata"] = "absent"
  <1>1. SampleIsAdmitted(t)
      BY SamplesAdmitted
  <1>2. "pnlImpact" \notin DOMAIN BaseTypes
      BY DEF BaseTypes
  <1>3. TestEvent(t).fields = Samples[t].payload ++ BaseSample ++ [metadata |-> "absent"]
      BY DEF TestEvent
  <1>4. "metadata" \in DOMAIN BaseTypes
      BY DEF BaseTypes
  <1>5. DOMAIN BaseSample = DOMAIN BaseTypes \ {"metadata"}
        /\ \A f \in DOMAIN BaseTypes \ {"metadata"} : BaseSample[f] = "full"
      BY DEF BaseSample
  <1>6. DOMAIN TestEvent(t).fields = DOMAIN Samples[t].payload \cup DOMAIN BaseTypes
      BY <1>3, <1>4, <1>5 DEF ++
  <1>7. \A f \in DOMAIN Samples[t].payload :
            TestEvent(t).fields[f] = IF f = "pnlImpact" THEN "minus" ELSE "full"
      BY <1>1, <1>3 DEF ++, SampleIsAdmitted
  <1>8. \A f \in DOMAIN BaseTypes \ {"metadata"} : TestEvent(t).fields[f] = "full"
    <2> SUFFICES ASSUME NEW f \in DOMAIN BaseTypes \ {"metadata"}
                 PROVE  TestEvent(t).fields[f] = "full"
        OBVIOUS
    <2>1. CASE f \in DOMAIN Samples[t].payload
        BY <1>2, <1>7, <2>1
    <2>2. CASE f \notin DOMAIN Samples[t].payload
        BY <1>3, <1>5, <2>2 DEF ++
    <2> QED
        BY <2>1, <2>2
  <1>9. TestEvent(t).fields["metadata"] = "absent"
      BY <1>1, <1>3, <1>5 DEF ++, SampleIsAdmitted
  <1> QED
      BY <1>1, <1>6, <1>7, <1>8, <1>9 DEF TestEvent, SampleIsAdmitted

LEMMA TestEventCarriable == \A t \in EventTypes : Carriable(TestEvent(t))
  <1> SUFFICES ASSUME NEW t \in EventTypes PROVE Carriable(TestEvent(t))
      OBVIOUS
  <1>1. "idempotencyKey" \in DOMAIN BaseTypes \ {"metadata"}
      BY DEF BaseTypes
  <1> QED
      BY <1>1, TestEventFields DEF Carriable

\* A field given another value the types allow.
LEMMA ProducedCarriable ==
    ASSUME NEW t \in EventTypes, NEW field \in DOMAIN DeclaredFields(t),
           NEW value \in DeclaredValues[DeclaredFields(t)[field]], NEW priority
    PROVE  Carriable([TestEvent(t) EXCEPT !.fields[field] = value, !.priority = priority])
  <1>1. Carriable(TestEvent(t))
      BY TestEventCarriable
  <1>2. PICK e : e = [TestEvent(t) EXCEPT !.fields[field] = value, !.priority = priority]
      OBVIOUS
  <1>3. /\ e.type = TestEvent(t).type
        /\ e.fields = [TestEvent(t).fields EXCEPT ![field] = value]
      BY <1>2 DEF TestEvent
  <1>4. ASSUME field \in DOMAIN BaseTypes
        PROVE  DeclaredFields(t)[field] = BaseTypes[field]
    <2>1. BaseNamesAreTexts(t)
        BY BaseNames
    <2>2. CASE field \in DOMAIN PayloadTypes[t]
      <3>1. field = "source" /\ PayloadTypes[t][field] = "string"
          BY <1>4, <2>1, <2>2 DEF BaseNamesAreTexts
      <3> QED
          BY <2>2, <3>1 DEF DeclaredFields, ++, BaseTypes
    <2>3. CASE field \notin DOMAIN PayloadTypes[t]
        BY <1>4, <2>3 DEF DeclaredFields, ++
    <2> QED
        BY <2>2, <2>3
  <1>5. \A f \in DOMAIN BaseTypes \ {"idempotencyKey", "metadata"} :
            DeclaredValues[BaseTypes[f]] = {"full", "empty"}
      BY DEF BaseTypes, DeclaredValues
  <1>6. /\ DeclaredValues[BaseTypes["idempotencyKey"]] = {"full", "empty", "absent"}
        /\ DeclaredValues[BaseTypes["metadata"]] = {"full", "strings", "absent"}
      BY DEF BaseTypes, DeclaredValues
  <1>7. DOMAIN e.fields = DOMAIN TestEvent(t).fields
      BY <1>3
  <1>8. \A f \in DOMAIN BaseTypes \ {"idempotencyKey", "metadata"} :
            e.fields[f] \in {"full", "empty"}
      BY <1>1, <1>3, <1>4, <1>5 DEF Carriable
  <1>9. /\ e.fields["idempotencyKey"] \in {"full", "empty", "absent"}
        /\ e.fields["metadata"] \in {"full", "strings", "absent"}
    <2>1. "idempotencyKey" \in DOMAIN BaseTypes /\ "metadata" \in DOMAIN BaseTypes
        BY DEF BaseTypes
    <2> QED
        BY <1>1, <1>3, <1>4, <1>6, <2>1 DEF Carriable
  <1> QED
      BY <1>1, <1>2, <1>3, <1>7, <1>8, <1>9 DEF Carriable

\* What comes out of the encoding.
LEMMA Carried ==
    ASSUME NEW e, Carriable(e)
    PROVE  LET d == DeserializeEvent(SerializeEvent(e)) IN
           /\ d.type = e.type /\ d.category = e.category /\ d.priority = e.priority
           /\ d.fields = [f \in DOMAIN e.fields |-> AsCarried(f, e.fields[f])]
  <1>1. PICK w : w = SerializeEvent(e)
      OBVIOUS
  <1>2. PICK d : d = DeserializeEvent(w)
      OBVIOUS
  <1>3. d.type = e.type /\ d.category = e.category /\ d.priority = e.priority
      BY <1>1, <1>2, AvroNames DEF SerializeEvent, DeserializeEvent, Carriable
  <1>4. /\ DOMAIN w.header = DOMAIN BaseTypes \ {"metadata"}
        /\ DOMAIN w.payload = DOMAIN e.fields \ DOMAIN BaseTypes
        /\ \A f \in DOMAIN BaseTypes \ {"metadata"} :
                w.header[f] = IF e.fields[f] = "absent" THEN "null" ELSE e.fields[f]
        /\ \A f \in DOMAIN e.fields \ DOMAIN BaseTypes : w.payload[f] = Json(e.fields[f])
        /\ w.metadata = Strings(e.fields["metadata"])
      BY <1>1 DEF SerializeEvent, Header
  <1>5. PICK key : key = [idempotencyKey |-> IF w.header["idempotencyKey"] = "full"
                                              THEN "full" ELSE "absent"]
      OBVIOUS
  <1>6. d.fields = w.payload ++ key ++ w.header ++ [metadata |-> w.metadata]
      BY <1>2, <1>5 DEF DeserializeEvent
  <1>7. "idempotencyKey" \in DOMAIN BaseTypes /\ "metadata" \in DOMAIN BaseTypes
      BY DEF BaseTypes
  <1>8. DOMAIN d.fields = DOMAIN e.fields
      BY <1>4, <1>5, <1>6, <1>7 DEF ++, Carriable
  <1>9. ASSUME NEW f \in DOMAIN e.fields PROVE d.fields[f] = AsCarried(f, e.fields[f])
    <2>1. CASE f \notin DOMAIN BaseTypes
      <3>1. d.fields[f] = Json(e.fields[f])
          BY <1>4, <1>6, <2>1 DEF ++
      <3> QED
          BY <1>7, <2>1, <3>1 DEF AsCarried, Json
    <2>2. CASE f = "metadata"
      <3>1. d.fields[f] = Strings(e.fields[f])
          BY <1>4, <1>5, <1>6, <1>7, <2>2 DEF ++
      <3> QED
          BY <2>2, <3>1 DEF AsCarried, Strings, Carriable
    <2>3. CASE f = "idempotencyKey"
      <3>1. d.fields[f] = IF w.header[f] = "full" THEN "full" ELSE "absent"
          BY <1>4, <1>5, <1>6, <1>7, <2>3 DEF ++
      <3>2. w.header[f] = IF e.fields[f] = "absent" THEN "null" ELSE e.fields[f]
          BY <1>4, <1>7, <2>3
      <3> QED
          BY <2>3, <3>1, <3>2 DEF AsCarried, Carriable
    <2>4. CASE f \in DOMAIN BaseTypes \ {"idempotencyKey", "metadata"}
      <3>1. e.fields[f] \in {"full", "empty"}
          BY <2>4 DEF Carriable
      <3>2. d.fields[f] = w.header[f]
          BY <1>4, <1>5, <1>6, <2>4 DEF ++
      <3>3. w.header[f] = e.fields[f]
          BY <1>4, <2>4, <3>1
      <3> QED
          BY <2>4, <3>1, <3>2, <3>3 DEF AsCarried
    <2> QED
        BY <2>1, <2>2, <2>3, <2>4
  <1>10. d.fields = [f \in DOMAIN d.fields |-> d.fields[f]]
      BY <1>6 DEF ++
  <1>11. d.fields = [f \in DOMAIN e.fields |-> AsCarried(f, e.fields[f])]
      BY <1>8, <1>9, <1>10
  <1> QED
      BY <1>1, <1>2, <1>3, <1>11

\* What the factory makes passes the schema, before and after the encoding.
LEMMA TestEventAdmitted ==
    ASSUME NEW t \in EventTypes, NEW e,
           e.type = t, e.category = TestEvent(t).category,
           e.priority = TestEvent(t).priority,
           DOMAIN e.fields = DOMAIN TestEvent(t).fields,
           \A f \in DOMAIN e.fields : e.fields[f] = TestEvent(t).fields[f]
    PROVE  Admits(e)
  <1>1. SampleIsAdmitted(t)
      BY SamplesAdmitted
  <1>2. e.type \in DOMAIN PayloadSchemas /\ e.category = Category(e.type)
        /\ e.priority \in Priorities
      BY SchemasAre, TestEventFields
  <1>3. PICK schema : schema = PayloadSchemas[t] ++ BaseSchema
      OBVIOUS
  <1>4. ASSUME NEW f \in DOMAIN schema
        PROVE  /\ f \in DOMAIN e.fields
               /\ e.fields[f] \in AdmittedValues[schema[f]]
    <2>1. CASE f \in DOMAIN PayloadSchemas[t]
      <3>1. schema[f] = PayloadSchemas[t][f]
          BY <1>3, <2>1 DEF ++
      <3>2. /\ f \in DOMAIN Samples[t].payload
            /\ Samples[t].payload[f] \in AdmittedValues[PayloadSchemas[t][f]]
            /\ TestEvent(t).fields[f] = Samples[t].payload[f]
          BY <1>1, <2>1, TestEventFields DEF SampleIsAdmitted
      <3> QED
          BY <3>1, <3>2, TestEventFields
    <2>2. CASE f \notin DOMAIN PayloadSchemas[t]
      <3>1. f \in DOMAIN BaseSchema /\ schema[f] = BaseSchema[f]
          BY <1>3, <2>2 DEF ++
      <3>2. /\ f \in DOMAIN BaseTypes
            /\ "full" \in AdmittedValues[BaseSchema[f]]
            /\ f = "metadata" => "absent" \in AdmittedValues[BaseSchema[f]]
          BY <3>1 DEF BaseSchema, BaseTypes, AdmittedValues
      <3> QED
          BY <3>1, <3>2, TestEventFields
    <2> QED
        BY <2>1, <2>2
  <1>5. \A f \in DOMAIN schema :
            (IF f \in DOMAIN e.fields THEN e.fields[f] ELSE "absent") \in AdmittedValues[schema[f]]
      BY <1>4
  <1> QED
      BY <1>2, <1>3, <1>5 DEF Admits

LEMMA TestEventIsAdmitted ==
    ASSUME NEW t \in EventTypes
    PROVE  /\ Admits(TestEvent(t))
           /\ Admits(DeserializeEvent(SerializeEvent(TestEvent(t))))
  <1>1. Admits(TestEvent(t))
      BY TestEventAdmitted, TestEventFields
  <1>2. PICK d : d = DeserializeEvent(SerializeEvent(TestEvent(t)))
      OBVIOUS
  <1>3. /\ d.type = TestEvent(t).type /\ d.category = TestEvent(t).category
        /\ d.priority = TestEvent(t).priority
        /\ d.fields = [f \in DOMAIN TestEvent(t).fields |-> AsCarried(f, TestEvent(t).fields[f])]
      BY <1>2, Carried, TestEventCarriable
  <1>4. ASSUME NEW f \in DOMAIN TestEvent(t).fields
        PROVE  AsCarried(f, TestEvent(t).fields[f]) = TestEvent(t).fields[f]
    <2>1. CASE f \in DOMAIN BaseTypes \ {"metadata"}
        BY <2>1, TestEventFields DEF AsCarried
    <2>2. CASE f = "metadata"
        BY <2>2, TestEventFields DEF AsCarried
    <2>3. CASE f \notin DOMAIN BaseTypes
      <3>1. "idempotencyKey" \in DOMAIN BaseTypes /\ "metadata" \in DOMAIN BaseTypes
          BY DEF BaseTypes
      <3> QED
          BY <2>3, <3>1, TestEventFields DEF AsCarried
    <2> QED
        BY <2>1, <2>2, <2>3
  <1> QED
      BY <1>1, <1>2, <1>3, <1>4, TestEventAdmitted, TestEventFields

-----------------------------------------------------------------------------
\* What the event and the message are between the producer and the consumer.
CarriageInv ==
    /\ ConsumedAsProduced
    /\ stage /= "invalid"
    /\ stage \in {"new", "produced", "published"} => event = Nothing
    /\ stage \in {"produced", "published"} => Carriable(produced)
    /\ stage = "published" =>
            message = [topic |-> Topic(produced.priority), value |-> SerializeEvent(produced)]

LEMMA CarriageInit == ContentInit => CarriageInv
BY DEF ContentInit, CarriageInv, ConsumedAsProduced

\* The services after admission leave the event and the message as they are.
LEMMA ServicesKeepCarriage ==
    ASSUME CarriageInv, stage \in {"admitted", "auditing"},
           stage' \in {"classified", "auditing", "decided", "rendered"},
           UNCHANGED <<produced, message, event>>
    PROVE  CarriageInv'
BY DEF CarriageInv, ConsumedAsProduced

LEMMA ConsumeKeepsCarriage ==
    ASSUME CarriageInv, Consume
    PROVE  CarriageInv'
  <1>1. /\ Carriable(produced) /\ stage = "published"
        /\ message = [topic |-> Topic(produced.priority), value |-> SerializeEvent(produced)]
        /\ event' = DeserializeEvent(message.value)
        /\ produced' = produced /\ message' = message
        /\ stage' = IF Admits(event') THEN "admitted" ELSE "refused"
      BY DEF CarriageInv, Consume
  <1>2. event' = DeserializeEvent(SerializeEvent(produced))
      BY <1>1
  <1>3. /\ event'.type = produced.type /\ event'.category = produced.category
        /\ event'.priority = produced.priority
        /\ event'.fields = [f \in DOMAIN produced.fields |-> AsCarried(f, produced.fields[f])]
      BY <1>1, <1>2, Carried
  <1>4. (message.topic = "notification-critical") <=> (event'.priority = "CRITICAL")
      BY <1>1, <1>3 DEF Topic
  <1>5. stage' = "refused" => produced /= TestEvent(produced.type)
    <2> SUFFICES ASSUME produced = TestEvent(produced.type) PROVE stage' = "admitted"
        BY <1>1
    <2>1. Admits(event')
        BY <1>1, <1>2, TestEventIsAdmitted DEF Carriable
    <2> QED
        BY <1>1, <2>1
  <1> QED
      BY <1>1, <1>3, <1>4, <1>5 DEF CarriageInv, ConsumedAsProduced

LEMMA CarriageStep == CarriageInv /\ [ContentNext]_contentVars => CarriageInv'
  <1> SUFFICES ASSUME CarriageInv, [ContentNext]_contentVars
               PROVE  CarriageInv'
      OBVIOUS
  <1>1. ASSUME NEW t \in EventTypes, CreateTestEvent(t) PROVE CarriageInv'
    <2>1. stage' = "produced" /\ Carriable(produced')
        BY <1>1, TestEventIsAdmitted, TestEventCarriable DEF CreateTestEvent
    <2> QED
        BY <1>1, <2>1 DEF CarriageInv, ConsumedAsProduced, CreateTestEvent
  <1>2. ASSUME NEW t \in EventTypes, NEW field \in DOMAIN DeclaredFields(t),
               NEW value \in DeclaredValues[DeclaredFields(t)[field]], NEW priority,
               Produce(t, field, value, priority)
        PROVE  CarriageInv'
    <2>1. stage' = "produced" /\ Carriable(produced')
        BY <1>2, ProducedCarriable DEF Produce
    <2> QED
        BY <1>2, <2>1 DEF CarriageInv, ConsumedAsProduced, Produce
  <1>3. CASE PublishEvent
      BY <1>3 DEF CarriageInv, ConsumedAsProduced, PublishEvent
  <1>4. CASE Consume
      BY <1>4, ConsumeKeepsCarriage
  <1>5. ASSUME NEW promotional \in BOOLEAN, ClassifyEvent(promotional) PROVE CarriageInv'
      BY <1>5, ServicesKeepCarriage DEF ClassifyEvent
  <1>6. ASSUME NEW q \in QuietRequests, AskQuietHours(q) PROVE CarriageInv'
      BY <1>6, ServicesKeepCarriage DEF AskQuietHours
  <1>7. CASE AuditBypass
      BY <1>7, ServicesKeepCarriage DEF AuditBypass
  <1>8. CASE AuditThrows
      BY <1>8, ServicesKeepCarriage DEF AuditThrows
  <1>9. ASSUME NEW r \in RenderRequests, Render(r) PROVE CarriageInv'
      BY <1>9, ServicesKeepCarriage DEF Render
  <1>10. CASE UNCHANGED contentVars
      BY <1>10 DEF CarriageInv, ConsumedAsProduced, contentVars
  <1>11. \A t \in EventTypes :
            /\ "eventId" \in DOMAIN DeclaredFields(t)
            /\ "full" \in DeclaredValues[DeclaredFields(t)["eventId"]]
    <2>1. "eventId" \in DOMAIN BaseTypes
        BY DEF BaseTypes
    <2>2. \A t \in EventTypes : "eventId" \notin DOMAIN PayloadTypes[t]
        BY <2>1, BaseNames DEF BaseNamesAreTexts
    <2> QED
        BY <2>1, <2>2 DEF DeclaredFields, ++, BaseTypes, DeclaredValues
  <1> QED
      BY <1>1, <1>2, <1>3, <1>4, <1>5, <1>6, <1>7, <1>8, <1>9, <1>10, <1>11 DEF ContentNext

\* An event reaches the consumer with the type, the category, the priority and
\* every field its producer gave it, but for what the encoding cannot carry,
\* on the topic of its priority; and no event of the factory is invalid or
\* refused.
THEOREM EventsArriveAsProduced == ContentSpec => []ConsumedAsProduced
  <1>1. CarriageInv => ConsumedAsProduced
      BY DEF CarriageInv
  <1> QED
      BY <1>1, CarriageInit, CarriageStep, PTL DEF ContentSpec

-----------------------------------------------------------------------------
\* What the services are asked about has been admitted.
AdmissionInv ==
    stage \in {"admitted", "auditing", "decided", "classified", "rendered"} => Admits(event)

LEMMA AdmissionInit == ContentInit => AdmissionInv
BY DEF ContentInit, AdmissionInv

LEMMA AdmissionStep == AdmissionInv /\ [ContentNext]_contentVars => AdmissionInv'
  <1> SUFFICES ASSUME AdmissionInv, [ContentNext]_contentVars
               PROVE  AdmissionInv'
      OBVIOUS
  <1>1. ASSUME NEW t \in EventTypes, CreateTestEvent(t) PROVE AdmissionInv'
      BY <1>1 DEF AdmissionInv, CreateTestEvent
  <1>2. ASSUME NEW t, NEW field, NEW value, NEW priority, Produce(t, field, value, priority)
        PROVE  AdmissionInv'
      BY <1>2 DEF AdmissionInv, Produce
  <1>3. CASE PublishEvent
      BY <1>3 DEF AdmissionInv, PublishEvent
  <1>4. CASE Consume
    <2>1. stage' = "admitted" => Admits(event')
        BY <1>4 DEF Consume
    <2>2. stage' \in {"admitted", "refused"}
        BY <1>4 DEF Consume
    <2> QED
        BY <2>1, <2>2 DEF AdmissionInv
  <1>5. ASSUME NEW promotional \in BOOLEAN, ClassifyEvent(promotional) PROVE AdmissionInv'
      BY <1>5 DEF AdmissionInv, ClassifyEvent
  <1>6. ASSUME NEW q \in QuietRequests, AskQuietHours(q) PROVE AdmissionInv'
      BY <1>6 DEF AdmissionInv, AskQuietHours
  <1>7. CASE AuditBypass
      BY <1>7 DEF AdmissionInv, AuditBypass
  <1>8. CASE AuditThrows
      BY <1>8 DEF AdmissionInv, AuditThrows
  <1>9. ASSUME NEW r \in RenderRequests, Render(r) PROVE AdmissionInv'
      BY <1>9 DEF AdmissionInv, Render
  <1>10. CASE UNCHANGED contentVars
      BY <1>10 DEF AdmissionInv, contentVars
  <1> QED
      BY <1>1, <1>2, <1>3, <1>4, <1>5, <1>6, <1>7, <1>8, <1>9, <1>10 DEF ContentNext

\* The steps besides the one a property of the end of the path is about.
LEMMA StageMoves ==
    ASSUME [ContentNext]_contentVars
    PROVE  /\ stage' = "classified" =>
                \/ \E promotional \in BOOLEAN : ClassifyEvent(promotional)
                \/ UNCHANGED contentVars
           /\ stage' = "rendered" =>
                \/ \E r \in RenderRequests : Render(r)
                \/ UNCHANGED contentVars
BY DEF ContentNext, CreateTestEvent, Produce, PublishEvent, Consume, ClassifyEvent,
       AskQuietHours, AuditBypass, AuditThrows, Render

-----------------------------------------------------------------------------
\* The answer of the classifier, kept until the end.
LEMMA ClassificationStep ==
    AdmissionInv /\ MandatoryIsTransactional /\ [ContentNext]_contentVars
        => MandatoryIsTransactional'
  <1> SUFFICES ASSUME AdmissionInv, MandatoryIsTransactional, [ContentNext]_contentVars,
                      stage' = "classified"
               PROVE  MandatoryIsTransactional'
      BY DEF MandatoryIsTransactional
  <1>1. ASSUME NEW promotional \in BOOLEAN, ClassifyEvent(promotional)
        PROVE  MandatoryIsTransactional'
    <2>1. /\ event' = event /\ asked'.containsPromotionalContent = promotional
          /\ answer' = Classify(event.type, promotional)
        BY <1>1 DEF ClassifyEvent
    <2>2. ASSUME ChannelPolicy[event.type].regulatoryChannels /= <<>>
          PROVE  event.type \notin PromotionalEvents
        BY <2>2, PromotionalIsOptional
    <2>3. ChannelPolicy[event.type].regulatoryChannels /= <<>> =>
                (answer' = "TRANSACTIONAL" <=> ~promotional)
        BY <2>1, <2>2 DEF Classify
    <2> QED
        BY <2>1, <2>3 DEF MandatoryIsTransactional
  <1>2. CASE UNCHANGED contentVars
      BY <1>2 DEF contentVars, MandatoryIsTransactional
  <1> QED
      BY <1>1, <1>2, StageMoves

\* An event whose type has mandatory channels, once admitted by the consumer, is
\* classified as transactional unless its copy is promotional, so that a
\* do-not-disturb entry cannot keep its SMS back (compliance/classification.ts,
\* enrichment/channel-policy.ts).
THEOREM MandatoryStaysTransactional == ContentSpec => []MandatoryIsTransactional
  <1>1. ContentInit => MandatoryIsTransactional
      BY DEF ContentInit, MandatoryIsTransactional
  <1>2. ContentSpec => []AdmissionInv
      BY AdmissionInit, AdmissionStep, PTL DEF ContentSpec
  <1> QED
      BY <1>1, <1>2, ClassificationStep, PTL DEF ContentSpec

-----------------------------------------------------------------------------
\* The rendering of an admitted event: a template in the language or in
\* English, unless there is neither.
LEMMA TemplateFound ==
    ASSUME NEW language, NEW stored
    PROVE  /\ FindTemplate(language, stored) = Nothing <=>
                ResolveTemplateLanguage(language) \notin stored /\ "en" \notin stored
           /\ FindTemplate(language, stored) /= Nothing =>
                FindTemplate(language, stored) =
                    IF language \in SupportedLanguages \cap stored THEN language ELSE "en"
  <1>1. ResolveTemplateLanguage(language) /= Nothing /\ "en" /= Nothing
      BY ContentAssumption DEF ResolveTemplateLanguage, SupportedLanguages
  <1> QED
      BY <1>1 DEF FindTemplate, ResolveTemplateLanguage

\* An SMS is no longer than one message, unless the links alone are.
LEMMA SmsFits ==
    ASSUME NEW l \in SmsLengths
    PROVE  /\ SmsLength(l) = Nothing => l.links > MaxSms
           /\ SmsLength(l) /= Nothing => SmsLength(l) <= MaxSms
  <1>1. l.words \in Nat /\ l.links \in Nat /\ MaxSms \in Nat /\ Nothing \notin Nat
      BY ContentAssumption
  <1>2. PICK words \in Nat : words = l.words
      BY <1>1
  <1>3. PICK links \in Nat : links = l.links
      BY <1>1
  <1>4. CASE words + links <= MaxSms
    <2>1. SmsLength(l) = words + links
        BY <1>2, <1>3, <1>4 DEF SmsLength
    <2>2. words + links \in Nat
        OBVIOUS
    <2> QED
        BY <1>1, <1>4, <2>1, <2>2
  <1>5. CASE ~(words + links <= MaxSms) /\ links = 0
    <2>1. SmsLength(l) = MaxSms
        BY <1>2, <1>3, <1>5 DEF SmsLength
    <2> QED
        BY <1>1, <2>1
  <1>6. CASE ~(words + links <= MaxSms) /\ links /= 0 /\ links > MaxSms
    <2>1. SmsLength(l) = Nothing
        BY <1>2, <1>3, <1>6 DEF SmsLength
    <2> QED
        BY <1>3, <1>6, <2>1
  <1>7. CASE /\ ~(words + links <= MaxSms) /\ links /= 0 /\ ~(links > MaxSms)
             /\ words = 0 \/ MaxSms - links - 3 <= 0
    <2>1. SmsLength(l) = links
        BY <1>2, <1>3, <1>7 DEF SmsLength
    <2>2. links <= MaxSms
        BY <1>1, <1>7
    <2> QED
        BY <1>1, <2>1, <2>2
  <1>8. CASE /\ ~(words + links <= MaxSms) /\ links /= 0 /\ ~(links > MaxSms)
             /\ ~(words = 0 \/ MaxSms - links - 3 <= 0)
    <2>1. PICK room \in Nat : room = MaxSms - links - 3
        BY <1>1, <1>8
    <2>2. PICK least \in {words, room} : least = Min({words, room})
      <3>1. \E x \in {words, room} : \A y \in {words, room} : x <= y
        <4>1. words <= room \/ room <= words
            OBVIOUS
        <4> QED
            BY <4>1
      <3> QED
          BY <3>1 DEF Min
    <2>3. least <= room /\ least \in Nat
      <3>1. \E x \in {words, room} : \A y \in {words, room} : x <= y
        <4>1. words <= room \/ room <= words
            OBVIOUS
        <4> QED
            BY <4>1
      <3>2. \A y \in {words, room} : least <= y
          BY <2>2, <3>1 DEF Min
      <3> QED
          BY <3>2
    <2>4. SmsLength(l) = links + 3 + Min({words, room})
        BY <1>2, <1>3, <1>8, <2>1 DEF SmsLength
    <2>5. SmsLength(l) = links + 3 + least
        BY <2>2, <2>4
    <2>6. links + 3 + least \in Nat /\ links + 3 + least <= MaxSms
        BY <1>1, <2>1, <2>3
    <2> QED
        BY <1>1, <2>5, <2>6
  <1> QED
      BY <1>1, <1>4, <1>5, <1>6, <1>7, <1>8

\* What is missing of an admitted event may be empty.
LEMMA MissingMayBeEmpty ==
    ASSUME Admits(event), NEW r \in RenderRequests, NEW f \in MissingFields(r)
    PROVE  f \in Dates \/ (f = "userName" /\ r.name = "empty")
  <1>1. event.type \in EventTypes
      BY SchemasAre DEF Admits
  <1>2. /\ f \in RequiredFields(event.type)
        /\ f \notin DOMAIN Context(r) \/ Context(r)[f] \in {"empty", "absent", "null"}
      BY DEF MissingFields
  <1>3. r.name \in {"full", "empty", "absent"}
      BY DEF RenderRequests
  <1>4. CASE f = "userName"
    <2>1. f \in DOMAIN Context(r) /\ Context(r)[f] = IF r.name = "absent" THEN "full" ELSE r.name
        BY <1>4 DEF Context, ++
    <2> QED
        BY <1>2, <1>3, <1>4, <2>1
  <1>5. CASE f /= "userName"
    <2>1. f \in Copy[event.type]
        BY <1>2, <1>5 DEF RequiredFields
    <2>2. /\ f \in DOMAIN PayloadSchemas[event.type]
          /\ \/ PayloadSchemas[event.type][f] \in FirmChecks
             \/ PayloadSchemas[event.type][f] = "anyText" /\ f \in Dates
        BY <1>1, <2>1, CopyChecked DEF CopyIsChecked
    <2>3. SUFFICES ASSUME PayloadSchemas[event.type][f] \in FirmChecks PROVE FALSE
        BY <2>2
    <2>4. PICK schema : schema = PayloadSchemas[event.type] ++ BaseSchema
        OBVIOUS
    <2>5. f \in DOMAIN schema /\ schema[f] = PayloadSchemas[event.type][f]
        BY <2>2, <2>4 DEF ++
    <2>6. (IF f \in DOMAIN event.fields THEN event.fields[f] ELSE "absent")
                \in AdmittedValues[schema[f]]
        BY <2>4, <2>5 DEF Admits
    <2>7. f \in DOMAIN event.fields /\ event.fields[f] \notin {"empty", "absent", "null"}
        BY <2>3, <2>5, <2>6, FirmChecksAreFirm
    <2>8. f \in DOMAIN Context(r) /\ Context(r)[f] = event.fields[f]
        BY <1>5, <2>7 DEF Context, ++
    <2> QED
        BY <1>2, <2>7, <2>8
  <1> QED
      BY <1>4, <1>5

LEMMA RenderedStep ==
    AdmissionInv /\ AdmittedRenders /\ [ContentNext]_contentVars => AdmittedRenders'
  <1> SUFFICES ASSUME AdmissionInv, AdmittedRenders, [ContentNext]_contentVars,
                      stage' = "rendered"
               PROVE  AdmittedRenders'
      BY DEF AdmittedRenders
  <1>1. ASSUME NEW r \in RenderRequests, Render(r) PROVE AdmittedRenders'
    <2>1. Admits(event)
        BY <1>1 DEF Render, AdmissionInv
    <2>2. /\ asked' = r
          /\ answer' = IF FindTemplate(r.language, r.stored) = Nothing
                       THEN Failed("NoTemplate", {})
                       ELSE Rendered(r, FindTemplate(r.language, r.stored))
        BY <1>1 DEF Render
    <2>3. CASE FindTemplate(r.language, r.stored) = Nothing
      <3>1. answer'.status = "NoTemplate" /\ "en" \notin asked'.stored
          BY <2>2, <2>3, TemplateFound DEF Failed
      <3> QED
          BY <3>1 DEF AdmittedRenders
    <2>4. CASE FindTemplate(r.language, r.stored) /= Nothing
      <3>1. PICK language : /\ language = FindTemplate(r.language, r.stored)
                            /\ language = IF r.language \in SupportedLanguages \cap r.stored
                                          THEN r.language ELSE "en"
          BY <2>4, TemplateFound
      <3>2. answer' = Rendered(r, language)
          BY <2>2, <2>4, <3>1
      <3>3. CASE r.timezone = "unknown"
        <4>1. answer'.status = "RangeError"
            BY <3>2, <3>3 DEF Rendered, Failed
        <4> QED
            BY <2>2, <3>3, <4>1 DEF AdmittedRenders
      <3>4. CASE r.timezone /= "unknown" /\ MissingFields(r) /= {}
        <4>1. answer'.status = "TemplateValidationError" /\ answer'.missing = MissingFields(r)
            BY <3>2, <3>4 DEF Rendered, Failed
        <4>2. \A f \in answer'.missing : MayBeEmpty(f)'
            BY <2>1, <2>2, <4>1, MissingMayBeEmpty DEF MayBeEmpty
        <4> QED
            BY <3>4, <4>1, <4>2 DEF AdmittedRenders
      <3>5. CASE /\ r.timezone /= "unknown" /\ MissingFields(r) = {}
                 /\ r.channel = "SMS" /\ SmsLength(r.sms) = Nothing
        <4>1. answer'.status = "SmsContentError"
            BY <3>2, <3>5 DEF Rendered, Failed
        <4>2. r.sms.links > MaxSms
            BY <3>5, SmsFits DEF RenderRequests
        <4> QED
            BY <2>2, <4>1, <4>2 DEF AdmittedRenders
      <3>6. CASE /\ r.timezone /= "unknown" /\ MissingFields(r) = {}
                 /\ ~(r.channel = "SMS" /\ SmsLength(r.sms) = Nothing)
        <4>1. PICK length : length = IF r.channel = "SMS" THEN SmsLength(r.sms) ELSE 0
            OBVIOUS
        <4>2. answer' = [status |-> "rendered", language |-> language, length |-> length]
            BY <3>2, <3>6, <4>1 DEF Rendered
        <4>3. length <= MaxSms
          <5>1. CASE r.channel = "SMS"
              BY <3>6, <4>1, <5>1, SmsFits DEF RenderRequests
          <5>2. CASE r.channel /= "SMS"
              BY <4>1, <5>2, ContentAssumption
          <5> QED
              BY <5>1, <5>2
        <4>4. answer'.status = "rendered" /\ answer'.length = length /\ answer'.language = language
            BY <4>2
        <4> QED
            BY <2>2, <3>1, <4>3, <4>4 DEF AdmittedRenders
      <3> QED
          BY <3>3, <3>4, <3>5, <3>6
    <2> QED
        BY <2>3, <2>4
  <1>2. CASE UNCHANGED contentVars
      BY <1>2 DEF contentVars, AdmittedRenders, MayBeEmpty
  <1> QED
      BY <1>1, <1>2, StageMoves

\* An admitted event renders within the length of an SMS, in the user's language
\* or in English; it fails only for a field its schema lets be empty, an unknown
\* time zone, links longer than an SMS or a channel with no English template
\* (templates, kafka/consumer.ts).
THEOREM AdmittedEventsRender == ContentSpec => []AdmittedRenders
  <1>1. ContentInit => AdmittedRenders
      BY DEF ContentInit, AdmittedRenders
  <1>2. ContentSpec => []AdmissionInv
      BY AdmissionInit, AdmissionStep, PTL DEF ContentSpec
  <1> QED
      BY <1>1, <1>2, RenderedStep, PTL DEF ContentSpec

-----------------------------------------------------------------------------
(* Quiet hours.                                                            *)

\* Quiet hours: what % makes of a number below three days.
LEMMA DayRemainder ==
    ASSUME NEW x \in 0..3 * DaySlots - 1
    PROVE  /\ x < DaySlots => x % DaySlots = x
           /\ x >= DaySlots /\ x < 2 * DaySlots => x % DaySlots = x - DaySlots
           /\ x >= 2 * DaySlots => x % DaySlots = x - 2 * DaySlots
           /\ x % DaySlots \in 0..DaySlots - 1
BY SMT, ContentAssumption

\* The position of a slot of the day after the start of a window.
Position(local, w) ==
    IF local >= w[1] THEN local - w[1] ELSE local - w[1] + DaySlots

\* The length of a window.
Length(w) == (w[2] + DaySlots - w[1]) % DaySlots

LEMMA WindowLength ==
    ASSUME NEW w \in Windows
    PROVE  /\ w[1] \in 0..DaySlots - 1 /\ w[2] \in 0..DaySlots - 1
           /\ Length(w) \in 0..DaySlots - 1
           /\ w[1] /= w[2] => Length(w) = Position(w[2], w)
  <1>1. w[1] \in 0..DaySlots - 1 /\ w[2] \in 0..DaySlots - 1 /\ DaySlots \in Nat \ {0}
      BY ContentAssumption
  <1>2. w[2] + DaySlots - w[1] \in 0..3 * DaySlots - 1
      BY <1>1
  <1>3. PICK x \in 0..3 * DaySlots - 1 : x = w[2] + DaySlots - w[1]
      BY <1>2
  <1>4. Length(w) = x % DaySlots
      BY <1>3 DEF Length
  <1>5. /\ x < DaySlots => Length(w) = x
        /\ x >= DaySlots /\ x < 2 * DaySlots => Length(w) = x - DaySlots
        /\ Length(w) \in 0..DaySlots - 1
      BY <1>4, DayRemainder
  <1> QED
      BY <1>1, <1>3, <1>5 DEF Position

\* isWithinWindow is that the position is below the length.
LEMMA WithinByPosition ==
    ASSUME NEW w \in Windows, NEW local \in 0..DaySlots - 1, w[1] /= w[2]
    PROVE  IsWithinWindow(local, w) <=> Position(local, w) < Length(w)
  <1>1. w[1] \in 0..DaySlots - 1 /\ w[2] \in 0..DaySlots - 1 /\ DaySlots \in Nat \ {0}
      BY ContentAssumption
  <1> QED
      BY <1>1, WindowLength DEF IsWithinWindow, Position

\* WindowSlots lists the slots in the order of their positions.
LEMMA SlotByPosition ==
    ASSUME NEW w \in Windows, NEW k \in 0..DaySlots - 1
    PROVE  /\ (w[1] + k) % DaySlots \in 0..DaySlots - 1
           /\ Position((w[1] + k) % DaySlots, w) = k
  <1>1. w[1] \in 0..DaySlots - 1 /\ DaySlots \in Nat \ {0}
      BY ContentAssumption
  <1>2. PICK x \in 0..3 * DaySlots - 1 : x = w[1] + k
      BY <1>1
  <1> QED
      BY <1>1, <1>2, DayRemainder DEF Position

LEMMA PositionOfSlot ==
    ASSUME NEW w \in Windows, NEW local \in 0..DaySlots - 1
    PROVE  /\ Position(local, w) \in 0..DaySlots - 1
           /\ (w[1] + Position(local, w)) % DaySlots = local
  <1>1. w[1] \in 0..DaySlots - 1 /\ DaySlots \in Nat \ {0}
      BY ContentAssumption
  <1>2. PICK x \in 0..3 * DaySlots - 1 : x = w[1] + Position(local, w)
      BY <1>1 DEF Position
  <1> QED
      BY <1>1, <1>2, DayRemainder DEF Position

LEMMA WithinIsInSlots ==
    ASSUME NEW w \in Windows, NEW local \in 0..DaySlots - 1, w[1] /= w[2]
    PROVE  IsWithinWindow(local, w) <=> local \in WindowSlots(w)
  <1>1. WindowSlots(w) = {(w[1] + k) % DaySlots : k \in 0..Length(w) - 1}
      BY DEF WindowSlots, Length
  <1>2. ASSUME IsWithinWindow(local, w) PROVE local \in WindowSlots(w)
    <2>1. Position(local, w) \in 0..Length(w) - 1
        BY <1>2, WithinByPosition, PositionOfSlot, WindowLength
    <2> QED
        BY <2>1, <1>1, PositionOfSlot
  <1>3. ASSUME local \in WindowSlots(w) PROVE IsWithinWindow(local, w)
    <2>1. PICK k \in 0..Length(w) - 1 : local = (w[1] + k) % DaySlots
        BY <1>1, <1>3
    <2>2. k \in 0..DaySlots - 1 /\ k < Length(w)
        BY WindowLength, ContentAssumption
    <2> QED
        BY <2>1, <2>2, SlotByPosition, WithinByPosition
  <1> QED
      BY <1>2, <1>3

LEMMA WindowSize ==
    ASSUME NEW w \in Windows
    PROVE  Cardinality(WindowSlots(w)) = Length(w)
  <1> DEFINE f == [k \in 0..Length(w) - 1 |-> (w[1] + k) % DaySlots]
  <1>1. Length(w) \in 0..DaySlots - 1
      BY WindowLength
  <1>2. WindowSlots(w) = {f[k] : k \in 0..Length(w) - 1}
      BY DEF WindowSlots, Length
  <1>3. \A k \in 0..Length(w) - 1 : k \in 0..DaySlots - 1
      BY <1>1, ContentAssumption
  <1>4. ASSUME NEW j \in 0..Length(w) - 1, NEW k \in 0..Length(w) - 1, f[j] = f[k]
        PROVE  j = k
      BY <1>3, <1>4, SlotByPosition
  <1>5. f \in Bijection(0..Length(w) - 1, WindowSlots(w))
    <2>1. f \in [0..Length(w) - 1 -> WindowSlots(w)]
        BY <1>2
    <2>2. \A j, k \in 0..Length(w) - 1 : f[j] = f[k] => j = k
        BY <1>4
    <2>3. \A slot \in WindowSlots(w) : \E k \in 0..Length(w) - 1 : f[k] = slot
        BY <1>2
    <2> HIDE DEF f
    <2> QED
      <3>1. f \in Injection(0..Length(w) - 1, WindowSlots(w))
          BY <2>1, <2>2 DEF Injection, IsInjective
      <3>2. f \in Surjection(0..Length(w) - 1, WindowSlots(w))
          BY <2>1, <2>3 DEF Surjection
      <3> QED
          BY <3>1, <3>2 DEF Bijection
  <1>6. IsFiniteSet(0..Length(w) - 1) /\ Cardinality(0..Length(w) - 1) = Length(w)
    <2>1. PICK n \in Nat : n = Length(w)
        BY <1>1, ContentAssumption
    <2>2. IsFiniteSet(0..n - 1) /\ Cardinality(0..n - 1) = IF 0 > n - 1 THEN 0 ELSE n - 1 - 0 + 1
      <3>1. 0 \in Int /\ n - 1 \in Int
          OBVIOUS
      <3> QED
          BY <3>1, FS_Interval
    <2> QED
        BY <2>1, <2>2
  <1> QED
      BY <1>5, <1>6, FS_Bijection DEF ExistsBijection

\* One slot on, the position is one on, and more where the clock is put on.
LEMMA NextPosition ==
    ASSUME NEW w \in Windows, NEW x \in 0..3 * DaySlots - 1, NEW step \in 1..DaySlots,
           x + step \in 0..3 * DaySlots - 1
    PROVE  Position((x + step) % DaySlots, w)
                = IF Position(x % DaySlots, w) + step < DaySlots
                  THEN Position(x % DaySlots, w) + step
                  ELSE Position(x % DaySlots, w) + step - DaySlots
  <1>1. w[1] \in 0..DaySlots - 1 /\ DaySlots \in Nat \ {0}
      BY ContentAssumption
  <1>2. PICK y \in 0..3 * DaySlots - 1 : y = x + step
      OBVIOUS
  <1>3. /\ x < DaySlots => x % DaySlots = x
        /\ x >= DaySlots /\ x < 2 * DaySlots => x % DaySlots = x - DaySlots
        /\ x >= 2 * DaySlots => x % DaySlots = x - 2 * DaySlots
        /\ x % DaySlots \in 0..DaySlots - 1
      BY <1>1, DayRemainder
  <1>4. /\ y < DaySlots => y % DaySlots = y
        /\ y >= DaySlots /\ y < 2 * DaySlots => y % DaySlots = y - DaySlots
        /\ y >= 2 * DaySlots => y % DaySlots = y - 2 * DaySlots
        /\ y % DaySlots \in 0..DaySlots - 1
      BY <1>1, DayRemainder
  <1>5. x % DaySlots = x \/ x % DaySlots = x - DaySlots \/ x % DaySlots = x - 2 * DaySlots
      BY <1>1, <1>3
  <1>6. y % DaySlots = y \/ y % DaySlots = y - DaySlots \/ y % DaySlots = y - 2 * DaySlots
      BY <1>1, <1>4
  <1>7. PICK s \in 0..DaySlots - 1 : s = x % DaySlots
      BY <1>3
  <1>8. PICK t \in 0..DaySlots - 1 : t = y % DaySlots
      BY <1>4
  <1>9. s = x \/ s = x - DaySlots \/ s = x - 2 * DaySlots
      BY <1>5, <1>7
  <1>10. t = y \/ t = y - DaySlots \/ t = y - 2 * DaySlots
      BY <1>6, <1>8
  <1>11. Position(t, w) = IF Position(s, w) + step < DaySlots
                         THEN Position(s, w) + step
                         ELSE Position(s, w) + step - DaySlots
      BY <1>1, <1>2, <1>9, <1>10 DEF Position
  <1> QED
      BY <1>2, <1>7, <1>8, <1>11

LEMMA RequestFacts ==
    ASSUME NEW q \in QuietRequests
    PROVE  /\ q.window \in Windows /\ q.override \in BOOLEAN
           /\ q.now \in 0..DaySlots - 1
           /\ q.shift.at \in Nat /\ q.shift.by \in 0..DaySlots - 1
BY ContentAssumption DEF QuietRequests

LEMMA LocalTimeIsSlot ==
    ASSUME NEW q \in QuietRequests, NEW slot \in Nat
    PROVE  LocalTime(slot, q.shift) \in 0..DaySlots - 1
  <1>1. PICK x \in Nat : x = slot + (IF slot >= q.shift.at THEN q.shift.by ELSE 0)
      BY RequestFacts
  <1>2. DaySlots \in Nat \ {0}
      BY ContentAssumption
  <1>3. x % DaySlots \in 0..DaySlots - 1
      BY <1>2
  <1> QED
      BY <1>1, <1>3 DEF LocalTime

\* The evaluator's test of a slot is that the local time is in the window.
LEMMA InWindowIsQuiet ==
    ASSUME NEW q \in QuietRequests, q.window[1] /= q.window[2], NEW slot \in Nat
    PROVE  InWindow(q, slot) <=> LocalTime(slot, q.shift) \in WindowSlots(q.window)
BY LocalTimeIsSlot, RequestFacts, WithinIsInSlots DEF InWindow

\* From inside the window, with too little put on the clock to jump over the
\* time outside it, k slots on that are all inside have a position of at
\* least k.
LEMMA PositionGrows ==
    ASSUME NEW q \in QuietRequests, q.window[1] /= q.window[2],
           Length(q.window) + q.shift.by < DaySlots,
           NEW n \in 0..DaySlots - 1,
           \A k \in 0..n : InWindow(q, q.now + k)
    PROVE  n < Length(q.window)
  <1> DEFINE w == q.window
             by(slot) == IF slot >= q.shift.at THEN q.shift.by ELSE 0
             at(k) == Position(LocalTime(q.now + k, q.shift), w)
             Good(k) == k <= at(k)
  <1>1. /\ w \in Windows /\ q.now \in 0..DaySlots - 1
        /\ q.shift.at \in Nat /\ q.shift.by \in 0..DaySlots - 1
        /\ DaySlots \in Nat \ {0} /\ Length(w) \in 0..DaySlots - 1
      BY RequestFacts, WindowLength, ContentAssumption
  <1>2. \A k \in 0..n : at(k) \in 0..DaySlots - 1 /\ at(k) < Length(w)
    <2> SUFFICES ASSUME NEW k \in 0..n
                 PROVE  at(k) \in 0..DaySlots - 1 /\ at(k) < Length(w)
        OBVIOUS
    <2>1. q.now + k \in Nat
        BY <1>1
    <2>2. LocalTime(q.now + k, q.shift) \in 0..DaySlots - 1
        BY <2>1, LocalTimeIsSlot
    <2>3. IsWithinWindow(LocalTime(q.now + k, q.shift), w)
        BY DEF InWindow
    <2> QED
        BY <2>2, <2>3, <1>1, WithinByPosition, PositionOfSlot
  <1>3. ASSUME NEW k \in 0..n - 1, Good(k)
        PROVE  Good(k + 1)
    <2>1. k \in 0..n /\ k + 1 \in 0..n
        BY <1>1
    <2>2. PICK x \in 0..3 * DaySlots - 1 : x = q.now + k + by(q.now + k)
        BY <1>1
    <2>3. PICK y \in 0..3 * DaySlots - 1 : y = q.now + (k + 1) + by(q.now + (k + 1))
        BY <1>1
    <2>4. PICK step \in 1..DaySlots : y = x + step /\ step <= 1 + q.shift.by
        BY <1>1, <2>2, <2>3
    <2>5. LocalTime(q.now + k, q.shift) = x % DaySlots
        BY <2>2 DEF LocalTime
    <2>6. LocalTime(q.now + (k + 1), q.shift) = (x + step) % DaySlots
        BY <2>3, <2>4 DEF LocalTime
    <2>7. at(k + 1) = IF at(k) + step < DaySlots THEN at(k) + step
                      ELSE at(k) + step - DaySlots
      <3>1. x + step \in 0..3 * DaySlots - 1
          BY <2>4
      <3>2. Position((x + step) % DaySlots, w)
                = IF Position(x % DaySlots, w) + step < DaySlots
                  THEN Position(x % DaySlots, w) + step
                  ELSE Position(x % DaySlots, w) + step - DaySlots
          BY <1>1, <3>1, NextPosition
      <3> QED
          BY <3>2, <2>5, <2>6
    <2>8. at(k) \in 0..DaySlots - 1 /\ at(k) < Length(w)
        BY <1>2, <2>1
    <2> HIDE DEF at, by
    <2> QED
        BY <1>1, <1>3, <2>4, <2>7, <2>8
  <1>4. Good(0)
      BY <1>1, <1>2
  <1>5. \A k \in 0..n : Good(k)
    <2> DEFINE Bad == {k \in 0..n : ~Good(k)}
    <2> SUFFICES ASSUME Bad /= {} PROVE FALSE
        OBVIOUS
    <2>1. Bad \in SUBSET Nat
        OBVIOUS
    <2>2. PICK m \in Bad : \A k \in Bad : m <= k
        BY <2>1, LeastNumber
    <2>3. m \in 0..n /\ ~Good(m) /\ m /= 0
        BY <2>2, <1>4
    <2>4. m - 1 \in 0..n - 1 /\ m - 1 \notin Bad
        BY <2>2, <2>3
    <2>5. Good(m - 1)
        BY <2>4
    <2> HIDE DEF Good, Bad
    <2>6. Good((m - 1) + 1)
        BY <2>4, <2>5, <1>3
    <2> QED
        BY <2>3, <2>6
  <1> HIDE DEF at
  <1> QED
      BY <1>1, <1>2, <1>5

\* The search finds an end of the window, unless the clock jumps over it.
LEMMA WindowEnds ==
    ASSUME NEW q \in QuietRequests, q.window[1] /= q.window[2],
           ResumeCandidates(q) = {}
    PROVE  Cardinality(WindowSlots(q.window)) + q.shift.by >= DaySlots
  <1> SUFFICES ASSUME Length(q.window) + q.shift.by < DaySlots PROVE FALSE
      BY WindowSize, RequestFacts, WindowLength, ContentAssumption
  <1>1. \A k \in 0..ScanSlots : InWindow(q, q.now + k)
      BY DEF ResumeCandidates
  <1>2. PICK n \in 0..DaySlots - 1 : n = DaySlots - 1
      BY ContentAssumption
  <1>3. \A k \in 0..n : InWindow(q, q.now + k)
      BY <1>1, <1>2, ContentAssumption
  <1>4. n < Length(q.window)
      BY <1>3, PositionGrows
  <1> QED
      BY <1>2, <1>4, RequestFacts, WindowLength, ContentAssumption

\* What is deferred is deferred to the first slot outside the window.
LEMMA ResumeIsFirst ==
    ASSUME NEW q \in QuietRequests, ResumeCandidates(q) /= {}
    PROVE  /\ Min(ResumeCandidates(q)) \in 0..ScanSlots
           /\ ~InWindow(q, q.now + Min(ResumeCandidates(q)))
           /\ \A k \in 0..Min(ResumeCandidates(q)) - 1 : InWindow(q, q.now + k)
  <1> DEFINE S == ResumeCandidates(q)
             m == Min(S)
  <1>1. S \in SUBSET Nat /\ S \in SUBSET (0..ScanSlots) /\ ScanSlots \in Nat
      BY ContentAssumption DEF ResumeCandidates
  <1>2. \E x \in S : \A y \in S : x <= y
      BY <1>1, LeastNumber
  <1>3. m \in S /\ \A y \in S : m <= y
      BY <1>2 DEF Min
  <1>4. \A k \in 0..m - 1 : k \in 0..ScanSlots /\ k \notin S
      BY <1>1, <1>3
  <1> QED
      BY <1>1, <1>3, <1>4 DEF ResumeCandidates

-----------------------------------------------------------------------------
\* A decision is the evaluator's, or a bypass: logged, or refused because the
\* log could not be written.  Nothing is logged before.
BypassInv ==
    /\ stage /= "decided" => audit = {}
    /\ stage \in {"auditing", "decided"} => asked \in QuietRequests
    /\ stage = "auditing" => Bypasses(asked)
    /\ stage = "decided" =>
        \/ ~Bypasses(asked) /\ answer = QuietHours(asked) /\ audit = {}
        \/ /\ Bypasses(asked) /\ answer = Deliver("CRITICAL_BYPASS")
           /\ audit = {[eventType |-> event.type, window |-> asked.window]}
        \/ Bypasses(asked) /\ answer = Throws("audit") /\ audit = {}

LEMMA BypassInvInit == ContentInit => BypassInv
BY DEF ContentInit, BypassInv

LEMMA BypassInvStep == BypassInv /\ [ContentNext]_contentVars => BypassInv'
  <1> SUFFICES ASSUME BypassInv, [ContentNext]_contentVars
               PROVE  BypassInv'
      OBVIOUS
  <1>1. ASSUME NEW t \in EventTypes, CreateTestEvent(t) PROVE BypassInv'
      BY <1>1 DEF BypassInv, CreateTestEvent
  <1>2. ASSUME NEW t, NEW field, NEW value, NEW priority, Produce(t, field, value, priority)
        PROVE  BypassInv'
      BY <1>2 DEF BypassInv, Produce
  <1>3. CASE PublishEvent
      BY <1>3 DEF BypassInv, PublishEvent
  <1>4. CASE Consume
      BY <1>4 DEF BypassInv, Consume
  <1>5. ASSUME NEW promotional \in BOOLEAN, ClassifyEvent(promotional) PROVE BypassInv'
      BY <1>5 DEF BypassInv, ClassifyEvent
  <1>6. ASSUME NEW q \in QuietRequests, AskQuietHours(q) PROVE BypassInv'
    <2>1. audit = {} /\ audit' = audit /\ asked' = q /\ event' = event
        BY <1>6 DEF BypassInv, AskQuietHours
    <2>2. Bypasses(asked)' <=> Bypasses(q)
        BY <2>1 DEF Bypasses, QuietHours, ResumeCandidates, InWindow
    <2>3. CASE Bypasses(q)
      <3>1. stage' = "auditing"
          BY <1>6, <2>3 DEF AskQuietHours
      <3> QED
          BY <2>1, <2>2, <2>3, <3>1 DEF BypassInv
    <2>4. CASE ~Bypasses(q)
      <3>1. stage' = "decided" /\ answer' = QuietHours(q)
          BY <1>6, <2>4 DEF AskQuietHours
      <3>2. answer' = QuietHours(asked)'
          BY <2>1, <3>1 DEF QuietHours, ResumeCandidates, InWindow
      <3> QED
          BY <2>1, <2>2, <2>4, <3>1, <3>2 DEF BypassInv
    <2> QED
        BY <2>3, <2>4
  <1>7. CASE AuditBypass
    <2>1. /\ stage = "auditing" /\ stage' = "decided" /\ asked' = asked /\ event' = event
          /\ audit' = audit \cup {[eventType |-> event.type, window |-> asked.window]}
          /\ answer' = Deliver("CRITICAL_BYPASS")
        BY <1>7 DEF AuditBypass
    <2>2. audit = {} /\ asked \in QuietRequests /\ Bypasses(asked)
        BY <2>1 DEF BypassInv
    <2>3. Bypasses(asked)'
        BY <2>1, <2>2 DEF Bypasses
    <2> QED
        BY <2>1, <2>2, <2>3 DEF BypassInv, Deliver
  <1>8. CASE AuditThrows
    <2>1. /\ stage = "auditing" /\ stage' = "decided" /\ asked' = asked /\ event' = event
          /\ audit' = audit /\ answer' = Throws("audit")
        BY <1>8 DEF AuditThrows
    <2>2. audit = {} /\ asked \in QuietRequests /\ Bypasses(asked)
        BY <2>1 DEF BypassInv
    <2>3. Bypasses(asked)'
        BY <2>1, <2>2 DEF Bypasses
    <2> QED
        BY <2>1, <2>2, <2>3 DEF BypassInv, Throws
  <1>9. ASSUME NEW r \in RenderRequests, Render(r) PROVE BypassInv'
      BY <1>9 DEF BypassInv, Render
  <1>10. CASE UNCHANGED contentVars
    <2>1. /\ stage' = stage /\ asked' = asked /\ event' = event
          /\ audit' = audit /\ answer' = answer
        BY <1>10 DEF contentVars
    <2>2. (Bypasses(asked)' <=> Bypasses(asked)) /\ QuietHours(asked)' = QuietHours(asked)
        BY <2>1 DEF Bypasses
    <2> QED
        BY <2>1, <2>2 DEF BypassInv
  <1> QED
      BY <1>1, <1>2, <1>3, <1>4, <1>5, <1>6, <1>7, <1>8, <1>9, <1>10 DEF ContentNext

\* What the evaluator answers of a request, case by case.
LEMMA EvaluatorAnswers ==
    ASSUME NEW q \in QuietRequests
    PROVE  \/ /\ QuietHours(q) = Throws("InvalidQuietHoursWindowError")
              /\ ~q.wellFormed \/ q.window[1] = q.window[2]
           \/ QuietHours(q) = Throws("RangeError") /\ q.timezone = "unknown"
           \/ /\ QuietHours(q) = Deliver("USER_OVERRIDE")
              /\ q.window[1] /= q.window[2] /\ q.override
           \/ /\ QuietHours(q) = Deliver("OUTSIDE_QUIET_HOURS")
              /\ q.window[1] /= q.window[2] /\ ~q.override
              /\ LocalTime(q.now, q.shift) \notin WindowSlots(q.window)
           \/ /\ QuietHours(q) = Throws("NoEndOfWindow")
              /\ q.window[1] /= q.window[2]
              /\ Cardinality(WindowSlots(q.window)) + q.shift.by >= DaySlots
           \/ \E resumeAt \in Nat :
                /\ QuietHours(q) = [status |-> "DEFER_UNTIL_QUIET_HOURS_END",
                                    reason |-> "QUIET_HOURS", resumeAt |-> resumeAt]
                /\ q.window[1] /= q.window[2] /\ ~q.override
                /\ LocalTime(q.now, q.shift) \in WindowSlots(q.window)
                /\ LocalTime(resumeAt, q.shift) \notin WindowSlots(q.window)
                /\ \A slot \in q.now..resumeAt - 1 :
                      LocalTime(slot, q.shift) \in WindowSlots(q.window)
  <1>1. q.now \in Nat
      BY RequestFacts, ContentAssumption
  <1> DEFINE parsed == q.wellFormed /\ q.window[1] /= q.window[2] /\ q.timezone = "known"
  <1>2. CASE ~q.wellFormed \/ q.window[1] = q.window[2]
      BY <1>2 DEF QuietHours
  <1>7. CASE q.wellFormed /\ q.window[1] /= q.window[2] /\ q.timezone = "unknown"
      BY <1>7 DEF QuietHours
  <1>3. CASE parsed /\ q.override
      BY <1>3 DEF QuietHours
  <1>4. CASE parsed /\ ~q.override /\ ~InWindow(q, q.now)
      BY <1>1, <1>4, InWindowIsQuiet DEF QuietHours
  <1>5. CASE /\ parsed /\ ~q.override /\ InWindow(q, q.now)
             /\ ResumeCandidates(q) = {}
      BY <1>5, WindowEnds DEF QuietHours
  <1>6. CASE /\ parsed /\ ~q.override /\ InWindow(q, q.now)
             /\ ResumeCandidates(q) /= {}
    <2>1. PICK m \in 0..ScanSlots : m = Min(ResumeCandidates(q))
        BY <1>6, ResumeIsFirst
    <2>2. ~InWindow(q, q.now + m) /\ \A k \in 0..m - 1 : InWindow(q, q.now + k)
        BY <1>6, <2>1, ResumeIsFirst
    <2>3. m \in Nat
        BY ContentAssumption
    <2>4. PICK resumeAt \in Nat : resumeAt = q.now + m
        BY <1>1, <2>3
    <2>5. LocalTime(resumeAt, q.shift) \notin WindowSlots(q.window)
        BY <1>1, <1>6, <2>2, <2>4, InWindowIsQuiet
    <2>6. ASSUME NEW slot \in q.now..resumeAt - 1
          PROVE  LocalTime(slot, q.shift) \in WindowSlots(q.window)
      <3>1. slot - q.now \in 0..m - 1 /\ slot \in Nat /\ slot = q.now + (slot - q.now)
          BY <1>1, <2>3, <2>4
      <3>2. InWindow(q, slot)
          BY <2>2, <3>1
      <3> QED
          BY <1>6, <3>1, <3>2, InWindowIsQuiet
    <2>7. LocalTime(q.now, q.shift) \in WindowSlots(q.window)
        BY <1>1, <1>6, InWindowIsQuiet
    <2>8. QuietHours(q) = [status |-> "DEFER_UNTIL_QUIET_HOURS_END",
                           reason |-> "QUIET_HOURS", resumeAt |-> resumeAt]
        BY <1>6, <2>1, <2>4 DEF QuietHours
    <2> QED
        BY <1>6, <2>5, <2>6, <2>7, <2>8
  <1>8. q.wellFormed \in BOOLEAN /\ q.override \in BOOLEAN /\ q.timezone \in {"known", "unknown"}
      BY DEF QuietRequests
  <1> QED
      BY <1>2, <1>3, <1>4, <1>5, <1>6, <1>7, <1>8

LEMMA BypassImpliesKept == BypassInv => QuietHoursKept
  <1> SUFFICES ASSUME BypassInv, stage = "decided"
               PROVE  QuietHoursKept
      BY DEF QuietHoursKept
  <1>1. asked \in QuietRequests
      BY DEF BypassInv
  <1>2. CASE /\ Bypasses(asked) /\ answer = Deliver("CRITICAL_BYPASS")
             /\ audit = {[eventType |-> event.type, window |-> asked.window]}
    <2>1. event.priority = "CRITICAL" /\ ~asked.override /\ Quiet(asked.now)
        BY <1>1, <1>2, EvaluatorAnswers DEF Bypasses, Deliver, Throws, Quiet
    <2>2. answer.status = "DELIVER_NOW" /\ answer.reason = "CRITICAL_BYPASS"
        BY <1>2 DEF Deliver
    <2> QED
        BY <1>2, <2>1, <2>2 DEF QuietHoursKept
  <1>3. CASE Bypasses(asked) /\ answer = Throws("audit") /\ audit = {}
    <2>1. event.priority = "CRITICAL" /\ ~asked.override /\ Quiet(asked.now)
        BY <1>1, <1>3, EvaluatorAnswers DEF Bypasses, Deliver, Throws, Quiet
    <2>2. answer.status = "throws" /\ answer.reason = "audit"
        BY <1>3 DEF Throws
    <2> QED
        BY <1>3, <2>1, <2>2 DEF QuietHoursKept
  <1>4. CASE ~Bypasses(asked) /\ answer = QuietHours(asked) /\ audit = {}
    <2>1. CASE /\ QuietHours(asked) = Throws("InvalidQuietHoursWindowError")
               /\ ~asked.wellFormed \/ asked.window[1] = asked.window[2]
      <3>1. answer.status = "throws" /\ answer.reason = "InvalidQuietHoursWindowError"
          BY <1>4, <2>1 DEF Throws
      <3> QED
          BY <2>1, <3>1 DEF QuietHoursKept
    <2>8. CASE QuietHours(asked) = Throws("RangeError") /\ asked.timezone = "unknown"
      <3>1. answer.status = "throws" /\ answer.reason = "RangeError"
          BY <1>4, <2>8 DEF Throws
      <3> QED
          BY <2>8, <3>1 DEF QuietHoursKept
    <2>2. CASE QuietHours(asked) = Deliver("USER_OVERRIDE") /\ asked.override
      <3>1. answer.status = "DELIVER_NOW" /\ answer.reason = "USER_OVERRIDE"
          BY <1>4, <2>2 DEF Deliver
      <3> QED
          BY <1>4, <2>2, <3>1 DEF QuietHoursKept
    <2>3. CASE QuietHours(asked) = Deliver("OUTSIDE_QUIET_HOURS") /\ ~Quiet(asked.now)
      <3>1. answer.status = "DELIVER_NOW" /\ answer.reason = "OUTSIDE_QUIET_HOURS"
          BY <1>4, <2>3 DEF Deliver
      <3> QED
          BY <1>4, <2>3, <3>1 DEF QuietHoursKept
    <2>4. CASE /\ QuietHours(asked) = Throws("NoEndOfWindow")
               /\ Cardinality(WindowSlots(asked.window)) + asked.shift.by >= DaySlots
      <3>1. answer.status = "throws" /\ answer.reason = "NoEndOfWindow"
          BY <1>4, <2>4 DEF Throws
      <3> QED
          BY <2>4, <3>1 DEF QuietHoursKept
    <2>5. ASSUME NEW resumeAt,
                 QuietHours(asked) = [status |-> "DEFER_UNTIL_QUIET_HOURS_END",
                                      reason |-> "QUIET_HOURS", resumeAt |-> resumeAt],
                 ~Quiet(resumeAt), \A slot \in asked.now..resumeAt - 1 : Quiet(slot)
          PROVE  QuietHoursKept
      <3>1. answer.status = "DEFER_UNTIL_QUIET_HOURS_END" /\ answer.resumeAt = resumeAt
          BY <1>4, <2>5
      <3>2. event.priority /= "CRITICAL"
          BY <1>4, <3>1 DEF Bypasses
      <3> QED
          BY <2>5, <3>1, <3>2 DEF QuietHoursKept
    <2>6. CASE \E resumeAt \in Nat :
                /\ QuietHours(asked) = [status |-> "DEFER_UNTIL_QUIET_HOURS_END",
                                        reason |-> "QUIET_HOURS", resumeAt |-> resumeAt]
                /\ LocalTime(resumeAt, asked.shift) \notin WindowSlots(asked.window)
                /\ \A slot \in asked.now..resumeAt - 1 :
                      LocalTime(slot, asked.shift) \in WindowSlots(asked.window)
        BY <2>5, <2>6 DEF Quiet
    <2>7. ~Quiet(asked.now) <=> LocalTime(asked.now, asked.shift) \notin WindowSlots(asked.window)
        BY DEF Quiet
    <2> QED
        BY <1>1, <2>1, <2>2, <2>3, <2>4, <2>6, <2>7, <2>8, EvaluatorAnswers
  <1> QED
      BY <1>2, <1>3, <1>4 DEF BypassInv

\* Inside quiet hours only an override or a critical event whose bypass is logged
\* is delivered; what is deferred resumes at the first slot outside the window,
\* over midnight and over a change of the clock (compliance/quiet-hours.ts,
\* critical-quiet-hours-bypass.ts).
THEOREM QuietHoursAreKept == ContentSpec => []QuietHoursKept
  <1>1. ContentSpec => []BypassInv
      BY BypassInvInit, BypassInvStep, PTL DEF ContentSpec
  <1> QED
      BY <1>1, BypassImpliesKept, PTL
=============================================================================
