-------------------------- MODULE AppEvents_proofs --------------------------
(***************************************************************************)
(* The invariants of the app's event store and subscriptions, for any      *)
(* events, addresses, authors and areas.                                   *)
(***************************************************************************)
EXTENDS AppEvents, SequenceTheorems, TLAPS

OnePerAddress(S) == \A d, e \in S : d.addr = e.addr => d = e

StoreTypes ==
    /\ store \in SUBSET Events /\ disk \in SUBSET Events
    /\ ended \in SUBSET Events /\ heard \in SUBSET Events
    /\ OnePerAddress(store) /\ OnePerAddress(disk)

Filters == Areas \cup (SUBSET Authors) \cup {"all"}

Calls == {c \in [sub : Subs, filter : Filters] : c.filter \in FilterOf[c.sub]}

SubTypes ==
    /\ query \in [Subs -> Filters \cup {None}]
    /\ \A s \in Subs : query[s] \in FilterOf[s] \cup {None}
    /\ waiting \in Seq(Calls) /\ open \in Seq(Calls) /\ Len(open) <= MaxRequests
    /\ missed \in SUBSET Subs /\ refused \in SUBSET Subs

ProcessTypes ==
    up \in BOOLEAN /\ alive \in BOOLEAN /\ timer \in BOOLEAN /\ conn \in BOOLEAN /\ kills \in Nat

TypeInv == StoreTypes /\ SubTypes /\ ProcessTypes

LEMMA FiltersOf ==
  /\ FilterOf["map"] = Areas /\ FilterOf["author"] = SUBSET Authors /\ FilterOf["message"] = {"all"}
  /\ \A s \in Subs : FilterOf[s] \subseteq Filters
  <1>1. /\ FilterOf["map"] = Areas /\ FilterOf["author"] = SUBSET Authors
        /\ FilterOf["message"] = {"all"}
    BY DEF FilterOf
  <1>2. \A s \in Subs : s = "map" \/ s = "author" \/ s = "message"
    BY DEF Subs
  <1>3. /\ \A f \in Areas : f \in Filters
        /\ \A f \in SUBSET Authors : f \in Filters
        /\ \A f \in {"all"} : f \in Filters
    BY DEF Filters
  <1> QED BY <1>1, <1>2, <1>3

LEMMA TypeInvImplies == TypeInv => TypeOK
  <1> SUFFICES ASSUME TypeInv PROVE TypeOK
    OBVIOUS
  <1>1. \A calls \in {waiting, open} : \A i \in DOMAIN calls :
           calls[i].sub \in Subs /\ calls[i].filter \in FilterOf[calls[i].sub]
    BY ElementOfSeq, LenProperties DEF TypeInv, SubTypes, Calls
  <1>2. {up, alive, timer, conn} \subseteq BOOLEAN
    BY DEF TypeInv, ProcessTypes
  <1>3. \A S \in {store, disk} : \A d, e \in S : d.addr = e.addr => d = e
    BY DEF TypeInv, StoreTypes, OnePerAddress
  <1> QED
    BY <1>1, <1>2, <1>3 DEF TypeInv, StoreTypes, SubTypes, ProcessTypes, TypeOK

----------------------------------------------------------------------------
(* The store *)

LEMMA EventFields ==
  ASSUME NEW e \in Events
  PROVE  e.at \in Nat /\ e.author \in Authors /\ e.ends \in BOOLEAN
  BY EventsAssumption

\* What addEvent leaves is one event of an address, among what was heard.
LEMMA AddEventStore ==
  ASSUME StoreTypes, StoreHoldsNewest, NEW e \in Events, AddEvent(e), UNCHANGED <<disk, ended>>
  PROVE  StoreTypes' /\ StoreHoldsNewest'
  <1>1. CASE UNCHANGED <<store, heard>>
    BY <1>1 DEF StoreTypes, StoreHoldsNewest, At
  <1>2. CASE /\ heard' = heard \cup {e} /\ store' = store
             /\ \E old \in At(store, e.addr) : old.at >= e.at
    BY <1>2 DEF StoreTypes, StoreHoldsNewest, At
  <1>3. CASE /\ heard' = heard \cup {e} /\ store' = (store \ At(store, e.addr)) \cup {e}
             /\ ~ \E old \in At(store, e.addr) : old.at >= e.at
    <2>1. StoreTypes'
      BY <1>3 DEF StoreTypes, OnePerAddress, At
    <2>2. store' \subseteq heard'
      BY <1>3 DEF StoreHoldsNewest
    <2>3. \A d \in heard' : \E s \in At(store', d.addr) : s.at >= d.at
      <3> SUFFICES ASSUME NEW d \in heard' PROVE \E s \in At(store', d.addr) : s.at >= d.at
        OBVIOUS
      <3>1. d \in Events
        BY <2>1 DEF StoreTypes
      <3>2. CASE d = e
        <4>1. e \in At(store', e.addr) /\ e.at >= e.at
          BY <1>3, EventFields DEF At
        <4> QED BY <3>2, <4>1
      <3>3. CASE d \in heard
        <4>1. PICK s \in At(store, d.addr) : s.at >= d.at
          BY <3>3 DEF StoreHoldsNewest
        <4>2. s \in Events
          BY <4>1 DEF At, StoreTypes
        <4>3. CASE d.addr = e.addr
          <5>1. ~ (s.at >= e.at)
            BY <1>3, <4>1, <4>3
          <5>2. e.at >= d.at
            BY <3>1, <4>1, <4>2, <5>1, EventFields
          <5> QED BY <1>3, <4>3, <5>2 DEF At
        <4>4. CASE d.addr # e.addr
          <5>1. s \in At(store', d.addr)
            BY <1>3, <4>1, <4>4 DEF At
          <5> QED BY <4>1, <5>1
        <4> QED BY <4>3, <4>4
      <3> QED BY <1>3, <3>2, <3>3
    <2> QED BY <2>1, <2>2, <2>3 DEF StoreHoldsNewest
  <1> QED BY <1>1, <1>2, <1>3 DEF AddEvent

\* A flush forgets whole addresses: what it keeps was the newest, and stays so.
LEMMA FlushStore ==
  ASSUME StoreTypes, StoreHoldsNewest, Flush
  PROVE  StoreTypes' /\ StoreHoldsNewest'
  <1>1. /\ store' = store \ ended /\ UNCHANGED <<disk, ended>>
        /\ heard' = {e \in heard : e.addr \notin {d.addr : d \in store \cap ended}}
    BY DEF Flush, Flushed
  <1>2. StoreTypes'
    BY <1>1 DEF StoreTypes, OnePerAddress
  <1>3. store' \subseteq heard'
    BY <1>1 DEF StoreTypes, OnePerAddress, StoreHoldsNewest
  <1>4. \A e \in heard' : \E s \in At(store', e.addr) : s.at >= e.at
    <2> SUFFICES ASSUME NEW e \in heard' PROVE \E s \in At(store', e.addr) : s.at >= e.at
      OBVIOUS
    <2>1. PICK s \in At(store, e.addr) : s.at >= e.at
      BY <1>1 DEF StoreHoldsNewest
    <2>2. s \notin ended
      BY <1>1, <2>1 DEF At
    <2> QED BY <1>1, <2>1, <2>2 DEF At
  <1> QED BY <1>2, <1>3, <1>4 DEF StoreHoldsNewest

\* What is read back from the disk is the newest there is to know of.
LEMMA LaunchStore ==
  ASSUME StoreTypes, Launch
  PROVE  StoreTypes' /\ StoreHoldsNewest'
  <1>1. store' = disk \ ended /\ heard' = disk \ ended /\ UNCHANGED <<disk, ended>>
    BY DEF Launch
  <1>2. StoreTypes'
    BY <1>1 DEF StoreTypes, OnePerAddress
  <1>3. \A e \in store' : e \in At(store', e.addr) /\ e.at >= e.at
    BY <1>2, EventFields DEF At, StoreTypes
  <1>4. heard' = store'
    BY <1>1
  <1> QED BY <1>2, <1>3, <1>4 DEF StoreHoldsNewest

LEMMA StoreStepKeeps ==
  StoreTypes /\ StoreHoldsNewest /\ [Next]_vars => StoreTypes' /\ StoreHoldsNewest'
  <1> SUFFICES ASSUME StoreTypes, StoreHoldsNewest, [Next]_vars
               PROVE  StoreTypes' /\ StoreHoldsNewest'
    OBVIOUS
  <1>1. ASSUME NEW e \in Events, Receive(e) \/ OpenNotification(e)
        PROVE  StoreTypes' /\ StoreHoldsNewest'
    BY <1>1, AddEventStore DEF Receive, OpenNotification
  <1>2. ASSUME NEW e \in Events, Expire(e) PROVE StoreTypes' /\ StoreHoldsNewest'
    BY <1>2 DEF Expire, StoreTypes, StoreHoldsNewest, At
  <1>3. CASE Flush
    BY <1>3, FlushStore
  <1>4. CASE Persist
    BY <1>4 DEF Persist, StoreTypes, StoreHoldsNewest, At
  <1>5. CASE SubscriptionStep \/ UNCHANGED vars
    <2>1. UNCHANGED data
      BY <1>5
      DEF SubscriptionStep, MoveMap, ConnectEnds, Connected, ConnectFails, Disconnect,
          SubscribeToUserProfiles, vars
    <2> QED BY <2>1 DEF data, StoreTypes, StoreHoldsNewest, At
  <1>6. CASE Kill
    BY <1>6 DEF Kill, StoreTypes, OnePerAddress, StoreHoldsNewest, At
  <1>7. CASE Launch
    BY <1>7, LaunchStore
  <1> QED BY <1>1, <1>2, <1>3, <1>4, <1>5, <1>6, <1>7 DEF Next, StoreStep

----------------------------------------------------------------------------
(* The subscriptions *)

\* A call of an id that waits has the query recorded for the id with or behind it.
EndsWithQuery ==
    \A i \in 1 .. Len(waiting) :
        \E j \in i .. Len(waiting) :
            waiting[j] = [sub |-> waiting[i].sub, filter |-> query[waiting[i].sub]]

\* What is open or refused is so on a connection, and a connection is the process's.
OpenNeedsConn == (~conn => open = <<>> /\ refused = {}) /\ (~up => ~conn)

SubInv == SubTypes /\ EndsWithQuery /\ OpenNeedsConn /\ QueriesAreServed

LEMMA SubsOfRange ==
  ASSUME NEW calls, calls \in Seq(Calls)
  PROVE  /\ SubsOf(calls) = {calls[i].sub : i \in 1 .. Len(calls)}
         /\ SubsOf(calls) \subseteq Subs
  <1>1. DOMAIN calls = 1 .. Len(calls)
    BY LenProperties
  <1>2. \A i \in 1 .. Len(calls) : calls[i] \in Calls
    BY ElementOfSeq
  <1> QED BY <1>1, <1>2 DEF SubsOf, Calls

LEMMA StartKeeps ==
  ASSUME SubInv, NEW s \in Subs, NEW f \in FilterOf[s], StartSubscription(s, f),
         UNCHANGED <<up, fates>>
  PROVE  SubInv'
  <1> DEFINE call == [sub |-> s, filter |-> f]
  <1>1. call \in Calls /\ call.sub = s /\ call.filter = f /\ f \in Filters
    BY FiltersOf DEF Calls
  <1>2. /\ query' = [query EXCEPT ![s] = f] /\ waiting' = Append(waiting, call)
        /\ UNCHANGED <<up, conn, open, missed, refused>>
    BY DEF StartSubscription, fates
  <1>3. waiting \in Seq(Calls) /\ Len(waiting) \in Nat
    BY LenProperties DEF SubInv, SubTypes
  <1>4. /\ waiting' \in Seq(Calls) /\ Len(waiting') = Len(waiting) + 1
        /\ waiting'[Len(waiting) + 1] = call
        /\ \A i \in 1 .. Len(waiting) : waiting'[i] = waiting[i] /\ waiting[i].sub \in Subs
    BY <1>1, <1>2, <1>3, AppendProperties, ElementOfSeq DEF Calls
  <1>5. \A u \in Subs : query'[u] = (IF u = s THEN f ELSE query[u])
    BY <1>2 DEF SubInv, SubTypes
  <1>6. SubTypes'
    BY <1>1, <1>2, <1>4, <1>5 DEF SubInv, SubTypes
  <1>7. call = [sub |-> s, filter |-> query'[s]]
    BY <1>5
  <1> HIDE DEF call
  <1>8. EndsWithQuery'
    <2> SUFFICES ASSUME NEW i \in 1 .. Len(waiting')
                 PROVE  \E j \in i .. Len(waiting') :
                           waiting'[j] = [sub |-> waiting'[i].sub, filter |-> query'[waiting'[i].sub]]
      BY DEF EndsWithQuery
    <2>1. CASE waiting'[i].sub = s
      <3>1. Len(waiting) + 1 \in i .. Len(waiting')
        BY <1>3, <1>4
      <3> QED BY <1>4, <1>7, <2>1, <3>1
    <2>2. CASE waiting'[i].sub # s
      <3>1. i \in 1 .. Len(waiting)
        BY <1>1, <1>3, <1>4, <2>2
      <3>2. PICK j \in i .. Len(waiting) :
               waiting[j] = [sub |-> waiting[i].sub, filter |-> query[waiting[i].sub]]
        BY <3>1 DEF SubInv, EndsWithQuery
      <3>3. j \in 1 .. Len(waiting) /\ j \in i .. Len(waiting')
        BY <1>3, <1>4, <3>1, <3>2
      <3> QED BY <1>4, <1>5, <2>2, <3>1, <3>2, <3>3
    <2> QED BY <2>1, <2>2
  <1>9. QueriesAreServed'
    <2> SUFFICES ASSUME NEW u \in Subs, query'[u] # None
                 PROVE  \/ IsIn(open, u)' \/ IsIn(waiting, u)' \/ u \in missed' \/ Crowded(u)'
      BY DEF QueriesAreServed
    <2>1. CASE u = s
      <3>1. Len(waiting) + 1 \in DOMAIN waiting'
        BY <1>3, <1>4, LenProperties
      <3> QED BY <1>4, <1>7, <2>1, <3>1 DEF IsIn
    <2>2. CASE u # s
      <3>1. query'[u] = query[u]
        BY <1>5, <2>2
      <3>2. IsIn(open, u) \/ IsIn(waiting, u) \/ u \in missed \/ Crowded(u)
        BY <3>1 DEF SubInv, QueriesAreServed
      <3>3. CASE IsIn(waiting, u)
        <4>1. DOMAIN waiting = 1 .. Len(waiting) /\ DOMAIN waiting' = 1 .. Len(waiting')
          BY <1>3, <1>4, LenProperties
        <4>2. PICK i \in 1 .. Len(waiting) : waiting[i] = [sub |-> u, filter |-> query[u]]
          BY <3>3, <4>1 DEF IsIn
        <4>3. i \in DOMAIN waiting' /\ waiting'[i] = waiting[i]
          BY <1>3, <1>4, <4>1
        <4> QED BY <3>1, <4>2, <4>3 DEF IsIn
      <3>4. CASE IsIn(open, u) \/ u \in missed \/ Crowded(u)
        BY <1>2, <3>1, <3>4 DEF IsIn, Crowded
      <3> QED BY <3>2, <3>3, <3>4
    <2> QED BY <2>1, <2>2
  <1>10. OpenNeedsConn'
    BY <1>2 DEF SubInv, OpenNeedsConn
  <1> QED BY <1>6, <1>8, <1>9, <1>10 DEF SubInv

LEMMA ConnectedKeeps ==
  ASSUME SubInv, Connected
  PROVE  SubInv'
  <1> DEFINE call == Head(waiting)
  <1>1. waiting \in Seq(Calls) /\ waiting # <<>> /\ Len(waiting) \in Nat /\ Len(waiting) # 0
    BY LenProperties, EmptySeq DEF SubInv, SubTypes, Connected
  <1>2. /\ call \in Calls /\ call = waiting[1]
        /\ Tail(waiting) \in Seq(Calls) /\ Len(Tail(waiting)) = Len(waiting) - 1
        /\ \A i \in 1 .. Len(Tail(waiting)) : Tail(waiting)[i] = waiting[i + 1]
    BY <1>1, HeadTailProperties
  <1>3. UNCHANGED <<up, query>>
    BY DEF Connected
  <1>4. \/ /\ Len(open) < MaxRequests /\ open' = Append(open, call)
           /\ missed' = missed \ {call.sub} /\ refused' = refused \ {call.sub}
        \/ /\ Len(open) >= MaxRequests /\ UNCHANGED open
           /\ missed' = missed \ {call.sub} /\ refused' = refused \cup {call.sub}
    BY DEF Connected
  <1>5. waiting' = Tail(waiting) /\ conn' = TRUE /\ up
    BY DEF Connected
  <1> HIDE DEF call
  <1>6. call.sub \in Subs
    BY <1>2 DEF Calls
  <1>7. /\ Len(waiting') = Len(waiting) - 1
        /\ \A i \in 1 .. Len(waiting') : i + 1 \in 1 .. Len(waiting) /\ waiting'[i] = waiting[i + 1]
        /\ \A i \in 1 .. Len(waiting) :
              i = 1 \/ (i - 1 \in 1 .. Len(waiting') /\ waiting'[i - 1] = waiting[i])
    BY <1>1, <1>2, <1>5
  <1>8. MaxRequests \in Nat /\ open \in Seq(Calls) /\ Len(open) \in Nat /\ Len(open) <= MaxRequests
    BY BoundsAssumption, LenProperties DEF SubInv, SubTypes
  <1>9. /\ open' \in Seq(Calls) /\ Len(open') <= MaxRequests
        /\ \A i \in 1 .. Len(open) : i \in 1 .. Len(open') /\ open'[i] = open[i]
    <2>1. CASE Len(open) < MaxRequests /\ open' = Append(open, call)
      <3>1. /\ open' \in Seq(Calls) /\ Len(open') = Len(open) + 1
            /\ \A i \in 1 .. Len(open) : open'[i] = open[i]
        BY <1>2, <1>8, <2>1, AppendProperties
      <3> QED BY <1>8, <2>1, <3>1
    <2>2. CASE UNCHANGED open
      BY <1>8, <2>2
    <2> QED BY <1>4, <2>1, <2>2
  <1>10. SubTypes'
    BY <1>2, <1>3, <1>4, <1>5, <1>6, <1>9 DEF SubInv, SubTypes
  <1>11. EndsWithQuery'
    <2> SUFFICES ASSUME NEW i \in 1 .. Len(waiting')
                 PROVE  \E j \in i .. Len(waiting') :
                           waiting'[j] = [sub |-> waiting'[i].sub, filter |-> query'[waiting'[i].sub]]
      BY DEF EndsWithQuery
    <2>1. i + 1 \in 1 .. Len(waiting) /\ waiting'[i] = waiting[i + 1]
      BY <1>7
    <2>2. PICK j \in (i + 1) .. Len(waiting) :
             waiting[j] = [sub |-> waiting[i + 1].sub, filter |-> query[waiting[i + 1].sub]]
      BY <2>1 DEF SubInv, EndsWithQuery
    <2>3. j \in 1 .. Len(waiting) /\ j # 1 /\ j - 1 \in i .. Len(waiting')
      BY <1>1, <1>7, <2>1, <2>2
    <2>4. waiting'[j - 1] = waiting[j]
      BY <1>7, <2>3
    <2> QED BY <1>3, <2>1, <2>2, <2>3, <2>4
  <1>12. QueriesAreServed'
    <2> SUFFICES ASSUME NEW u \in Subs, query'[u] # None
                 PROVE  \/ IsIn(open, u)' \/ IsIn(waiting, u)' \/ u \in missed' \/ Crowded(u)'
      BY DEF QueriesAreServed
    <2>1. query'[u] = query[u]
      BY <1>3
    <2>2. \/ IsIn(open, u) \/ IsIn(waiting, u) \/ u \in missed \/ Crowded(u)
      BY <2>1 DEF SubInv, QueriesAreServed
    <2>3. /\ DOMAIN open = 1 .. Len(open) /\ DOMAIN open' = 1 .. Len(open')
          /\ DOMAIN waiting = 1 .. Len(waiting) /\ DOMAIN waiting' = 1 .. Len(waiting')
      BY <1>1, <1>2, <1>5, <1>8, <1>9, LenProperties
    <2>4. CASE IsIn(open, u)
      <3>1. PICK i \in 1 .. Len(open) : open[i] = [sub |-> u, filter |-> query[u]]
        BY <2>3, <2>4 DEF IsIn
      <3> QED BY <1>9, <2>1, <2>3, <3>1 DEF IsIn
    <2>5. ASSUME NEW i \in 1 .. Len(waiting), waiting[i] = [sub |-> u, filter |-> query[u]]
          PROVE  \/ IsIn(open, u)' \/ IsIn(waiting, u)' \/ u \in missed' \/ Crowded(u)'
      <3>1. CASE i # 1
        <4>1. i - 1 \in DOMAIN waiting' /\ waiting'[i - 1] = waiting[i]
          BY <1>7, <2>3, <3>1
        <4> QED BY <2>1, <2>5, <4>1 DEF IsIn
      <3>2. CASE i = 1 /\ Len(open) < MaxRequests /\ open' = Append(open, call)
        <4>1. open'[Len(open) + 1] = call /\ Len(open') = Len(open) + 1
          BY <1>2, <1>8, <3>2, AppendProperties
        <4>2. Len(open) + 1 \in DOMAIN open'
          BY <1>8, <2>3, <4>1
        <4> QED BY <1>2, <2>1, <2>5, <3>2, <4>1, <4>2 DEF IsIn
      <3>3. CASE i = 1 /\ Len(open) >= MaxRequests /\ UNCHANGED open
                 /\ refused' = refused \cup {call.sub}
        <4>1. u \in refused'
          BY <1>2, <2>5, <3>3
        <4>2. Len(open') = MaxRequests
          BY <1>8, <3>3
        <4> QED BY <4>1, <4>2 DEF Crowded
      <3> QED BY <1>4, <3>1, <3>2, <3>3
    <2>6. CASE IsIn(waiting, u)
      BY <2>3, <2>5, <2>6 DEF IsIn
    <2>7. CASE call.sub = u
      <3>1. 1 \in 1 .. Len(waiting) /\ waiting[1].sub = u
        BY <1>1, <1>2, <2>7
      <3>2. PICK j \in 1 .. Len(waiting) : waiting[j] = [sub |-> u, filter |-> query[u]]
        BY <3>1 DEF SubInv, EndsWithQuery
      <3> QED BY <2>5, <3>2
    <2>8. CASE call.sub # u /\ (u \in missed \/ Crowded(u))
      <3>1. CASE u \in missed
        BY <1>4, <2>8, <3>1
      <3>2. CASE Crowded(u)
        <4>1. u \in refused' /\ UNCHANGED open
          BY <1>4, <1>8, <2>8, <3>2 DEF Crowded
        <4> QED BY <3>2, <4>1 DEF Crowded
      <3> QED BY <2>8, <3>1, <3>2
    <2> QED BY <2>2, <2>4, <2>6, <2>7, <2>8
  <1>13. OpenNeedsConn'
    BY <1>3, <1>5 DEF OpenNeedsConn
  <1> QED BY <1>10, <1>11, <1>12, <1>13 DEF SubInv

\* A connection that fails takes what waits, and one that is lost what is open
\* or was refused: what the record of a query rests on is missed then.
LEMMA LossKeeps ==
  ASSUME SubInv, ConnectFails \/ Disconnect
  PROVE  SubInv'
  <1>1. /\ waiting \in Seq(Calls) /\ open \in Seq(Calls)
        /\ SubsOf(waiting) \subseteq Subs /\ SubsOf(open) \subseteq Subs
    BY SubsOfRange DEF SubInv, SubTypes
  <1>2. UNCHANGED <<up, query>>
    BY DEF ConnectFails, Disconnect
  <1>3. \A s : IsIn(open, s) => s \in SubsOf(open)
    BY DEF IsIn, SubsOf
  <1>4. \A s : IsIn(waiting, s) => s \in SubsOf(waiting)
    BY DEF IsIn, SubsOf
  <1>5. <<>> \in Seq(Calls) /\ Len(<<>>) = 0 /\ MaxRequests >= 0
    BY EmptySeq, BoundsAssumption
  <1>6. CASE ConnectFails
    <2>1. /\ waiting' = <<>> /\ missed' = missed \cup SubsOf(waiting)
          /\ UNCHANGED <<conn, open, refused>>
      BY <1>6 DEF ConnectFails
    <2>2. SubTypes'
      BY <1>1, <1>2, <1>5, <2>1 DEF SubInv, SubTypes
    <2>3. EndsWithQuery'
      BY <1>5, <2>1 DEF EndsWithQuery
    <2>4. QueriesAreServed'
      BY <1>2, <1>4, <2>1 DEF SubInv, QueriesAreServed, IsIn, Crowded
    <2> QED BY <1>2, <2>1, <2>2, <2>3, <2>4 DEF SubInv, OpenNeedsConn
  <1>7. CASE Disconnect
    <2>1. /\ conn' = FALSE /\ open' = <<>> /\ refused' = {} /\ UNCHANGED waiting
          /\ missed' = missed \cup refused \cup SubsOf(open)
      BY <1>7 DEF Disconnect
    <2>2. SubTypes'
      BY <1>1, <1>2, <1>5, <2>1 DEF SubInv, SubTypes
    <2>3. EndsWithQuery'
      BY <1>2, <2>1 DEF SubInv, EndsWithQuery
    <2>4. QueriesAreServed'
      BY <1>2, <1>3, <2>1 DEF SubInv, QueriesAreServed, IsIn, Crowded
    <2> QED BY <2>1, <2>2, <2>3, <2>4 DEF SubInv, OpenNeedsConn
  <1> QED BY <1>6, <1>7

\* The process starts with one call, for the messages.
LEMMA StartedIs ==
  ASSUME query' = [Nothing EXCEPT !["message"] = "all"], open' = <<>>, refused' = {},
         waiting' = <<[sub |-> "message", filter |-> "all"]>>, missed' \in SUBSET Subs,
         OpenNeedsConn'
  PROVE  SubInv'
  <1> DEFINE call == [sub |-> "message", filter |-> "all"]
  <1>1. "message" \in Subs /\ "all" \in FilterOf["message"] /\ "all" \in Filters
    BY FiltersOf DEF Subs
  <1>2. call \in Calls /\ call.sub = "message" /\ call.filter = "all"
    BY <1>1 DEF Calls
  <1>3. \A s \in Subs : query'[s] = (IF s = "message" THEN "all" ELSE None)
    BY <1>1 DEF Nothing
  <1>4. call = [sub |-> "message", filter |-> query'["message"]]
    BY <1>1, <1>3
  <1> HIDE DEF call
  <1>5. /\ waiting' \in Seq(Calls) /\ Len(waiting') = 1 /\ waiting'[1] = call
        /\ DOMAIN waiting' = {1}
    BY <1>2 DEF call
  <1>6. <<>> \in Seq(Calls) /\ Len(<<>>) = 0 /\ MaxRequests >= 0
    BY EmptySeq, BoundsAssumption
  <1>7. SubTypes'
    BY <1>1, <1>3, <1>5, <1>6 DEF SubTypes, Nothing
  <1>8. EndsWithQuery'
    <2> SUFFICES ASSUME NEW i \in 1 .. Len(waiting')
                 PROVE  \E j \in i .. Len(waiting') :
                           waiting'[j] = [sub |-> waiting'[i].sub, filter |-> query'[waiting'[i].sub]]
      BY DEF EndsWithQuery
    <2>1. i = 1 /\ i \in i .. Len(waiting')
      BY <1>5
    <2> QED BY <1>2, <1>4, <1>5, <2>1
  <1>9. QueriesAreServed'
    BY <1>3, <1>4, <1>5 DEF QueriesAreServed, IsIn
  <1> QED BY <1>7, <1>8, <1>9 DEF SubInv

LEMMA SubStepKeeps ==
  TypeInv /\ SubInv /\ [Next]_vars => SubInv'
  <1> SUFFICES ASSUME TypeInv, SubInv, [Next]_vars PROVE SubInv'
    OBVIOUS
  <1>1. ASSUME UNCHANGED <<up, subs>> PROVE SubInv'
    BY <1>1
    DEF SubInv, SubTypes, EndsWithQuery, QueriesAreServed, IsIn, Crowded, OpenNeedsConn, subs, fates
  <1>2. CASE StoreStep \/ UNCHANGED vars
    BY <1>1, <1>2 DEF StoreStep, Receive, OpenNotification, Expire, Flush, Persist, vars
  <1>3. ASSUME NEW a \in Areas, MoveMap(a) PROVE SubInv'
    <2>1. "map" \in Subs /\ a \in FilterOf["map"]
      BY FiltersOf DEF Subs
    <2> QED BY <1>3, <2>1, StartKeeps DEF MoveMap
  <1>4. CASE Connected
    BY <1>4, ConnectedKeeps
  <1>5. CASE ConnectFails \/ Disconnect
    BY <1>5, LossKeeps
  <1>6. CASE SubscribeToUserProfiles
    <2>1. CASE StartSubscription("author", StoredAuthors) /\ UNCHANGED <<up, fates>>
      <3>1. "author" \in Subs /\ StoredAuthors \in FilterOf["author"]
        BY FiltersOf, EventFields DEF Subs, StoredAuthors, TypeInv, StoreTypes
      <3> QED BY <2>1, <3>1, StartKeeps
    <2>2. CASE UNCHANGED <<up, subs>>
      BY <1>1, <2>2
    <2> QED BY <1>6, <2>1, <2>2 DEF SubscribeToUserProfiles, subs
  <1>7. CASE Kill
    <2>1. /\ query' = Nothing /\ waiting' = <<>> /\ open' = <<>> /\ missed' = {} /\ refused' = {}
          /\ conn' = FALSE
      BY <1>7 DEF Kill
    <2>2. <<>> \in Seq(Calls) /\ Len(<<>>) = 0 /\ MaxRequests >= 0
      BY EmptySeq, BoundsAssumption
    <2>3. SubTypes'
      BY <2>1, <2>2 DEF SubTypes, Nothing
    <2>4. EndsWithQuery' /\ QueriesAreServed' /\ OpenNeedsConn'
      BY <2>1, <2>2 DEF EndsWithQuery, QueriesAreServed, OpenNeedsConn, Nothing
    <2> QED BY <2>3, <2>4 DEF SubInv
  <1>8. CASE Launch
    <2>1. open' = <<>> /\ refused' = {} /\ OpenNeedsConn' /\ missed' \in SUBSET Subs
      BY <1>8 DEF Launch, SubInv, SubTypes, OpenNeedsConn, fates
    <2> QED BY <1>8, <2>1, StartedIs DEF Launch
  <1> QED
    BY <1>2, <1>3, <1>4, <1>5, <1>6, <1>7, <1>8 DEF Next, SubscriptionStep, ConnectEnds

----------------------------------------------------------------------------
(* The authors *)

LEMMA AuthorStepKeeps ==
  TypeInv /\ AuthorsAreCovered /\ [Next]_vars => AuthorsAreCovered'
  <1> SUFFICES ASSUME TypeInv, AuthorsAreCovered, [Next]_vars PROVE AuthorsAreCovered'
    OBVIOUS
  <1>1. ASSUME UNCHANGED <<alive, timer, query>>, store' \subseteq store PROVE AuthorsAreCovered'
    BY <1>1 DEF AuthorsAreCovered, StoredAuthors
  <1>2. ASSUME NEW e \in Events, Receive(e) \/ OpenNotification(e) PROVE AuthorsAreCovered'
    BY <1>2 DEF Receive, OpenNotification, AddEvent, AuthorsAreCovered
  <1>3. ASSUME NEW e \in Events, Expire(e) PROVE AuthorsAreCovered'
    BY <1>1, <1>3 DEF Expire, subs
  <1>4. CASE Flush \/ Persist \/ Connected \/ ConnectFails \/ Disconnect \/ UNCHANGED vars
    BY <1>1, <1>4 DEF Flush, Persist, Connected, ConnectFails, Disconnect, data, subs, vars
  <1>5. ASSUME NEW a \in Areas, MoveMap(a) PROVE AuthorsAreCovered'
    <2>1. query'["author"] = query["author"] /\ UNCHANGED <<alive, timer, store>>
      BY <1>5 DEF MoveMap, StartSubscription, TypeInv, SubTypes, Subs, data
    <2> QED BY <2>1 DEF AuthorsAreCovered, StoredAuthors
  <1>6. CASE SubscribeToUserProfiles
    <2>1. UNCHANGED store
      BY <1>6 DEF SubscribeToUserProfiles, data
    <2>2. CASE ~alive'
      BY <2>2 DEF AuthorsAreCovered
    <2>3. CASE StoredAuthors \subseteq AuthorsIn(query["author"]) /\ UNCHANGED query
      BY <2>1, <2>3 DEF AuthorsAreCovered, StoredAuthors, AuthorsIn
    <2>4. CASE StartSubscription("author", StoredAuthors)
      <3>1. query'["author"] = StoredAuthors
        BY <2>4 DEF StartSubscription, TypeInv, SubTypes, Subs
      <3> QED BY <2>1, <3>1 DEF AuthorsAreCovered, StoredAuthors
    <2> QED BY <1>6, <2>2, <2>3, <2>4 DEF SubscribeToUserProfiles
  <1>7. CASE Kill
    BY <1>7 DEF Kill, AuthorsAreCovered
  <1>8. CASE Launch
    <2>1. query'["author"] = None
      BY <1>8 DEF Launch, Nothing, Subs
    <2> QED BY <2>1 DEF AuthorsAreCovered
  <1> QED
    BY <1>2, <1>3, <1>4, <1>5, <1>6, <1>7, <1>8
    DEF Next, StoreStep, SubscriptionStep, ConnectEnds

----------------------------------------------------------------------------
(* The theorems *)

LEMMA ProcessStepKeeps ==
  ProcessTypes /\ [Next]_vars => ProcessTypes'
  <1> SUFFICES ASSUME ProcessTypes, [Next]_vars PROVE ProcessTypes'
    OBVIOUS
  <1>1. CASE StoreStep \/ UNCHANGED vars
    BY <1>1
    DEF ProcessTypes, StoreStep, Receive, OpenNotification, Expire, Flush, Persist, AddEvent,
        subs, vars
  <1>2. CASE SubscriptionStep
    <2>1. ASSUME NEW a \in Areas, MoveMap(a) PROVE ProcessTypes'
      BY <2>1 DEF ProcessTypes, MoveMap, StartSubscription
    <2>2. CASE ConnectEnds \/ Disconnect
      BY <2>2 DEF ProcessTypes, ConnectEnds, Connected, ConnectFails, Disconnect
    <2>3. CASE SubscribeToUserProfiles
      BY <2>3 DEF ProcessTypes, SubscribeToUserProfiles, StartSubscription, subs
    <2> QED BY <1>2, <2>1, <2>2, <2>3 DEF SubscriptionStep
  <1>3. CASE Kill
    <2>1. kills' \in Nat
      BY <1>3 DEF ProcessTypes, Kill
    <2>2. /\ up' \in BOOLEAN /\ alive' \in BOOLEAN
          /\ timer' \in BOOLEAN /\ conn' \in BOOLEAN
      BY <1>3 DEF Kill
    <2> QED BY <2>1, <2>2 DEF ProcessTypes
  <1>4. CASE Launch
    BY <1>4 DEF ProcessTypes, Launch
  <1> QED BY <1>1, <1>2, <1>3, <1>4 DEF Next

IInv == TypeInv /\ SubInv /\ StoreHoldsNewest /\ AuthorsAreCovered

LEMMA InitIInv == Init => IInv
  <1> SUFFICES ASSUME Init PROVE IInv
    OBVIOUS
  <1> DEFINE call == [sub |-> "message", filter |-> "all"]
  <1>1. "message" \in Subs /\ "all" \in FilterOf["message"] /\ "all" \in Filters
    BY FiltersOf DEF Subs
  <1>2. call \in Calls /\ call.sub = "message" /\ call.filter = "all"
    BY <1>1 DEF Calls
  <1>3. \A s \in Subs : query[s] = (IF s = "message" THEN "all" ELSE None)
    BY <1>1 DEF Init, Nothing
  <1>4. call = [sub |-> "message", filter |-> query["message"]]
    BY <1>1, <1>3
  <1>5. waiting = <<call>>
    BY DEF Init
  <1> HIDE DEF call
  <1>6. waiting \in Seq(Calls) /\ Len(waiting) = 1 /\ waiting[1] = call /\ DOMAIN waiting = {1}
    BY <1>2, <1>5
  <1>7. <<>> \in Seq(Calls) /\ Len(<<>>) = 0 /\ MaxRequests >= 0
    BY EmptySeq, BoundsAssumption
  <1>8. SubTypes
    BY <1>1, <1>3, <1>6, <1>7 DEF Init, SubTypes, Nothing
  <1>9. EndsWithQuery
    <2> SUFFICES ASSUME NEW i \in 1 .. Len(waiting)
                 PROVE  \E j \in i .. Len(waiting) :
                           waiting[j] = [sub |-> waiting[i].sub, filter |-> query[waiting[i].sub]]
      BY DEF EndsWithQuery
    <2>1. i = 1 /\ i \in i .. Len(waiting)
      BY <1>6
    <2> QED BY <1>2, <1>4, <1>6, <2>1
  <1>10. QueriesAreServed
    BY <1>3, <1>4, <1>6 DEF QueriesAreServed, IsIn
  <1>11. StoreTypes /\ StoreHoldsNewest
    BY DEF Init, StoreTypes, OnePerAddress, StoreHoldsNewest
  <1>12. ProcessTypes /\ OpenNeedsConn /\ AuthorsAreCovered
    BY <1>3 DEF Init, ProcessTypes, OpenNeedsConn, AuthorsAreCovered, StoredAuthors
  <1> QED BY <1>8, <1>9, <1>10, <1>11, <1>12 DEF IInv, TypeInv, SubInv

LEMMA StepIInv == IInv /\ [Next]_vars => IInv'
  BY StoreStepKeeps, SubStepKeeps, AuthorStepKeeps, ProcessStepKeeps DEF IInv, TypeInv, SubInv

LEMMA AlwaysIInv == Spec => []IInv
  BY InitIInv, StepIInv, PTL DEF Spec

\* The variables keep to their types and the store, like its copy on the disk,
\* has one event of an address.
THEOREM StoreAndSubscriptionsTyped == Spec => []TypeOK
  <1>1. IInv => TypeOK
    BY TypeInvImplies DEF IInv
  <1> QED BY <1>1, AlwaysIInv, PTL

\* Whatever the order in which versions of an event arrive, the store has the
\* newest one heard (addEventToState).
THEOREM NewestIsStored == Spec => []StoreHoldsNewest
  <1>1. IInv => StoreHoldsNewest
    BY DEF IInv
  <1> QED BY <1>1, AlwaysIInv, PTL

\* The query recorded for an id is served or waits for the connection, unless
\* its connection failed or was lost, or the relay refused it and is still full
\* (startSubscriptionSagaEffect, subscribeToFilter).
THEOREM LastQueryIsServed == Spec => []QueriesAreServed
  <1>1. IInv => QueriesAreServed
    BY DEF IInv, SubInv
  <1> QED BY <1>1, AlwaysIInv, PTL

\* When the saga rests, the query it recorded for the authors, once there is one,
\* names the author of every stored event (subscribeToUserProfilesSagaEffect).
THEOREM AuthorsAreRecorded == Spec => []AuthorsAreCovered
  <1>1. IInv => AuthorsAreCovered
    BY DEF IInv
  <1> QED BY <1>1, AlwaysIInv, PTL
=============================================================================
