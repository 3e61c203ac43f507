--------------------- MODULE NotificationDaemon_proofs ---------------------
(***************************************************************************)
(* The notification daemon keeps its ledger of pushes and, without a       *)
(* crash, loses no note but those whose author Trustroots does not confirm *)
(* when asked: for any users, requests, notes and failures.  Under the     *)
(* monitor it is the same daemon, and what the monitor finds and tells is  *)
(* true of it.                                                             *)
(***************************************************************************)
EXTENDS MonitoredDaemon, SequenceTheorems, TLAPS

(* The queue is a log: what is in it stays where it is. *)
QueueKept ==
    /\ queue \in Seq(Items) /\ queue' \in Seq(Items)
    /\ Len(queue) \in Nat /\ Len(queue') \in Nat /\ Len(queue') >= Len(queue)
    /\ \A i \in 1 .. Len(queue) : i \in 1 .. Len(queue') /\ queue'[i] = queue[i]

LEMMA AppendKeepsQueue ==
  ASSUME queue \in Seq(Items), NEW item \in Items, queue' = Append(queue, item)
  PROVE  QueueKept /\ Len(queue') = Len(queue) + 1 /\ queue'[Len(queue) + 1] = item
  <1>1. Len(queue) \in Nat
    BY LenProperties
  <1> QED BY <1>1, AppendProperties DEF QueueKept

LEMMA QueueStays ==
  ASSUME queue \in Seq(Items), UNCHANGED queue
  PROVE  QueueKept
  BY LenProperties DEF QueueKept

LEMMA QueuedIs ==
  ASSUME queue \in Seq(Items), NEW item
  PROVE  Queued(item) <=> \E i \in 1 .. Len(queue) : queue[i] = item
  BY LenProperties DEF Queued

----------------------------------------------------------------------------
(* The types *)

LEMMA TypeInit == Init => TypeOK
  <1> SUFFICES ASSUME Init PROVE TypeOK
    OBVIOUS
  <1>1. queue \in Seq(Items) /\ done \in 0 .. Len(queue)
    BY EmptySeq DEF Init
  <1> QED BY <1>1 DEF Init, TypeOK, Stages

Busy == {"applying", "answering", "resolving", "pushing", "settled"}

(* The part of TypeOK about the queue and the stage. *)
QueueOK ==
    /\ queue \in Seq(Items) /\ done \in 0 .. Len(queue)
    /\ daemon \in Stages
    /\ daemon \in Busy => done < Len(queue)
    /\ daemon = "applying" => Current \in Requests
    /\ daemon = "answering" => Current \in Pings
    /\ daemon \in {"resolving", "pushing"} => Current \in Notes

RestOK ==
    /\ stored \in [Users -> Requests \cup {None}] /\ storing \subseteq Requests
    /\ pongs \subseteq Pings
    /\ loads \subseteq Requests
    /\ filtersOf \in [Users -> SUBSET Filters] /\ tokensOf \in [Users -> SUBSET Tokens]
    /\ named \subseteq Authors
    /\ pairs \subseteq Pairs /\ outbox \subseteq Calls
    /\ pushed \subseteq Pushes /\ confirmed \subseteq Authors
    /\ attempted \subseteq Told /\ dropped \cup unanswered \subseteq Nat \ {0}
    /\ crashes \in Nat

LEMMA TypeParts == TypeOK <=> QueueOK /\ RestOK
  BY DEF TypeOK, QueueOK, RestOK, Busy

\* What is at hand stays at hand while the queue grows.
LEMMA CurrentStays ==
  ASSUME QueueOK, QueueKept, UNCHANGED done, done < Len(queue)
  PROVE  done + 1 \in 1 .. Len(queue) /\ Current' = Current /\ done' < Len(queue')
  BY DEF QueueOK, QueueKept, Current

LEMMA CurrentIsItem ==
  ASSUME QueueOK, done < Len(queue)
  PROVE  /\ Current \in Items /\ Queued(Current) /\ done + 1 \in 1 .. Len(queue)
         /\ done + 1 \in Nat \ {0}
  <1>1. done + 1 \in 1 .. Len(queue) /\ done + 1 \in Nat \ {0}
    BY LenProperties DEF QueueOK
  <1> QED BY <1>1, ElementOfSeq, QueuedIs DEF QueueOK, Current

LEMMA StageStays ==
  ASSUME QueueOK, QueueKept, UNCHANGED <<done, daemon>>
  PROVE  QueueOK'
  BY CurrentStays DEF QueueOK, QueueKept, Busy

LEMMA QueueOKNext == QueueOK /\ [Next]_daemonVars => QueueOK' /\ QueueKept
  <1> SUFFICES ASSUME QueueOK, [Next]_daemonVars PROVE QueueOK' /\ QueueKept
    OBVIOUS
  <1>0. queue \in Seq(Items) /\ Len(queue) \in Nat /\ done \in Nat /\ done <= Len(queue)
    BY LenProperties DEF QueueOK
  <1>1. CASE \E r \in Requests : PublishRequest(r)
    <2>1. QueueKept /\ UNCHANGED <<done, daemon>>
      BY <1>0, <1>1, AppendKeepsQueue DEF PublishRequest, Items
    <2> QED BY <2>1, StageStays
  <1>2. CASE \E item \in Items : Post(item)
    <2>1. QueueKept /\ UNCHANGED <<done, daemon>>
      BY <1>0, <1>2, AppendKeepsQueue DEF Post, Items
    <2> QED BY <2>1, StageStays
  <1>3. CASE UNCHANGED <<queue, done, daemon>>
    BY <1>0, <1>3, QueueStays, StageStays
  <1>4. CASE /\ UNCHANGED <<queue, done>>
             /\ daemon' \in {"down", "loading", "starting", "idle"}
    <2>1. QueueKept
      BY <1>0, <1>4, QueueStays
    <2> QED BY <1>4, <2>1 DEF QueueOK, Busy, Stages
  <1>5. CASE UNCHANGED <<queue, done>> /\ daemon' = "settled" /\ done < Len(queue)
    <2>1. QueueKept
      BY <1>0, <1>5, QueueStays
    <2> QED BY <1>5, <2>1 DEF QueueOK, Busy, Stages
  <1>6. CASE DeliverRequest \/ DeliverPing
    <2>1. QueueKept
      BY <1>0, <1>6, QueueStays DEF DeliverRequest, DeliverPing
    <2> QED
      BY <1>6, <2>1
      DEF DeliverRequest, DeliverPing, Goto, QueueOK, Busy, Stages, Current
  <1>7. CASE DeliverEvent
    <2>1. QueueKept /\ UNCHANGED <<queue, done>> /\ done < Len(queue)
      BY <1>0, <1>7, QueueStays DEF DeliverEvent
    <2>2. CASE daemon' = "settled"
      BY <1>5, <2>1, <2>2
    <2>3. CASE daemon' = "resolving" /\ pairs' # {}
      <3>1. Current \in Notes
        BY <1>7, <2>3, ConstantsAssumption DEF DeliverEvent
      <3> QED BY <2>1, <2>3, <3>1 DEF QueueOK, Busy, Stages, Current
    <2> QED BY <1>7, <2>2, <2>3 DEF DeliverEvent, Goto
  <1>8. CASE PingAnswered
    <2>1. QueueKept
      BY <1>0, <1>8, AppendKeepsQueue DEF PingAnswered, Items
    <2>2. UNCHANGED done /\ daemon' \in {"idle", "settled"} /\ done < Len(queue)
      BY <1>8 DEF PingAnswered, Goto, QueueOK, Busy
    <2> QED BY <2>1, <2>2 DEF QueueOK, QueueKept, Busy, Stages
  <1>9. CASE \E title \in BOOLEAN : daemon = "resolving" /\ Notify(title)
    <2>1. QueueKept /\ UNCHANGED <<queue, done>> /\ daemon' = "pushing"
      BY <1>0, <1>9, QueueStays DEF Notify, Goto
    <2> QED BY <1>9, <2>1 DEF QueueOK, Busy, Stages, Current
  <1>10. CASE Ack
    <2>1. QueueKept
      BY <1>0, <1>10, QueueStays DEF Ack
    <2>2. done' = done + 1 /\ daemon' = "idle" /\ done < Len(queue) /\ UNCHANGED queue
      BY <1>10 DEF Ack, Goto, QueueOK, Busy
    <2> QED BY <1>0, <2>1, <2>2 DEF QueueOK, Busy, Stages
  <1>11. CASE StartLoading \/ LoadApplied \/ EndOfStored \/ StartConsuming \/ StartFails \/ Crash
    BY <1>3, <1>4, <1>11
    DEF StartLoading, LoadApplied, EndOfStored, StartConsuming, StartFails, Crash, Forget, Goto
  <1>12. CASE ApplyRequest \/ PingFails \/ ResolveMismatch \/ ResolveUnanswered \/ ResolveFails \/ PushEnds
    <2>1. done < Len(queue)
      BY <1>12
      DEF ApplyRequest, PingFails, ResolveMismatch, ResolveUnanswered, ResolveFails, PushEnds,
        QueueOK, Busy
    <2> QED
      BY <1>3, <1>4, <1>5, <1>12, <2>1
      DEF ApplyRequest, PingFails, ResolveMismatch, ResolveUnanswered, ResolveFails, PushEnds, Goto
  <1>13. CASE ResolveCached \/ ResolveConfirmed \/ ResolveNobody
    BY <1>9, <1>13 DEF ResolveCached, ResolveConfirmed, ResolveNobody
  <1>14. CASE \E r \in Requests : StoreRequest(r)
    BY <1>3, <1>14 DEF StoreRequest
  <1>15. CASE UNCHANGED daemonVars
    BY <1>3, <1>15 DEF daemonVars
  <1>16. Notes \subseteq Items /\ Pings \subseteq Items
    BY DEF Items
  <1> QED
    BY <1>1, <1>2, <1>6, <1>7, <1>8, <1>10, <1>11, <1>12, <1>13, <1>14, <1>15, <1>16
    DEF Next, Daemon, Publish, Resolved

LEMMA RememberTypes ==
  ASSUME filtersOf \in [Users -> SUBSET Filters], tokensOf \in [Users -> SUBSET Tokens],
         NEW r \in Requests, Remember(r)
  PROVE  filtersOf' \in [Users -> SUBSET Filters] /\ tokensOf' \in [Users -> SUBSET Tokens]
  BY ConstantsAssumption DEF Remember, memory

LEMMA NotifyTypes ==
  ASSUME QueueOK, RestOK, NEW title \in BOOLEAN, Notify(title),
         named' \subseteq Authors, confirmed' \subseteq Authors
  PROVE  RestOK'
  <1>1. outbox' \subseteq Calls
    <2>1. \A p \in pairs : p[1] \in Users /\ p[2] \in Filters
      BY DEF RestOK, Pairs
    <2> QED BY <2>1 DEF Notify, RestOK, Calls
  <1> QED BY <1>1 DEF Notify, RestOK, relay, memory

LEMMA RestOKNext == QueueOK /\ RestOK /\ [Next]_daemonVars => RestOK'
  <1> SUFFICES ASSUME QueueOK, RestOK, [Next]_daemonVars PROVE RestOK'
    OBVIOUS
  <1>1. CASE \E r \in Requests : PublishRequest(r) \/ StoreRequest(r)
    BY <1>1, ConstantsAssumption
    DEF PublishRequest, StoreRequest, RestOK, relay, memory, work, history
  <1>2. CASE (\E item \in Notes \cup Pings : Post(item)) \/ EndOfStored \/ StartConsuming
    BY <1>2 DEF Post, EndOfStored, StartConsuming, RestOK, relay, memory, work, history
  <1>3. CASE StartLoading
    BY <1>3 DEF StartLoading, RestOK, relay, memory, work, history
  <1>4. CASE LoadApplied
    <2>1. /\ filtersOf' \in [Users -> SUBSET Filters] /\ tokensOf' \in [Users -> SUBSET Tokens]
          /\ loads' \subseteq Requests
      BY <1>4, RememberTypes DEF LoadApplied, RestOK
    <2> QED BY <1>4, <2>1 DEF LoadApplied, RestOK, relay, work, history
  <1>5. CASE StartFails \/ Crash
    <2>1. crashes' \in Nat
      BY <1>5 DEF StartFails, Crash, RestOK
    <2>2. Forget
      BY <1>5 DEF StartFails, Crash
    <2> QED BY <2>1, <2>2 DEF Forget, RestOK, relay, history
  <1>6. CASE ApplyRequest
    <2>1. filtersOf' \in [Users -> SUBSET Filters] /\ tokensOf' \in [Users -> SUBSET Tokens]
      BY <1>6, RememberTypes DEF ApplyRequest, RestOK, QueueOK
    <2> QED BY <1>6, <2>1 DEF ApplyRequest, RestOK, relay, work, history
  <1>7. CASE DeliverRequest \/ DeliverPing \/ PingFails
    BY <1>7 DEF DeliverRequest, DeliverPing, PingFails, RestOK, relay, memory, work, history
  <1>8. CASE PingAnswered
    BY <1>8 DEF PingAnswered, RestOK, QueueOK, relay, memory, work, history
  <1>9. CASE DeliverEvent
    <2>1. pairs' \subseteq Pairs
      BY <1>9 DEF DeliverEvent, Pairs
    <2> QED BY <1>9, <2>1 DEF DeliverEvent, RestOK, relay, memory, history
  <1>10. CASE ResolveCached \/ ResolveConfirmed \/ ResolveNobody
    <2>1. AuthorOf[Current] \in Authors
      BY <1>10, ConstantsAssumption
      DEF ResolveCached, ResolveConfirmed, ResolveNobody, QueueOK
    <2>2. named' \subseteq Authors /\ confirmed' \subseteq Authors
      BY <1>10, <2>1 DEF ResolveCached, ResolveConfirmed, ResolveNobody, RestOK
    <2> QED
      BY <1>10, <2>2, NotifyTypes DEF ResolveCached, ResolveConfirmed, ResolveNobody
  <1>11. CASE ResolveMismatch \/ ResolveUnanswered
    <2>1. done + 1 \in Nat \ {0}
      BY <1>11, CurrentIsItem DEF ResolveMismatch, ResolveUnanswered, QueueOK, Busy
    <2> QED BY <1>11, <2>1 DEF ResolveMismatch, ResolveUnanswered, RestOK, relay, memory, work
  <1>12. CASE ResolveFails \/ Ack
    BY <1>12 DEF ResolveFails, Ack, RestOK, relay, memory, work, history
  <1>13. CASE PushEnds
    <2>1. PICK c \in outbox : \E reached \in SUBSET c.tokens :
             /\ outbox' = outbox \ {c}
             /\ attempted' = attempted \cup {<<done + 1, c.user, t>> : t \in c.tokens}
             /\ pushed' = pushed \cup
                   {[note |-> Current, user |-> c.user, filter |-> c.filter,
                     token |-> t, named |-> c.named] : t \in reached}
      BY <1>13 DEF PushEnds
    <2>2. /\ c.user \in Users /\ c.filter \in Filters /\ c.tokens \subseteq Tokens
          /\ c.named \in BOOLEAN
      BY <2>1 DEF RestOK, Calls
    <2>3. Current \in Notes /\ done + 1 \in Nat \ {0}
      BY <1>13, CurrentIsItem DEF PushEnds, QueueOK, Busy
    <2>4. attempted' \subseteq Told
      BY <2>1, <2>2, <2>3 DEF RestOK, Told
    <2>5. pushed' \subseteq Pushes
      BY <2>1, <2>2, <2>3 DEF RestOK, Pushes
    <2> QED BY <1>13, <2>1, <2>4, <2>5 DEF PushEnds, RestOK, relay, memory
  <1>14. CASE UNCHANGED daemonVars
    BY <1>14 DEF daemonVars, RestOK, relay, memory, work, history
  <1> QED
    BY <1>1, <1>2, <1>3, <1>4, <1>5, <1>6, <1>7, <1>8, <1>9, <1>10, <1>11, <1>12, <1>13, <1>14
    DEF Next, Daemon, Publish, Resolved

LEMMA TypeStep == TypeOK /\ [Next]_daemonVars => TypeOK' /\ QueueKept
  BY TypeParts, QueueOKNext, RestOKNext DEF TypeOK, QueueOK, RestOK, Busy, Current

----------------------------------------------------------------------------
(* The ledger: what is in the memory comes from requests that were published *)

Asked(u, f) == \E r \in Requests : Queued(r) /\ UserOf[r] = u /\ f \in Asks[r]

Gave(u, t) == \E r \in Requests : Queued(r) /\ UserOf[r] = u /\ t \in Gives[r]

RequestsQueued ==
    /\ \A u \in Users : stored[u] # None => Queued(stored[u])
    /\ \A r \in storing \cup loads : Queued(r)

MemoryAllowed ==
    \A u \in Users :
        (\A f \in filtersOf[u] : Asked(u, f)) /\ (\A t \in tokensOf[u] : Gave(u, t))

PairsAllowed ==
    daemon \in {"resolving", "pushing"} =>
        \A p \in pairs : Asked(p[1], p[2]) /\ <<Current, p[2]>> \in Matches

CallAllowed(c) ==
    /\ Asked(c.user, c.filter)
    /\ \A t \in c.tokens : Gave(c.user, t)
    /\ <<Current, c.filter>> \in Matches
    /\ c.named => AuthorOf[Current] \in confirmed

CallsAllowed == daemon = "pushing" => \A c \in outbox : CallAllowed(c)

LedgerInv ==
    /\ RequestsQueued /\ MemoryAllowed /\ PairsAllowed /\ CallsAllowed
    /\ named \subseteq confirmed

LEMMA LedgerInvInit == Init => LedgerInv
  BY DEF Init, LedgerInv, RequestsQueued, MemoryAllowed, PairsAllowed, CallsAllowed

LEMMA QueuedStays ==
  ASSUME QueueKept
  PROVE  /\ \A item : Queued(item) => Queued(item)'
         /\ \A u, f : Asked(u, f) => Asked(u, f)'
         /\ \A u, t : Gave(u, t) => Gave(u, t)'
  <1>1. ASSUME NEW item, Queued(item) PROVE Queued(item)'
    <2>1. DOMAIN queue = 1 .. Len(queue) /\ DOMAIN queue' = 1 .. Len(queue')
      BY LenProperties DEF QueueKept
    <2> QED BY <1>1, <2>1 DEF Queued, QueueKept
  <1> QED BY <1>1 DEF Asked, Gave

LEMMA RequestsQueuedNext ==
  ASSUME TypeOK, RequestsQueued, QueueKept, [Next]_daemonVars
  PROVE  RequestsQueued'
  <1>1. ASSUME UNCHANGED stored \/ \E r \in storing : UserOf[r] \in Users /\ stored' = [stored EXCEPT ![UserOf[r]] = r],
               \A r \in storing' \cup loads' : Queued(r)'
        PROVE  RequestsQueued'
    BY <1>1, QueuedStays DEF RequestsQueued, TypeOK
  <1>2. ASSUME UNCHANGED relay, loads' \subseteq loads PROVE RequestsQueued'
    BY <1>2, QueuedStays DEF RequestsQueued, relay
  <1>3. CASE \E r \in Requests : PublishRequest(r)
    <2>1. PICK r \in Requests : PublishRequest(r)
      BY <1>3
    <2>2. Queued(r)'
      <3>1. queue' \in Seq(Items) /\ queue'[Len(queue) + 1] = r /\ Len(queue') = Len(queue) + 1
        BY <2>1, AppendKeepsQueue DEF PublishRequest, Items, TypeOK
      <3>2. Len(queue) + 1 \in DOMAIN queue'
        BY <3>1, LenProperties DEF TypeOK
      <3> QED BY <3>1, <3>2 DEF Queued
    <2>3. UNCHANGED <<stored, loads>> /\ storing' = storing \cup {r}
      BY <2>1 DEF PublishRequest
    <2> QED BY <1>1, <2>2, <2>3, QueuedStays DEF RequestsQueued
  <1>4. CASE \E r \in Requests : StoreRequest(r)
    <2>1. PICK r \in Requests : StoreRequest(r)
      BY <1>4
    <2>2. /\ r \in storing /\ UserOf[r] \in Users /\ storing' \subseteq storing /\ loads' = loads
          /\ stored' = [stored EXCEPT ![UserOf[r]] = r] \/ UNCHANGED stored
      BY <2>1, ConstantsAssumption DEF StoreRequest
    <2> QED BY <1>1, <2>2, QueuedStays DEF RequestsQueued
  <1>5. CASE StartLoading
    <2>1. loads' = {stored[u] : u \in Users} \ {None} /\ UNCHANGED <<stored, storing>>
      BY <1>5 DEF StartLoading, relay
    <2> QED BY <1>1, <2>1, QueuedStays DEF RequestsQueued
  <1>6. CASE Daemon /\ ~StartLoading
    <2>1. UNCHANGED relay /\ loads' \subseteq loads
      BY <1>6
      DEF Daemon, LoadApplied, EndOfStored, StartConsuming, StartFails, Crash, Forget,
          DeliverRequest, ApplyRequest, DeliverPing, PingAnswered, PingFails, DeliverEvent,
          Resolved, ResolveCached, ResolveConfirmed, ResolveNobody, ResolveMismatch,
          ResolveUnanswered, Notify, ResolveFails, PushEnds, Ack
    <2> QED BY <1>2, <2>1
  <1>7. CASE (\E item \in Notes \cup Pings : Post(item)) \/ UNCHANGED daemonVars
    BY <1>2, <1>7 DEF Post, daemonVars
  <1> QED BY <1>3, <1>4, <1>5, <1>6, <1>7 DEF Next, Publish

LEMMA RememberAllowed ==
  ASSUME TypeOK, MemoryAllowed, QueueKept, NEW r \in Requests, Queued(r), Remember(r)
  PROVE  MemoryAllowed'
  <1>1. CASE UNCHANGED memory
    BY <1>1, QueuedStays DEF MemoryAllowed, memory
  <1>2. CASE r \in Readable
    <2> DEFINE u == UserOf[r]
    <2>1. u \in Users
      BY ConstantsAssumption
    <2>2. /\ \A w \in Users : filtersOf'[w] = (IF w = u THEN Asks[r] ELSE filtersOf[w])
          /\ \A w \in Users :
                tokensOf'[w] = tokensOf[w] \/ (w = u /\ tokensOf'[w] = Gives[r])
      BY <1>2, <2>1 DEF Remember, TypeOK
    <2>3. /\ \A f \in Asks[r] : Asked(u, f)'
          /\ \A t \in Gives[r] : Gave(u, t)'
      BY QueuedStays DEF Asked, Gave
    <2> HIDE DEF u
    <2> QED BY <2>2, <2>3, QueuedStays DEF MemoryAllowed
  <1> QED BY <1>1, <1>2 DEF Remember

LEMMA MemoryAllowedNext ==
  ASSUME TypeOK, MemoryAllowed, RequestsQueued, QueueKept, [Next]_daemonVars
  PROVE  MemoryAllowed'
  <1>1. CASE UNCHANGED memory
    BY <1>1, QueuedStays DEF MemoryAllowed, memory
  <1>2. CASE LoadApplied
    BY <1>2, RememberAllowed DEF LoadApplied, RequestsQueued, TypeOK
  <1>3. CASE ApplyRequest
    <2>1. Current \in Requests /\ Queued(Current)
      BY <1>3, TypeParts, CurrentIsItem DEF ApplyRequest, QueueOK, Busy
    <2> QED BY <1>3, <2>1, RememberAllowed DEF ApplyRequest
  <1>4. CASE StartFails \/ Crash
    BY <1>4 DEF StartFails, Crash, Forget, MemoryAllowed
  <1>5. CASE Daemon /\ ~LoadApplied /\ ~ApplyRequest /\ ~StartFails /\ ~Crash
    BY <1>1, <1>5
    DEF Daemon, StartLoading, EndOfStored, StartConsuming, DeliverRequest, DeliverPing,
        PingAnswered, PingFails, DeliverEvent, Resolved, ResolveCached, ResolveConfirmed,
        ResolveNobody, ResolveMismatch, ResolveUnanswered, Notify, ResolveFails, PushEnds, Ack
  <1>6. CASE Publish \/ (\E p \in Pings : Post(p)) \/ UNCHANGED daemonVars
    BY <1>1, <1>6 DEF Publish, PublishRequest, StoreRequest, Post, daemonVars
  <1> QED BY <1>2, <1>3, <1>4, <1>5, <1>6 DEF Next


LEMMA CurrentKept ==
  ASSUME TypeOK, QueueKept, UNCHANGED done, daemon \in Busy
  PROVE  Current' = Current
  BY TypeParts, CurrentStays DEF QueueOK

LEMMA CallStays ==
  ASSUME QueueKept, Current' = Current, confirmed \subseteq confirmed', NEW c, CallAllowed(c)
  PROVE  CallAllowed(c)'
  BY QueuedStays DEF CallAllowed

\* What happens outside the handler leaves its work alone.
LEMMA WorkStays ==
  ASSUME TypeOK, LedgerInv, QueueKept, UNCHANGED <<done, daemon, named, work, confirmed>>
  PROVE  PairsAllowed' /\ CallsAllowed' /\ named' \subseteq confirmed'
  <1>1. daemon \in {"resolving", "pushing"} => Current' = Current
    BY CurrentKept DEF Busy
  <1>2. PairsAllowed'
    BY <1>1, QueuedStays DEF LedgerInv, PairsAllowed, work
  <1>3. CallsAllowed'
    BY <1>1, CallStays DEF LedgerInv, CallsAllowed, work
  <1> QED BY <1>2, <1>3 DEF LedgerInv

\* The handler looks up filters and tokens in the memory.
LEMMA NotifyAllowed ==
  ASSUME TypeOK, LedgerInv, QueueKept, daemon = "resolving",
         NEW title \in BOOLEAN, Notify(title), confirmed \subseteq confirmed',
         title => AuthorOf[Current] \in confirmed'
  PROVE  PairsAllowed' /\ CallsAllowed'
  <1>1. /\ UNCHANGED <<pairs, done>>
        /\ outbox' \subseteq {[user |-> p[1], filter |-> p[2], tokens |-> tokensOf[p[1]],
                               named |-> title] : p \in pairs}
    BY DEF Notify
  <1>2. Current' = Current
    BY <1>1, CurrentKept DEF Busy
  <1>3. \A p \in pairs : Asked(p[1], p[2])' /\ <<Current, p[2]>> \in Matches
    BY QueuedStays DEF LedgerInv, PairsAllowed
  <1>4. \A p \in pairs : \A t \in tokensOf[p[1]] : Gave(p[1], t)'
    BY QueuedStays DEF LedgerInv, MemoryAllowed, TypeOK, Pairs
  <1>5. CallsAllowed'
    BY <1>1, <1>2, <1>3, <1>4 DEF CallsAllowed, CallAllowed
  <1>6. PairsAllowed'
    BY <1>1, <1>2, <1>3 DEF PairsAllowed
  <1> QED BY <1>5, <1>6

LEMMA WorkAllowedNext ==
  ASSUME TypeOK, LedgerInv, QueueKept, [Next]_daemonVars
  PROVE  PairsAllowed' /\ CallsAllowed' /\ named' \subseteq confirmed'
  <1>1. CASE Publish \/ (\E p \in Pings : Post(p)) \/ LoadApplied \/ UNCHANGED daemonVars
    BY <1>1, WorkStays
    DEF Publish, PublishRequest, StoreRequest, Post, LoadApplied, daemonVars, history
  <1>2. ASSUME daemon' \notin {"resolving", "pushing"}, confirmed \subseteq confirmed',
               named' \subseteq named
        PROVE  PairsAllowed' /\ CallsAllowed' /\ named' \subseteq confirmed'
    BY <1>2 DEF PairsAllowed, CallsAllowed, LedgerInv
  <1>3. CASE StartLoading \/ EndOfStored \/ StartConsuming \/ StartFails \/ Crash
             \/ DeliverRequest \/ ApplyRequest \/ DeliverPing \/ PingAnswered \/ PingFails
             \/ ResolveMismatch \/ ResolveUnanswered \/ ResolveFails \/ Ack
    <2>1. /\ daemon' \notin {"resolving", "pushing"} /\ confirmed \subseteq confirmed'
          /\ named' \subseteq named
      BY <1>3
      DEF StartLoading, EndOfStored, StartConsuming, StartFails, Crash, Forget, DeliverRequest,
          ApplyRequest, DeliverPing, PingAnswered, PingFails, ResolveMismatch, ResolveUnanswered,
          ResolveFails, Ack, Goto, history
    <2> QED BY <1>2, <2>1
  <1>4. CASE DeliverEvent
    <2>1. /\ UNCHANGED <<done, queue, confirmed, named>> /\ daemon' # "pushing"
          /\ pairs' = {p \in Users \X Filters :
                         p[2] \in filtersOf[p[1]] /\ <<Current, p[2]>> \in Matches}
      BY <1>4 DEF DeliverEvent, Goto, history
    <2>2. Current' = Current
      BY <2>1 DEF Current
    <2>3. \A p \in pairs' : Asked(p[1], p[2])' /\ <<Current, p[2]>> \in Matches
      BY <2>1, QueuedStays DEF LedgerInv, MemoryAllowed
    <2> QED BY <2>1, <2>2, <2>3 DEF PairsAllowed, CallsAllowed, LedgerInv
  <1>5. CASE ResolveCached
    <2>1. Notify(TRUE) /\ daemon = "resolving" /\ UNCHANGED <<named, confirmed>>
          /\ AuthorOf[Current] \in confirmed
      BY <1>5 DEF ResolveCached, LedgerInv
    <2> QED BY <2>1, NotifyAllowed DEF LedgerInv
  <1>6. CASE ResolveConfirmed
    <2>1. /\ Notify(TRUE) /\ daemon = "resolving"
          /\ named' = named \cup {AuthorOf[Current]}
          /\ confirmed' = confirmed \cup {AuthorOf[Current]}
      BY <1>6 DEF ResolveConfirmed
    <2> QED BY <2>1, NotifyAllowed DEF LedgerInv
  <1>7. CASE ResolveNobody
    <2>1. Notify(FALSE) /\ daemon = "resolving" /\ UNCHANGED <<named, confirmed>>
      BY <1>7 DEF ResolveNobody
    <2> QED BY <2>1, NotifyAllowed DEF LedgerInv
  <1>8. CASE PushEnds
    <2>1. /\ UNCHANGED <<done, daemon, pairs, named, confirmed>> /\ outbox' \subseteq outbox
          /\ daemon = "pushing"
      BY <1>8 DEF PushEnds
    <2>2. Current' = Current
      BY <2>1, CurrentKept DEF Busy
    <2>3. \A c \in outbox' : CallAllowed(c)'
      BY <2>1, <2>2, CallStays DEF LedgerInv, CallsAllowed
    <2>4. PairsAllowed'
      BY <2>1, <2>2, QueuedStays DEF LedgerInv, PairsAllowed
    <2> QED BY <2>1, <2>3, <2>4 DEF CallsAllowed, LedgerInv
  <1> QED
    BY <1>1, <1>3, <1>4, <1>5, <1>6, <1>7, <1>8 DEF Next, Daemon, Resolved

LEMMA LedgerInvNext == TypeOK /\ LedgerInv /\ [Next]_daemonVars => LedgerInv'
  BY TypeStep, RequestsQueuedNext, MemoryAllowedNext, WorkAllowedNext DEF LedgerInv

----------------------------------------------------------------------------
(* The refinement *)

Published == {r \in Requests : Queued(r)}

LEMMA LedgerInit == Init => Ledger!Init
  BY DEF Init, Ledger!Init, Queued

LEMMA PublishedStays ==
  ASSUME TypeOK, QueueKept, NEW item, item \notin Requests,
         UNCHANGED queue \/ queue' = Append(queue, item)
  PROVE  Published' = Published
  <1>1. CASE UNCHANGED queue
    BY <1>1 DEF Published, Queued
  <1>2. CASE queue' = Append(queue, item)
    <2>1. /\ Len(queue') = Len(queue) + 1 /\ Len(queue) \in Nat
          /\ \A i \in 1 .. Len(queue') :
                queue'[i] = (IF i = Len(queue) + 1 THEN item ELSE queue[i])
          /\ DOMAIN queue = 1 .. Len(queue) /\ DOMAIN queue' = 1 .. Len(queue')
      BY <1>2, AppendProperties, LenProperties DEF QueueKept
    <2>2. \A r \in Requests : Queued(r)' => Queued(r)
      BY <2>1 DEF Queued
    <2> QED BY <2>2, QueuedStays DEF Published
  <1> QED BY <1>1, <1>2

LEMMA RequestStep ==
  ASSUME TypeOK, QueueKept, NEW r \in Requests, PublishRequest(r)
  PROVE  Published' = Published \cup {r} /\ UNCHANGED <<confirmed, pushed>>
  <1>1. queue' = Append(queue, r) /\ UNCHANGED <<confirmed, pushed>>
    BY DEF PublishRequest, history
  <1>2. /\ Len(queue') = Len(queue) + 1 /\ Len(queue) \in Nat
        /\ \A i \in 1 .. Len(queue') :
              queue'[i] = (IF i = Len(queue) + 1 THEN r ELSE queue[i])
        /\ DOMAIN queue = 1 .. Len(queue) /\ DOMAIN queue' = 1 .. Len(queue')
    BY <1>1, AppendProperties, LenProperties DEF QueueKept
  <1>3. \A q \in Requests : Queued(q)' => Queued(q) \/ q = r
    BY <1>2 DEF Queued
  <1>4. Queued(r)'
    BY <1>2 DEF Queued
  <1> QED BY <1>1, <1>3, <1>4, QueuedStays DEF Published

\* Each push of a call that is under way is one the ledger allows.
LEMMA PushStep ==
  ASSUME TypeOK, LedgerInv, PushEnds
  PROVE  /\ pushed \subseteq pushed' /\ UNCHANGED <<queue, confirmed>>
         /\ \A push \in pushed' \ pushed :
              /\ \E r \in Published : UserOf[r] = push.user /\ push.filter \in Asks[r]
              /\ \E r \in Published : UserOf[r] = push.user /\ push.token \in Gives[r]
              /\ <<push.note, push.filter>> \in Matches
              /\ push.named => AuthorOf[push.note] \in confirmed
  <1>1. PICK c \in outbox : \E reached \in SUBSET c.tokens :
           pushed' = pushed \cup
              {[note |-> Current, user |-> c.user, filter |-> c.filter,
                token |-> t, named |-> c.named] : t \in reached}
    BY DEF PushEnds
  <1>2. CallAllowed(c)
    BY DEF PushEnds, LedgerInv, CallsAllowed
  <1>3. UNCHANGED <<queue, confirmed>>
    BY DEF PushEnds
  <1>4. \A push \in pushed' \ pushed :
          /\ push.note = Current /\ push.user = c.user /\ push.filter = c.filter
          /\ push.token \in c.tokens /\ push.named = c.named
    BY <1>1
  <1>5. \A t \in c.tokens : Gave(c.user, t)
    BY <1>2 DEF CallAllowed
  <1> QED BY <1>1, <1>2, <1>3, <1>4, <1>5 DEF CallAllowed, Asked, Gave, Published

LEMMA LedgerStep ==
  ASSUME TypeOK, LedgerInv, QueueKept, [Next]_daemonVars
  PROVE  [Ledger!Next]_<<Published, confirmed, pushed>>
  <1>1. CASE \E r \in Requests : PublishRequest(r)
    BY <1>1, RequestStep DEF Published, Ledger!Next, Ledger!Request
  <1>2. CASE PushEnds
    <2>1. Ledger!Push
      BY <1>2, PushStep DEF Ledger!Push, Ledger!Allowed, Published, Queued
    <2> QED BY <2>1 DEF Ledger!Next
  <1>3. CASE ResolveConfirmed
    <2>1. Current \in Notes
      BY <1>3 DEF ResolveConfirmed, TypeOK
    <2>2. /\ confirmed' = confirmed \cup {AuthorOf[Current]}
          /\ UNCHANGED <<queue, pushed>>
      BY <1>3 DEF ResolveConfirmed, Notify
    <2>3. Published' = Published
      BY <2>2 DEF Published, Queued
    <2>4. Ledger!Confirm
      BY <2>1, <2>2, <2>3 DEF Ledger!Confirm, Published
    <2> QED BY <2>4 DEF Ledger!Next
  <1>4. ASSUME UNCHANGED <<queue, confirmed, pushed>>
        PROVE  UNCHANGED <<Published, confirmed, pushed>>
    BY <1>4 DEF Published, Queued
  <1>5. CASE Daemon /\ ~PushEnds /\ ~ResolveConfirmed /\ ~PingAnswered
    <2>1. UNCHANGED <<queue, confirmed, pushed>>
      BY <1>5
      DEF Daemon, StartLoading, LoadApplied, EndOfStored, StartConsuming, StartFails, Crash,
          Forget, DeliverRequest, ApplyRequest, DeliverPing, PingFails, DeliverEvent,
          Resolved, ResolveCached, ResolveNobody, ResolveMismatch, ResolveUnanswered, Notify,
          ResolveFails, Ack, history
    <2> QED BY <1>4, <2>1
  <1>6. CASE PingAnswered
    <2>1. /\ UNCHANGED <<confirmed, pushed>> /\ queue' = Append(queue, Pong)
          /\ Pong \notin Requests
      BY <1>6, DistinctAssumption DEF PingAnswered, history
    <2> QED BY <2>1, PublishedStays
  <1>7. ASSUME NEW item \in Notes \cup Pings, Post(item)
        PROVE  UNCHANGED <<Published, confirmed, pushed>>
    <2>1. /\ UNCHANGED <<confirmed, pushed>> /\ queue' = Append(queue, item)
          /\ item \notin Requests
      BY <1>7, DistinctAssumption DEF Post, history
    <2> QED BY <2>1, PublishedStays
  <1>8. CASE (\E r \in Requests : StoreRequest(r)) \/ UNCHANGED daemonVars
    BY <1>4, <1>8 DEF StoreRequest, daemonVars, history
  <1> QED
    BY <1>1, <1>2, <1>3, <1>5, <1>6, <1>7, <1>8 DEF Next, Publish


----------------------------------------------------------------------------
(* AskedNotesWereAttempted: while nothing crashed, a request that was        *)
(* settled is in the memory, and a note it asks for goes the whole way       *)

Sole(r) == \A q \in Requests : Queued(q) /\ UserOf[q] = UserOf[r] => q = r

InMemory(r) ==
    /\ filtersOf[UserOf[r]] = Asks[r]
    /\ Gives[r] # {} => tokensOf[UserOf[r]] = Gives[r]

IsSettled(j) == j <= done \/ (daemon = "settled" /\ j = done + 1)

Remembered ==
    crashes = 0 =>
        \A j \in 1 .. Len(queue) :
            IsSettled(j) /\ queue[j] \in Readable /\ Sole(queue[j]) => InMemory(queue[j])

Starting == {"down", "loading", "starting"}

NothingBefore == crashes = 0 /\ daemon \in Starting => done = 0

Owed(i, j) ==
    /\ crashes = 0 /\ j < i
    /\ queue[i] \in Notes /\ queue[j] \in Readable /\ Sole(queue[j])
    /\ \E f \in Asks[queue[j]] : <<queue[i], f>> \in Matches

Called(i, j) == \A t \in Gives[queue[j]] : <<i, UserOf[queue[j]], t>> \in attempted

DoneNotes ==
    \A i \in 1 .. done : \A j \in 1 .. done : Owed(i, j) /\ i \notin dropped \cup unanswered => Called(i, j)

NoteAtHand ==
    \A j \in 1 .. done :
        Owed(done + 1, j) =>
            /\ daemon = "resolving" =>
                  \E f \in Asks[queue[j]] : <<UserOf[queue[j]], f>> \in pairs
            /\ daemon = "pushing" =>
                  \A t \in Gives[queue[j]] :
                     \/ <<done + 1, UserOf[queue[j]], t>> \in attempted
                     \/ \E c \in outbox : c.user = UserOf[queue[j]] /\ t \in c.tokens
            /\ daemon = "settled" => done + 1 \in dropped \cup unanswered \/ Called(done + 1, j)

AttemptInv == Remembered /\ NothingBefore /\ DoneNotes /\ NoteAtHand

LEMMA AttemptInvInit == Init => AttemptInv
  <1> SUFFICES ASSUME Init PROVE AttemptInv
    OBVIOUS
  <1>1. Len(queue) = 0 /\ done = 0
    BY DEF Init
  <1> QED BY <1>1 DEF AttemptInv, Remembered, NothingBefore, DoneNotes, NoteAtHand

LEMMA AttemptInvImplies == TypeOK /\ AttemptInv => AskedNotesWereAttempted
  <1> SUFFICES ASSUME TypeOK, AttemptInv, NEW i \in 1 .. done, NEW j \in 1 .. done,
                      /\ crashes = 0 /\ j < i
                      /\ queue[i] \in Notes /\ i \notin dropped \cup unanswered
                      /\ queue[j] \in Readable
                      /\ \A r \in Requests : Queued(r) /\ UserOf[r] = UserOf[queue[j]] => r = queue[j]
                      /\ \E f \in Asks[queue[j]] : <<queue[i], f>> \in Matches
               PROVE  \A t \in Gives[queue[j]] : <<i, UserOf[queue[j]], t>> \in attempted
    BY DEF AskedNotesWereAttempted
  <1>1. Owed(i, j)
    BY DEF Owed, Sole
  <1> QED BY <1>1 DEF AttemptInv, DoneNotes, Called

LEMMA CrashesGrow ==
  ASSUME TypeOK, [Next]_daemonVars
  PROVE  /\ crashes' = 0 => crashes = 0
         /\ attempted \subseteq attempted' /\ dropped \cup unanswered \subseteq (dropped \cup unanswered)'
  <1>1. crashes \in Nat
    BY DEF TypeOK
  <1> QED
    BY <1>1
    DEF Next, Daemon, Publish, PublishRequest, StoreRequest, Post, StartLoading, LoadApplied,
        EndOfStored, StartConsuming, StartFails, Crash, Forget, DeliverRequest, ApplyRequest,
        DeliverPing, PingAnswered, PingFails, DeliverEvent, Resolved, ResolveCached,
        ResolveConfirmed, ResolveNobody, ResolveMismatch, ResolveUnanswered, Notify, ResolveFails,
        PushEnds, Ack, history, daemonVars

LEMMA OwedBefore ==
  ASSUME QueueKept, crashes' = 0 => crashes = 0,
         NEW i \in 1 .. Len(queue), NEW j \in 1 .. Len(queue)
  PROVE  /\ queue'[i] = queue[i] /\ queue'[j] = queue[j]
         /\ Sole(queue[j])' => Sole(queue[j])
         /\ Owed(i, j)' => Owed(i, j)
         /\ attempted \subseteq attempted' /\ Called(i, j) => Called(i, j)'
  <1>1. queue'[i] = queue[i] /\ queue'[j] = queue[j]
    BY DEF QueueKept
  <1>2. Sole(queue[j])' => Sole(queue[j])
    BY <1>1, QueuedStays DEF Sole
  <1> QED BY <1>1, <1>2 DEF Owed, Called

LEMMA RememberKeeps ==
  ASSUME TypeOK, NEW r \in Requests, Queued(r), Remember(r),
         NEW q \in Readable, Sole(q), InMemory(q)
  PROVE  InMemory(q)'
  <1>1. q \in Requests /\ UserOf[q] \in Users /\ UserOf[r] \in Users
    BY ConstantsAssumption
  <1>2. CASE UserOf[q] = UserOf[r]
    <2>1. q = r
      BY <1>2 DEF Sole
    <2> QED BY <1>1, <2>1 DEF Remember, InMemory, TypeOK, memory
  <1>3. CASE UserOf[q] # UserOf[r]
    BY <1>1, <1>3 DEF Remember, InMemory, TypeOK, memory
  <1> QED BY <1>2, <1>3

LEMMA RememberDone ==
  ASSUME TypeOK, NEW r \in Readable, Remember(r)
  PROVE  InMemory(r)'
  BY ConstantsAssumption DEF Remember, InMemory, TypeOK

LEMMA RememberedNext ==
  ASSUME TypeOK, RequestsQueued, AttemptInv, QueueKept, [Next]_daemonVars
  PROVE  Remembered' /\ NothingBefore'
  <1>0. /\ crashes' = 0 => crashes = 0
        /\ done \in Nat /\ done <= Len(queue) /\ Len(queue) \in Nat
        /\ daemon \in Busy => done < Len(queue)
    BY CrashesGrow, LenProperties DEF TypeOK, Busy
  <1>1. ASSUME UNCHANGED memory,
               \A j \in 1 .. Len(queue') : IsSettled(j)' =>
                   j \in 1 .. Len(queue) /\ (IsSettled(j) \/ queue[j] \notin Readable)
        PROVE  Remembered'
    BY <1>0, <1>1, OwedBefore
    DEF AttemptInv, Remembered, InMemory, memory
  <1>2. CASE UNCHANGED <<memory, done, daemon>>
    <2>1. Remembered'
      BY <1>0, <1>1, <1>2 DEF IsSettled, Busy
    <2> QED BY <1>0, <1>2, <2>1 DEF AttemptInv, NothingBefore
  <1>3. CASE UNCHANGED <<memory, done>> /\ daemon \notin Starting /\ daemon' \notin Starting \cup {"settled"}
    <2>1. Remembered'
      BY <1>0, <1>1, <1>3 DEF IsSettled
    <2> QED BY <1>3, <2>1 DEF NothingBefore
  <1>4. CASE UNCHANGED <<memory, done>> /\ daemon \in Busy /\ daemon' = "settled"
             /\ Current \notin Requests
    <2>1. Remembered'
      BY <1>0, <1>1, <1>4, ConstantsAssumption DEF IsSettled, Current
    <2> QED BY <1>4, <2>1 DEF NothingBefore, Starting
  <1>5. CASE UNCHANGED <<memory, done>> /\ daemon \in Starting
             /\ daemon' \in Starting \cup {"idle"}
    <2>1. Remembered'
      BY <1>0, <1>1, <1>5 DEF IsSettled, Starting
    <2> QED BY <1>0, <1>5, <2>1 DEF AttemptInv, NothingBefore
  <1>6. CASE StartFails
    <2>1. crashes' = 0 => done' = 0
      BY <1>6 DEF StartFails, Forget, AttemptInv, NothingBefore, Starting
    <2>2. daemon' = "down"
      BY <1>6 DEF StartFails, Forget, Goto
    <2> QED BY <2>1, <2>2 DEF Remembered, NothingBefore, IsSettled
  <1>7. CASE Crash
    <2>1. crashes' # 0
      BY <1>7 DEF Crash, TypeOK
    <2> QED BY <2>1 DEF Remembered, NothingBefore
  <1>8. CASE LoadApplied
    <2>1. PICK r \in loads : Remember(r)
      BY <1>8 DEF LoadApplied
    <2>2. r \in Requests /\ Queued(r) /\ UNCHANGED <<done, daemon, queue>>
      BY <1>8, <2>1 DEF LoadApplied, RequestsQueued, TypeOK
    <2>3. Remembered'
      BY <1>0, <2>1, <2>2, OwedBefore, RememberKeeps
      DEF AttemptInv, Remembered, IsSettled
    <2> QED BY <1>0, <2>2, <2>3 DEF AttemptInv, NothingBefore
  <1>9. CASE ApplyRequest
    <2>1. /\ Remember(Current) /\ Current \in Requests /\ Queued(Current)
          /\ daemon' = "settled" /\ UNCHANGED <<done, queue>>
          /\ done + 1 \in 1 .. Len(queue) /\ daemon = "applying"
      BY <1>9, TypeParts, CurrentIsItem DEF ApplyRequest, Goto, QueueOK, Busy
    <2>2. ASSUME crashes' = 0, NEW j \in 1 .. Len(queue), j <= done,
                 queue[j] \in Readable, Sole(queue[j])
          PROVE  InMemory(queue[j])'
      BY <1>0, <2>1, <2>2, RememberKeeps DEF AttemptInv, Remembered, IsSettled
    <2>3. Current \in Readable => InMemory(Current)'
      <3>1. \A r \in Readable : Remember(r) => InMemory(r)'
        BY RememberDone
      <3>2. Current' = Current
        BY <2>1 DEF Current
      <3> QED BY <2>1, <3>1, <3>2
    <2>4. Remembered'
      BY <1>0, <2>1, <2>2, <2>3, OwedBefore DEF Remembered, IsSettled, Current
    <2> QED BY <2>1, <2>4 DEF NothingBefore, Starting
  <1>10. CASE Ack
    <2>1. /\ daemon \in {"settled", "pushing"} /\ done' = done + 1 /\ daemon' = "idle"
          /\ UNCHANGED <<memory, queue>>
      BY <1>10 DEF Ack, Goto
    <2>2. daemon = "pushing" => queue[done + 1] \notin Readable
      BY ConstantsAssumption, DistinctAssumption DEF TypeOK, Current
    <2>3. Remembered'
      BY <1>0, <1>1, <2>1, <2>2 DEF IsSettled
    <2> QED BY <2>1, <2>3 DEF NothingBefore, Starting
  <1>11. CASE Publish \/ (\E p \in Pings : Post(p)) \/ PushEnds \/ UNCHANGED daemonVars
    BY <1>2, <1>11 DEF Publish, PublishRequest, StoreRequest, Post, PushEnds, daemonVars
  <1>12. CASE StartLoading \/ EndOfStored \/ StartConsuming
    BY <1>5, <1>12 DEF StartLoading, EndOfStored, StartConsuming, Goto, Starting
  <1>13. CASE DeliverRequest \/ DeliverPing \/ PingFails \/ ResolveCached \/ ResolveConfirmed
              \/ ResolveNobody \/ ResolveFails
    BY <1>3, <1>13
    DEF DeliverRequest, DeliverPing, PingFails, ResolveCached, ResolveConfirmed, ResolveNobody,
        Notify, ResolveFails, Goto, Starting
  <1>14. CASE ResolveMismatch \/ ResolveUnanswered
    <2>1. Current \notin Requests
      BY <1>14, DistinctAssumption DEF ResolveMismatch, ResolveUnanswered, TypeOK
    <2> QED BY <1>4, <1>14, <2>1 DEF ResolveMismatch, ResolveUnanswered, Goto, Busy
  <1>15. CASE PingAnswered
    <2>1. /\ UNCHANGED <<memory, done>> /\ daemon = "answering"
          /\ daemon' \in {"settled", "idle"} /\ Current \notin Requests
      BY <1>15, DistinctAssumption DEF PingAnswered, TypeOK, Goto
    <2> QED BY <1>3, <1>4, <2>1 DEF Busy, Starting
  <1>16. CASE DeliverEvent
    <2>1. /\ UNCHANGED <<memory, done>> /\ daemon = "idle" /\ done < Len(queue)
          /\ daemon' \in {"settled", "resolving"} /\ Current \notin Requests
      BY <1>16 DEF DeliverEvent, Goto
    <2>2. Remembered'
      BY <1>0, <1>1, <2>1, ConstantsAssumption DEF IsSettled, Current
    <2> QED BY <2>1, <2>2 DEF NothingBefore, Starting
  <1> QED
    BY <1>6, <1>7, <1>8, <1>9, <1>10, <1>11, <1>12, <1>13, <1>14, <1>15, <1>16
    DEF Next, Daemon, Resolved


Handling == {"resolving", "pushing", "settled"}

\* A note that is owed finds the request in the memory.
LEMMA OwedIsRemembered ==
  ASSUME TypeOK, AttemptInv, NEW j \in 1 .. done, Owed(done + 1, j)
  PROVE  /\ InMemory(queue[j]) /\ queue[j] \in Requests /\ UserOf[queue[j]] \in Users
         /\ Asks[queue[j]] \subseteq Filters
  <1>1. j \in 1 .. Len(queue) /\ IsSettled(j)
    BY LenProperties DEF TypeOK, IsSettled
  <1> QED BY <1>1, ConstantsAssumption DEF AttemptInv, Remembered, Owed

LEMMA DeliverEventOwed ==
  ASSUME TypeOK, AttemptInv, DeliverEvent, NEW j \in 1 .. done, Owed(done + 1, j)
  PROVE  daemon' = "resolving" /\ \E f \in Asks[queue[j]] : <<UserOf[queue[j]], f>> \in pairs'
  <1>1. PICK f \in Asks[queue[j]] : <<Current, f>> \in Matches
    BY DEF Owed, Current
  <1>2. <<UserOf[queue[j]], f>> \in pairs'
    <2>1. f \in filtersOf[UserOf[queue[j]]] /\ UserOf[queue[j]] \in Users /\ f \in Filters
      BY OwedIsRemembered DEF InMemory
    <2> QED BY <1>1, <2>1 DEF DeliverEvent
  <1> QED BY <1>2 DEF DeliverEvent, Goto

LEMMA NotifyOwed ==
  ASSUME TypeOK, AttemptInv, daemon = "resolving", NEW title, Notify(title),
         NEW j \in 1 .. done, Owed(done + 1, j), NEW t \in Gives[queue[j]]
  PROVE  \E c \in outbox' : c.user = UserOf[queue[j]] /\ t \in c.tokens
  <1>1. PICK f \in Asks[queue[j]] : <<UserOf[queue[j]], f>> \in pairs
    BY DEF AttemptInv, NoteAtHand
  <1> DEFINE u == UserOf[queue[j]]
             call == [user |-> u, filter |-> f, tokens |-> tokensOf[u], named |-> title]
  <1>2. t \in tokensOf[u]
    BY OwedIsRemembered DEF InMemory
  <1>3. call \in {[user |-> p[1], filter |-> p[2], tokens |-> tokensOf[p[1]],
                   named |-> title] : p \in pairs}
    BY <1>1
  <1>4. call \in outbox'
    BY <1>2, <1>3 DEF Notify
  <1> QED BY <1>2, <1>4

LEMMA NoteAtHandNext ==
  ASSUME TypeOK, AttemptInv, QueueKept, [Next]_daemonVars
  PROVE  NoteAtHand'
  <1>0. /\ crashes' = 0 => crashes = 0
        /\ attempted \subseteq attempted' /\ dropped \cup unanswered \subseteq (dropped \cup unanswered)'
        /\ done \in Nat /\ done <= Len(queue) /\ Len(queue) \in Nat
        /\ daemon \in Busy => done < Len(queue)
    BY CrashesGrow, LenProperties DEF TypeOK, Busy
  <1>1. CASE daemon' \notin Handling
    BY <1>1 DEF NoteAtHand, Handling
  <1>2. ASSUME UNCHANGED done, done < Len(queue)
        PROVE  \A j \in 1 .. done' :
                 /\ j \in 1 .. done /\ queue'[j] = queue[j]
                 /\ Owed(done + 1, j)' => Owed(done + 1, j)
                 /\ Called(done + 1, j) => Called(done + 1, j)'
    <2>1. done + 1 \in 1 .. Len(queue) /\ 1 .. done' = 1 .. done
          /\ \A j \in 1 .. done : j \in 1 .. Len(queue)
      BY <1>0, <1>2
    <2>2. \A i, j \in 1 .. Len(queue) :
            /\ queue'[j] = queue[j]
            /\ crashes' = 0 /\ j < i /\ queue'[i] \in Notes /\ queue'[j] \in Readable
               /\ Sole(queue[j])' /\ (\E f \in Asks[queue'[j]] : <<queue'[i], f>> \in Matches)
               => Owed(i, j)
      BY <1>0, OwedBefore DEF Owed
    <2> QED BY <1>0, <1>2, <2>1, <2>2 DEF Owed, Called
  <1>3. CASE UNCHANGED <<done, daemon, pairs, outbox>> /\ daemon \in Handling
    <2>1. done < Len(queue)
      BY <1>0, <1>3 DEF Handling, Busy
    <2>2. SUFFICES ASSUME NEW j \in 1 .. done', Owed(done + 1, j)'
                   PROVE  /\ daemon' = "resolving" =>
                                \E f \in Asks[queue'[j]] : <<UserOf[queue'[j]], f>> \in pairs'
                          /\ daemon' = "pushing" =>
                                \A t \in Gives[queue'[j]] :
                                   \/ <<done' + 1, UserOf[queue'[j]], t>> \in attempted'
                                   \/ \E c \in outbox' :
                                         c.user = UserOf[queue'[j]] /\ t \in c.tokens
                          /\ daemon' = "settled" =>
                                done' + 1 \in (dropped \cup unanswered)' \/ Called(done + 1, j)'
      BY DEF NoteAtHand
    <2>3. /\ j \in 1 .. done /\ queue'[j] = queue[j] /\ Owed(done + 1, j)
          /\ Called(done + 1, j) => Called(done + 1, j)'
      BY <1>2, <1>3, <2>1, <2>2
    <2>4. CASE daemon = "resolving"
      BY <1>3, <2>3, <2>4 DEF AttemptInv, NoteAtHand
    <2>5. CASE daemon = "pushing"
      BY <1>0, <1>3, <2>3, <2>5 DEF AttemptInv, NoteAtHand
    <2>6. CASE daemon = "settled"
      BY <1>0, <1>3, <2>3, <2>6 DEF AttemptInv, NoteAtHand
    <2> QED BY <1>3, <2>4, <2>5, <2>6 DEF Handling
  <1>4. CASE DeliverEvent
    <2>1. UNCHANGED done /\ done < Len(queue)
      BY <1>4 DEF DeliverEvent
    <2> QED BY <1>2, <1>4, <2>1, DeliverEventOwed DEF NoteAtHand
  <1>5. CASE ResolveCached \/ ResolveConfirmed \/ ResolveNobody
    <2>1. PICK title \in BOOLEAN : Notify(title) /\ daemon = "resolving"
      BY <1>5 DEF ResolveCached, ResolveConfirmed, ResolveNobody
    <2>2. UNCHANGED done /\ done < Len(queue) /\ daemon' = "pushing"
      BY <1>0, <2>1 DEF Notify, Goto, Busy
    <2> QED BY <1>2, <2>1, <2>2, NotifyOwed DEF NoteAtHand
  <1>6. CASE PushEnds
    <2>1. UNCHANGED <<done, daemon>> /\ done < Len(queue) /\ daemon = "pushing"
      BY <1>0, <1>6 DEF PushEnds, Busy
    <2>2. PICK c \in outbox :
            /\ outbox' = outbox \ {c}
            /\ attempted' = attempted \cup {<<done + 1, c.user, t>> : t \in c.tokens}
      BY <1>6 DEF PushEnds
    <2> QED BY <1>2, <2>1, <2>2 DEF AttemptInv, NoteAtHand
  <1>7. CASE ResolveMismatch \/ ResolveUnanswered
    <2>1. UNCHANGED done /\ done < Len(queue) /\ daemon' = "settled" /\ done + 1 \in (dropped \cup unanswered)'
      BY <1>0, <1>7 DEF ResolveMismatch, ResolveUnanswered, Goto, Busy
    <2> QED BY <2>1 DEF NoteAtHand
  <1>8. CASE ApplyRequest \/ PingAnswered
    <2>1. UNCHANGED done /\ done < Len(queue) /\ Current \notin Notes
      BY <1>0, <1>8, DistinctAssumption DEF ApplyRequest, PingAnswered, TypeOK, Busy
    <2> QED BY <1>2, <2>1 DEF NoteAtHand, Owed, Current
  <1>9. CASE Publish \/ (\E p \in Pings : Post(p)) \/ LoadApplied \/ UNCHANGED daemonVars
    BY <1>1, <1>3, <1>9
    DEF Publish, PublishRequest, StoreRequest, Post, LoadApplied, daemonVars, work
  <1>10. CASE StartLoading \/ EndOfStored \/ StartConsuming \/ StartFails \/ Crash
              \/ DeliverRequest \/ DeliverPing \/ PingFails \/ ResolveFails \/ Ack
    BY <1>1, <1>10
    DEF StartLoading, EndOfStored, StartConsuming, StartFails, Crash, Forget, DeliverRequest,
        DeliverPing, PingFails, ResolveFails, Ack, Goto, Handling
  <1> QED
    BY <1>4, <1>5, <1>6, <1>7, <1>8, <1>9, <1>10 DEF Next, Daemon, Resolved

LEMMA DoneNotesNext ==
  ASSUME TypeOK, AttemptInv, QueueKept, [Next]_daemonVars
  PROVE  DoneNotes'
  <1>0. /\ crashes' = 0 => crashes = 0
        /\ attempted \subseteq attempted' /\ dropped \cup unanswered \subseteq (dropped \cup unanswered)'
        /\ done \in Nat /\ done <= Len(queue) /\ Len(queue) \in Nat
    BY CrashesGrow, LenProperties DEF TypeOK
  <1>1. \A i, j \in 1 .. Len(queue) :
          /\ Owed(i, j)' => Owed(i, j)
          /\ Called(i, j) => Called(i, j)'
    BY <1>0, OwedBefore
  <1>2. CASE UNCHANGED done
    <2>1. \A i \in 1 .. done' : i \in 1 .. done /\ i \in 1 .. Len(queue)
      BY <1>0, <1>2
    <2> QED BY <1>0, <1>1, <2>1 DEF AttemptInv, DoneNotes
  <1>3. CASE Ack
    <2>1. done' = done + 1 /\ UNCHANGED <<queue, attempted, dropped, unanswered>> /\ done < Len(queue)
      BY <1>3 DEF Ack, history, TypeOK
    <2>2. ASSUME NEW i \in 1 .. done', NEW j \in 1 .. done', Owed(i, j), i \notin dropped \cup unanswered
          PROVE  Called(i, j)
      <3>1. j \in 1 .. done
        BY <1>0, <2>1, <2>2 DEF Owed
      <3>2. CASE i \in 1 .. done
        BY <2>2, <3>1, <3>2 DEF AttemptInv, DoneNotes
      <3>3. CASE i = done + 1
        BY <1>3, <2>2, <3>1, <3>3 DEF Ack, AttemptInv, NoteAtHand, Called
      <3> QED BY <1>0, <2>1, <3>2, <3>3
    <2>3. \A i \in 1 .. done' : i \in 1 .. Len(queue)
      BY <1>0, <2>1
    <2> QED BY <1>1, <2>1, <2>2, <2>3 DEF DoneNotes
  <1>4. Ack \/ UNCHANGED done
    BY DEF Next, Daemon, Publish, PublishRequest, StoreRequest, Post, StartLoading, LoadApplied,
        EndOfStored, StartConsuming, StartFails, Crash, Forget, DeliverRequest, ApplyRequest,
        DeliverPing, PingAnswered, PingFails, DeliverEvent, Resolved, ResolveCached,
        ResolveConfirmed, ResolveNobody, ResolveMismatch, ResolveUnanswered, Notify, ResolveFails,
        PushEnds, daemonVars
  <1> QED BY <1>2, <1>3, <1>4

LEMMA AttemptInvNext ==
  TypeOK /\ LedgerInv /\ AttemptInv /\ [Next]_daemonVars => AttemptInv'
  BY TypeStep, RememberedNext, NoteAtHandNext, DoneNotesNext DEF AttemptInv, LedgerInv

----------------------------------------------------------------------------
(* The theorems *)

IInv == TypeOK /\ LedgerInv /\ AttemptInv

LEMMA AlwaysIInv == Spec => []IInv
  <1>1. Init => IInv
    BY TypeInit, LedgerInvInit, AttemptInvInit DEF IInv
  <1>2. IInv /\ [Next]_daemonVars => IInv'
    BY TypeStep, LedgerInvNext, AttemptInvNext DEF IInv
  <1> QED BY <1>1, <1>2, PTL DEF Spec

\* The daemon is at work on a position of its queue in the stages of a handler,
\* on an item the handler is for.
THEOREM DaemonTypes == Spec => []TypeOK
  <1>1. IInv => TypeOK
    BY DEF IInv
  <1> QED BY <1>1, AlwaysIInv, PTL

\* Whatever fails and however requests and notes interleave, no push leaves but
\* one its owner asked for, with a name only when NIP-05 confirmed it.
THEOREM LedgerIsKept == Spec => KeepsTheLedger
  <1>1. Init => Ledger!Init
    BY LedgerInit
  <1>2. IInv /\ [Next]_daemonVars => [Ledger!Next]_<<Published, confirmed, pushed>>
    BY TypeStep, LedgerStep DEF IInv
  <1>3. [Ledger!Next]_<<Published, confirmed, pushed>>
          = [Ledger!Next]_<<{r \in Requests : Queued(r)}, confirmed, pushed>>
    BY DEF Published
  <1> QED
    BY <1>1, <1>2, <1>3, AlwaysIInv, PTL DEF Spec, KeepsTheLedger, Ledger!Spec, Published

\* Until the daemon crashes, a note reaches the push service for everybody whose
\* request was acknowledged before it, whatever fails on the way but one thing:
\* when Trustroots does not confirm its author's name, because that is false or
\* because trustroots.org does not answer, the note is dropped (rabbit.ts,
\* matching.ts, profiles.ts, getNip5PubKey).
THEOREM AskedNotesReachTheService == Spec => []AskedNotesWereAttempted
  <1>1. IInv => AskedNotesWereAttempted
    BY AttemptInvImplies DEF IInv
  <1> QED BY <1>1, AlwaysIInv, PTL

----------------------------------------------------------------------------
(* Under the monitor *)

(* A round has a ping of its own, and the last attempt decides a check.      *)
RoundOK ==
    /\ Nurse!TypeOK
    /\ monitor = "checking" => ping \in Pings
    /\ \A s \in Services : results[s] = None => attempts[s] < MaxAttempts

(* A ping is answered when it is at the head of the queue, at the earliest,  *)
(* and found answered only when it was.                                      *)
PongsAreDue == \A p \in pongs : \E i \in 1 .. Len(queue) : queue[i] = p /\ i <= done + 1

WellMeansAnswered == ping # None /\ results[Ping] = "ok" => ping \in pongs

(* What was told is what is known as long as a round has found nothing else. *)
ToldIsKnown ==
    /\ monitor = "alerting" => current = results
    /\ monitor \in {"sleeping", "checking"} /\ current # Nurse!Nothing /\ ~lost => told = current

MonitorInv == RoundOK /\ PongsAreDue /\ WellMeansAnswered /\ ToldIsKnown

(* A step of the whole is one of the daemon's own, and one of the monitor's  *)
(* own or none.                                                              *)
LEMMA DaemonMoves ==
  ASSUME RoundOK, [MonitoredNext]_vars
  PROVE  [Next]_daemonVars
  <1>1. CASE PingIsSent
    <2>1. ping \in Pings
      BY <1>1 DEF PingIsSent, Nurse!SendPing, RoundOK
    <2> QED BY <1>1, <2>1 DEF PingIsSent, Next
  <1> QED BY <1>1 DEF MonitoredNext, AckIsHeard, Next, vars

LEMMA NurseMoves ==
  ASSUME [MonitoredNext]_vars
  PROVE  \/ Nurse!Alone /\ UNCHANGED daemonVars
         \/ Nurse!SendPing
         \/ \E p \in pongs : Nurse!HearAck(p)
         \/ UNCHANGED monitorVars
  BY DEF MonitoredNext, PingIsSent, AckIsHeard, vars

LEMMA NothingFound ==
  /\ Nurse!Nothing \in [Nurse!Checks -> {"ok", "error", None}]
  /\ Ping \in Nurse!Checks /\ Services \subseteq Nurse!Checks
  /\ \A c \in Nurse!Checks : Nurse!Nothing[c] = None
  /\ None \notin {"ok", "error"} \cup Pings
  BY MonitorAssumption DEF Nurse!Nothing, Nurse!Checks

LEMMA NothingTried ==
  /\ [s \in Services |-> 0] \in [Services -> 0 .. MaxAttempts]
  /\ \A s \in Services : [t \in Services |-> 0][s] < MaxAttempts
  BY MonitorAssumption

LEMMA RoundInit == MonitoredInit => RoundOK
  <1> SUFFICES ASSUME MonitoredInit PROVE RoundOK
    OBVIOUS
  <1> USE DEF MonitoredInit, Nurse!Init
  <1>1. attempts \in [Services -> 0 .. MaxAttempts] /\ \A s \in Services : attempts[s] < MaxAttempts
    BY NothingTried
  <1>2. {results, current, told} \subseteq [Nurse!Checks -> {"ok", "error", None}]
    BY NothingFound
  <1>3. restarts \in 0 .. MaxRestarts
    BY MonitorAssumption
  <1>4. monitor = "sleeping" /\ ping = None /\ used = {} /\ sent = FALSE /\ lost = FALSE
    OBVIOUS
  <1> HIDE DEF MonitoredInit, Nurse!Init
  <1> QED BY <1>1, <1>2, <1>3, <1>4 DEF RoundOK, Nurse!TypeOK

LEMMA RoundNext ==
  ASSUME RoundOK, [MonitoredNext]_vars
  PROVE  RoundOK'
  <1> USE NothingFound, MonitorAssumption DEF RoundOK, Nurse!TypeOK
  <1>1. CASE Nurse!StartRound
    <2>1. attempts' \in [Services -> 0 .. MaxAttempts] /\ \A s \in Services : attempts'[s] < MaxAttempts
      BY <1>1, NothingTried DEF Nurse!StartRound
    <2>2. {results, current, told}' \subseteq [Nurse!Checks -> {"ok", "error", None}]
      BY <1>1 DEF Nurse!StartRound
    <2>3. ping' \in Pings
      BY <1>1 DEF Nurse!StartRound
    <2> QED BY <1>1, <2>1, <2>2, <2>3 DEF Nurse!StartRound
  <1>2. CASE Nurse!FinishRound \/ Nurse!AlertArrives \/ Nurse!AlertFails
    BY <1>2 DEF Nurse!FinishRound, Nurse!AlertArrives, Nurse!AlertFails
  <1>3. CASE Nurse!Restart
    <2>1. attempts' \in [Services -> 0 .. MaxAttempts] /\ \A s \in Services : attempts'[s] < MaxAttempts
      BY <1>3, NothingTried DEF Nurse!Restart
    <2>2. {results, current, told}' \subseteq [Nurse!Checks -> {"ok", "error", None}]
      BY <1>3 DEF Nurse!Restart
    <2>3. restarts' \in 0 .. MaxRestarts
      BY <1>3 DEF Nurse!Restart
    <2> QED BY <1>3, <2>1, <2>2, <2>3 DEF Nurse!Restart
  <1>4. CASE Nurse!PingFails
    BY <1>4 DEF Nurse!PingFails, Nurse!Found
  <1>5. ASSUME NEW s \in Services, Nurse!ServiceAnswers(s) PROVE RoundOK'
    BY <1>5 DEF Nurse!ServiceAnswers, Nurse!Found
  <1>6. ASSUME NEW s \in Services, Nurse!ServiceFails(s) PROVE RoundOK'
    <2>1. attempts[s] + 1 \in 0 .. MaxAttempts /\ attempts' = [attempts EXCEPT ![s] = attempts[s] + 1]
      BY <1>6 DEF Nurse!ServiceFails
    <2>2. attempts' \in [Services -> 0 .. MaxAttempts]
      BY <2>1
    <2>3. results' \in [Nurse!Checks -> {"ok", "error", None}]
      BY <1>6 DEF Nurse!ServiceFails
    <2>4. \A t \in Services : results'[t] = None => attempts'[t] < MaxAttempts
      BY <1>6, <2>1, <2>2 DEF Nurse!ServiceFails
    <2> QED BY <1>6, <2>2, <2>3, <2>4 DEF Nurse!ServiceFails
  <1>7. CASE Nurse!SendPing
    BY <1>7 DEF Nurse!SendPing
  <1>8. ASSUME NEW p \in pongs, Nurse!HearAck(p) PROVE RoundOK'
    BY <1>8 DEF Nurse!HearAck, Nurse!Found
  <1>9. CASE UNCHANGED monitorVars
    BY <1>9 DEF monitorVars
  <1> QED
    BY <1>1, <1>2, <1>3, <1>4, <1>5, <1>6, <1>7, <1>8, <1>9, NurseMoves DEF Nurse!Alone

(* The daemon answers the ping at the head of its queue.                     *)
LEMMA PongsNext ==
  ASSUME TypeOK, PongsAreDue, [Next]_daemonVars
  PROVE  PongsAreDue' /\ pongs \subseteq pongs'
  <1>1. QueueKept /\ done \in Nat /\ done <= Len(queue)
    BY TypeStep, LenProperties DEF TypeOK
  <1>2. done' \in {done, done + 1}
    BY DEF Next, Daemon, Publish, PublishRequest, StoreRequest, Post, StartLoading, LoadApplied,
        EndOfStored, StartConsuming, StartFails, Crash, Forget, DeliverRequest, ApplyRequest,
        DeliverPing, PingAnswered, PingFails, DeliverEvent, Resolved, ResolveCached,
        ResolveConfirmed, ResolveNobody, ResolveMismatch, ResolveUnanswered, Notify, ResolveFails,
        PushEnds, Ack, daemonVars
  <1>3. \A p \in pongs : \E i \in 1 .. Len(queue') : queue'[i] = p /\ i <= done' + 1
    <2> SUFFICES ASSUME NEW p \in pongs
                 PROVE  \E i \in 1 .. Len(queue') : queue'[i] = p /\ i <= done' + 1
      OBVIOUS
    <2>1. PICK i \in 1 .. Len(queue) : queue[i] = p /\ i <= done + 1
      BY DEF PongsAreDue
    <2>2. i \in 1 .. Len(queue') /\ queue'[i] = p
      BY <1>1, <2>1 DEF QueueKept
    <2>3. i \in Nat
      BY <1>1 DEF QueueKept
    <2>4. CASE done' = done
      BY <2>1, <2>2, <2>4
    <2>5. CASE done' = done + 1
      BY <1>1, <2>1, <2>2, <2>3, <2>5
    <2> QED BY <1>2, <2>4, <2>5
  <1>4. CASE PingAnswered
    <2>1. done + 1 \in 1 .. Len(queue) /\ pongs' = pongs \cup {Current}
      BY <1>1, <1>4 DEF PingAnswered, TypeOK
    <2>2. done + 1 \in 1 .. Len(queue') /\ queue'[done + 1] = Current /\ done + 1 <= done' + 1
      BY <1>1, <1>2, <2>1 DEF QueueKept, Current
    <2> QED BY <1>3, <2>1, <2>2 DEF PongsAreDue
  <1>5. CASE UNCHANGED pongs
    BY <1>3, <1>5 DEF PongsAreDue
  <1>6. PingAnswered \/ UNCHANGED pongs
    BY DEF Next, Daemon, Publish, PublishRequest, StoreRequest, Post, StartLoading, LoadApplied,
        EndOfStored, StartConsuming, StartFails, Crash, Forget, DeliverRequest, ApplyRequest,
        DeliverPing, PingFails, DeliverEvent, Resolved, ResolveCached,
        ResolveConfirmed, ResolveNobody, ResolveMismatch, ResolveUnanswered, Notify, ResolveFails,
        PushEnds, Ack, daemonVars
  <1> QED BY <1>4, <1>5, <1>6

LEMMA WellNext ==
  ASSUME RoundOK, WellMeansAnswered, pongs \subseteq pongs', [MonitoredNext]_vars
  PROVE  WellMeansAnswered'
  <1> USE NothingFound, MonitorAssumption DEF WellMeansAnswered
  <1>1. CASE Nurse!StartRound \/ Nurse!Restart
    BY <1>1 DEF Nurse!StartRound, Nurse!Restart
  <1>2. CASE Nurse!FinishRound \/ Nurse!AlertArrives \/ Nurse!AlertFails \/ Nurse!SendPing
    BY <1>2 DEF Nurse!FinishRound, Nurse!AlertArrives, Nurse!AlertFails, Nurse!SendPing
  <1>3. CASE Nurse!PingFails
    BY <1>3 DEF Nurse!PingFails, Nurse!Found, RoundOK, Nurse!TypeOK
  <1>4. ASSUME NEW s \in Services, Nurse!ServiceAnswers(s) \/ Nurse!ServiceFails(s)
        PROVE  WellMeansAnswered'
    <2>1. results'[Ping] = results[Ping] /\ UNCHANGED ping
      BY <1>4 DEF Nurse!ServiceAnswers, Nurse!ServiceFails, Nurse!Found, RoundOK, Nurse!TypeOK
    <2> QED BY <2>1
  <1>5. ASSUME NEW p \in pongs, Nurse!HearAck(p) PROVE WellMeansAnswered'
    BY <1>5 DEF Nurse!HearAck
  <1>6. CASE UNCHANGED monitorVars
    BY <1>6 DEF monitorVars
  <1> QED
    BY <1>1, <1>2, <1>3, <1>4, <1>5, <1>6, NurseMoves DEF Nurse!Alone

(* A round that finds what the last one found leaves everything as told.     *)
LEMMA SameFound ==
  ASSUME RoundOK, \A c \in Nurse!Checks : current[c] = results[c]
  PROVE  current = results
  BY DEF RoundOK, Nurse!TypeOK

LEMMA ToldNext ==
  ASSUME RoundOK, ToldIsKnown, [MonitoredNext]_vars
  PROVE  ToldIsKnown'
  <1> USE DEF ToldIsKnown
  <1>1. CASE Nurse!StartRound
    BY <1>1 DEF Nurse!StartRound
  <1>2. CASE Nurse!FinishRound
    <2>1. CASE \E c \in Nurse!Checks : current[c] # results[c]
      BY <1>2, <2>1 DEF Nurse!FinishRound
    <2>2. CASE \A c \in Nurse!Checks : current[c] = results[c]
      BY <1>2, <2>2, SameFound DEF Nurse!FinishRound
    <2> QED BY <2>1, <2>2
  <1>3. CASE Nurse!AlertArrives \/ Nurse!AlertFails
    BY <1>3 DEF Nurse!AlertArrives, Nurse!AlertFails
  <1>4. CASE Nurse!Restart
    BY <1>4 DEF Nurse!Restart
  <1>5. CASE Nurse!PingFails
    BY <1>5 DEF Nurse!PingFails, Nurse!Found
  <1>6. ASSUME NEW s \in Services, Nurse!ServiceAnswers(s) \/ Nurse!ServiceFails(s)
        PROVE  ToldIsKnown'
    BY <1>6 DEF Nurse!ServiceAnswers, Nurse!ServiceFails, Nurse!Found
  <1>7. CASE Nurse!SendPing
    BY <1>7 DEF Nurse!SendPing
  <1>8. ASSUME NEW p \in pongs, Nurse!HearAck(p) PROVE ToldIsKnown'
    BY <1>8 DEF Nurse!HearAck, Nurse!Found
  <1>9. CASE UNCHANGED monitorVars
    BY <1>9 DEF monitorVars
  <1> QED
    BY <1>1, <1>2, <1>3, <1>4, <1>5, <1>6, <1>7, <1>8, <1>9, NurseMoves DEF Nurse!Alone

LEMMA MonitorInvariant == MonitoredSpec => [](TypeOK /\ MonitorInv)
  <1>1. MonitoredInit => TypeOK /\ MonitorInv
    <2> SUFFICES ASSUME MonitoredInit PROVE TypeOK /\ MonitorInv
      OBVIOUS
    <2>1. TypeOK /\ RoundOK
      BY TypeInit, RoundInit DEF MonitoredInit
    <2>2. PongsAreDue /\ WellMeansAnswered /\ ToldIsKnown
      BY DEF MonitoredInit, Init, Nurse!Init, PongsAreDue, WellMeansAnswered, ToldIsKnown
    <2> QED BY <2>1, <2>2 DEF MonitorInv
  <1>2. (TypeOK /\ MonitorInv) /\ [MonitoredNext]_vars => (TypeOK /\ MonitorInv)'
    BY DaemonMoves, TypeStep, RoundNext, PongsNext, WellNext, ToldNext DEF MonitorInv
  <1> QED BY <1>1, <1>2, PTL DEF MonitoredSpec

\* The monitor and the daemon keep to their types, whatever crashes, restarts,
\* timeouts and lost answers come between (monitor.ts, ping.ts, rabbit.ts).
THEOREM MonitoredTypes == MonitoredSpec => []MonitoredTypeOK
  <1>1. TypeOK /\ MonitorInv => MonitoredTypeOK
    BY DEF MonitorInv, RoundOK, MonitoredTypeOK
  <1> QED BY <1>1, MonitorInvariant, PTL

\* A monitored daemon is a daemon as NotificationDaemon has it, its progress
\* included: pings come as from anybody, and answering them delays nothing more.
THEOREM MonitoredIsDaemon == MonitoredSpec => Spec
  <1>1. MonitoredInit => Init
    BY DEF MonitoredInit
  <1>2. TypeOK /\ MonitorInv /\ [MonitoredNext]_vars => [Next]_daemonVars
    BY DaemonMoves DEF MonitorInv
  <1> QED BY <1>1, <1>2, MonitorInvariant, PTL DEF MonitoredSpec, Spec

\* Watching the daemon does not spoil its promises: no push but those its ledger
\* allows, and no note lost to somebody who asked but those NIP-05 does not confirm.
THEOREM MonitoredKeepsPromises == MonitoredSpec => KeepsTheLedger /\ []AskedNotesWereAttempted
  BY MonitoredIsDaemon, LedgerIsKept, AskedNotesReachTheService, PTL

\* When a round of nr-monitor finds the daemon well, the daemon has by then
\* dealt with all that was queued before this round's ping: no answer to an
\* earlier ping and no late one can stand in for it.
THEOREM WellIsDrained == MonitoredSpec => []WellMeansDrained
  <1>1. TypeOK /\ MonitorInv => WellMeansDrained
    <2> SUFFICES ASSUME TypeOK, MonitorInv, ping # None, results[Ping] = "ok"
                 PROVE  \E i \in DOMAIN queue : queue[i] = ping /\ done + 1 >= i
      BY DEF WellMeansDrained
    <2>1. PICK i \in 1 .. Len(queue) : queue[i] = ping /\ i <= done + 1
      BY DEF MonitorInv, WellMeansAnswered, PongsAreDue
    <2>2. DOMAIN queue = 1 .. Len(queue) /\ done \in Nat /\ Len(queue) \in Nat
      BY LenProperties DEF TypeOK
    <2> QED BY <2>1, <2>2
  <1> QED BY <1>1, MonitorInvariant, PTL

\* nr-monitor remembers what it found before it tells anybody: as long as no
\* telegram was lost after the last one that arrived, its silence means that
\* nothing has changed since that one.
THEOREM SilenceIsTold == MonitoredSpec => []SilenceMeansTold
  <1>1. MonitorInv => SilenceMeansTold
    BY DEF MonitorInv, ToldIsKnown, SilenceMeansTold
  <1> QED BY <1>1, MonitorInvariant, PTL

=============================================================================
