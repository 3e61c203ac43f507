----------------------------- MODULE AppEvents -----------------------------
(***************************************************************************)
(* The events the app keeps (nr-app: events.slice, relays.slice,           *)
(* subscriptions.saga, subscriptions.nostr) and the subscriptions that     *)
(* bring them from the relay.                                              *)
(*                                                                         *)
(* An event takes the place of an older one of its address.  Five seconds  *)
(* after the last event a saga looks at the authors of what is stored and  *)
(* asks the relay for the profiles of all of them, unless the query it     *)
(* recorded last names them already.  A subscription is recorded at once   *)
(* and reaches the relay when the connection, shared by all, is there, as  *)
(* one request more: those of the former filters of its id are never       *)
(* closed.  The relay refuses what is more than it allows a connection,    *)
(* and the app does not hear it.  All are lost with the connection.  The   *)
(* store is persisted; the sagas, the connection and the recorded queries  *)
(* live as long as the process.                                            *)
(***************************************************************************)
EXTENDS Integers, Sequences, FiniteSets

CONSTANTS
    Events,     \* events a relay or a notification brings
    Addresses,  \* storage ids
    Authors,
    Areas,      \* what the map can show
    None,
    MaxRequests,            \* what the relay allows a connection to have open
    MaxWaiting, MaxKills    \* bounds of a model

Kinds == {"note", "profile", "message"}

\* A message is ephemeral and has no storage id; "ends" is an expiration tag.
ASSUME EventsAssumption ==
    Events \subseteq [kind : Kinds, addr : Addresses \cup {None}, at : Nat,
                      author : Authors, area : Areas \cup {None}, ends : BOOLEAN]

ASSUME AddressesAssumption ==
    \A e \in Events : e.kind # "message" => e.addr \in Addresses

ASSUME BoundsAssumption == {MaxRequests, MaxWaiting, MaxKills} \subseteq Nat

ASSUME NoneAssumption == None \notin Areas \cup Addresses

Subs == {"map", "author", "message"}

VARIABLES
    up,         \* the process runs
    alive,      \* its sagas do
    store,      \* the events slice
    disk,       \* its copy in AsyncStorage
    ended,      \* events whose expiration is past
    timer,      \* the debounced saga is due
    query,      \* relays.subscriptions: the filter recorded for each id
    waiting,    \* calls of subscribeToFilter that wait for the connection
    conn,       \* the relay is connected
    open,       \* the requests of the connection, in the order they were opened
    heard,      \* history: the events that came to what is stored now
    missed,     \* history: ids whose last request failed to connect or was lost
    refused,    \* history: ids whose last request the relay refused
    kills

data == <<store, disk, ended, heard>>
fates == <<missed, refused>>
subs == <<query, waiting, conn, open, fates>>
vars == <<up, alive, timer, data, subs, kills>>

Nothing == [s \in Subs |-> None]

AuthorsIn(f) == IF f = None THEN {} ELSE f

StoredAuthors == {e.author : e \in store}

At(S, a) == {e \in S : e.addr = a}

Init ==
    /\ up = TRUE /\ alive = TRUE
    /\ store = {} /\ disk = {} /\ ended = {} /\ heard = {}
    /\ timer = FALSE
    /\ query = [Nothing EXCEPT !["message"] = "all"]
    /\ waiting = <<[sub |-> "message", filter |-> "all"]>>
    /\ conn = FALSE /\ open = <<>> /\ missed = {} /\ refused = {}
    /\ kills = 0

----------------------------------------------------------------------------
(* The store *)

\* Mutant: what comes last is kept.
AddEventLast(e) ==
    /\ timer' = TRUE
    /\ IF e.kind = "message" THEN UNCHANGED <<store, heard>>
       ELSE /\ heard' = heard \cup {e}
            /\ store' = (store \ At(store, e.addr)) \cup {e}

\* Mutant: the older version stays beside the newer one.
AddEventBeside(e) ==
    /\ timer' = TRUE
    /\ IF e.kind = "message" THEN UNCHANGED <<store, heard>>
       ELSE /\ heard' = heard \cup {e}
            /\ store' = IF \E old \in At(store, e.addr) : old.at >= e.at THEN store
                        ELSE store \cup {e}

\* addEvent: the reducer, and the debounced saga that hears the action.
AddEvent(e) ==
    /\ timer' = TRUE
    /\ IF e.kind = "message" THEN UNCHANGED <<store, heard>>
       ELSE /\ heard' = heard \cup {e}
            /\ store' = IF \E old \in At(store, e.addr) : old.at >= e.at THEN store
                        ELSE (store \ At(store, e.addr)) \cup {e}

Asks(s, f, e) ==
    CASE s = "map"     -> e.kind = "note" /\ e.area = f
      [] s = "author"  -> e.kind = "profile" /\ e.author \in f
      [] s = "message" -> e.kind = "message"

\* The relay sends an event for an open request, also for one whose id has
\* another filter by now, in any order and again.
Receive(e) ==
    /\ up /\ conn
    /\ \E i \in DOMAIN open : Asks(open[i].sub, open[i].filter, e)
    /\ AddEvent(e)
    /\ UNCHANGED <<up, alive, disk, ended, subs, kills>>

\* The user opens a notification, which carries its event.
OpenNotification(e) ==
    /\ up /\ e.kind = "note"
    /\ AddEvent(e)
    /\ UNCHANGED <<up, alive, disk, ended, subs, kills>>

\* The expiration of an event passes.
Expire(e) ==
    /\ e.ends /\ e \notin ended
    /\ ended' = ended \cup {e}
    /\ UNCHANGED <<up, alive, timer, store, disk, heard, subs, kills>>

\* What is flushed is forgotten, with what was heard of its address.
Flushed(S) == heard' = {e \in heard : e.addr \notin {d.addr : d \in S \cap ended}}

\* flushExpiredEvents, every ten minutes.
Flush ==
    /\ up /\ store \cap ended # {}
    /\ store' = store \ ended
    /\ Flushed(store)
    /\ UNCHANGED <<up, alive, timer, disk, ended, subs, kills>>

\* redux-persist writes the slice some time after it changed.
Persist ==
    /\ up /\ disk # store
    /\ disk' = store
    /\ UNCHANGED <<up, alive, timer, store, ended, heard, subs, kills>>

----------------------------------------------------------------------------
(* The subscriptions *)

\* Mutant: a new call takes the place of those that wait.
StartSubscriptionAlone(s, f) ==
    /\ query' = [query EXCEPT ![s] = f]
    /\ waiting' = <<[sub |-> s, filter |-> f]>>
    /\ UNCHANGED <<conn, open>>

\* startSubscriptionSagaEffect: what was open stays open for good, its
\* stopSubscription being the action creator's.
StartSubscription(s, f) ==
    /\ query' = [query EXCEPT ![s] = f]
    /\ waiting' = Append(waiting, [sub |-> s, filter |-> f])
    /\ UNCHANGED <<conn, open>>

\* The map moves to another area.
MoveMap(a) ==
    /\ up /\ alive /\ query["map"] # a /\ Len(waiting) < MaxWaiting
    /\ StartSubscription("map", a)
    /\ UNCHANGED <<up, alive, timer, data, fates, kills>>

SubsOf(calls) == {calls[i].sub : i \in DOMAIN calls}

\* Mutant: an id that has a request open is not asked for again.
ConnectedOnce ==
    /\ up /\ waiting # <<>>
    /\ LET call == Head(waiting)
       IN  \/ /\ Len(open) < MaxRequests /\ call.sub \notin SubsOf(open)
              /\ open' = Append(open, call)
              /\ missed' = missed \ {call.sub} /\ refused' = refused \ {call.sub}
           \/ /\ Len(open) < MaxRequests /\ call.sub \in SubsOf(open)
              /\ UNCHANGED <<open, fates>>
           \/ /\ Len(open) >= MaxRequests
              /\ refused' = refused \cup {call.sub} /\ missed' = missed \ {call.sub}
              /\ UNCHANGED open
    /\ conn' = TRUE /\ waiting' = Tail(waiting)
    /\ UNCHANGED <<up, alive, timer, data, query, kills>>

\* The connection is there, and the calls that wait for it subscribe in their
\* order.  The library makes an id of its own for each, so that each is a
\* request more, which the relay refuses when the connection has too many.
Connected ==
    /\ up /\ waiting # <<>>
    /\ LET call == Head(waiting)
       IN  \/ /\ Len(open) < MaxRequests
              /\ open' = Append(open, call)
              /\ missed' = missed \ {call.sub} /\ refused' = refused \ {call.sub}
           \/ /\ Len(open) >= MaxRequests
              /\ refused' = refused \cup {call.sub} /\ missed' = missed \ {call.sub}
              /\ UNCHANGED open
    /\ conn' = TRUE /\ waiting' = Tail(waiting)
    /\ UNCHANGED <<up, alive, timer, data, query, kills>>

\* It fails: getRelay's error is caught and none of the calls subscribes.
ConnectFails ==
    /\ up /\ waiting # <<>> /\ ~conn
    /\ waiting' = <<>>
    /\ missed' = missed \cup SubsOf(waiting)
    /\ UNCHANGED <<up, alive, timer, data, query, conn, open, refused, kills>>

\* The connection is lost, and with it what was open; nothing opens it again.
Disconnect ==
    /\ up /\ conn
    /\ conn' = FALSE /\ open' = <<>>
    /\ missed' = missed \cup refused \cup SubsOf(open) /\ refused' = {}
    /\ UNCHANGED <<up, alive, timer, data, query, waiting, kills>>

\* Mutant: one known author is enough.
SubscribeToUserProfilesIfNew ==
    /\ up /\ alive /\ timer
    /\ timer' = FALSE
    /\ IF StoredAuthors = {}
       THEN alive' = FALSE /\ UNCHANGED subs
       ELSE /\ UNCHANGED <<alive, fates>>
            /\ IF StoredAuthors \cap AuthorsIn(query["author"]) # {}
               THEN UNCHANGED <<query, waiting, conn, open>>
               ELSE StartSubscription("author", StoredAuthors)
    /\ UNCHANGED <<up, data, kills>>

\* subscribeToUserProfilesSagaEffect.  Without authors it asks to stop the
\* subscription, which throws, known or not, and ends the root saga.
SubscribeToUserProfiles ==
    /\ up /\ alive /\ timer
    /\ timer' = FALSE
    /\ IF StoredAuthors = {}
       THEN alive' = FALSE /\ UNCHANGED subs
       ELSE /\ UNCHANGED <<alive, fates>>
            /\ IF StoredAuthors \subseteq AuthorsIn(query["author"])
               THEN UNCHANGED <<query, waiting, conn, open>>
               ELSE StartSubscription("author", StoredAuthors)
    /\ UNCHANGED <<up, data, kills>>

----------------------------------------------------------------------------
(* The process *)

Kill ==
    /\ up /\ kills < MaxKills
    /\ kills' = kills + 1
    /\ up' = FALSE /\ alive' = FALSE /\ timer' = FALSE
    /\ query' = Nothing /\ waiting' = <<>> /\ conn' = FALSE /\ open' = <<>>
    /\ store' = {} /\ heard' = {} /\ missed' = {} /\ refused' = {}
    /\ UNCHANGED <<disk, ended>>

\* The store is rehydrated and flushed; the first subscriptions start.
Launch ==
    /\ ~up
    /\ up' = TRUE /\ alive' = TRUE
    /\ store' = disk \ ended /\ heard' = disk \ ended
    /\ query' = [Nothing EXCEPT !["message"] = "all"]
    /\ waiting' = <<[sub |-> "message", filter |-> "all"]>>
    /\ UNCHANGED <<timer, disk, ended, conn, open, fates, kills>>

----------------------------------------------------------------------------

StoreStep ==
    \/ \E e \in Events : Receive(e) \/ OpenNotification(e) \/ Expire(e)
    \/ Flush \/ Persist

ConnectEnds == Connected \/ ConnectFails

SubscriptionStep ==
    \/ \E a \in Areas : MoveMap(a)
    \/ ConnectEnds \/ Disconnect \/ SubscribeToUserProfiles

Next == StoreStep \/ SubscriptionStep \/ Kill \/ Launch

\* An attempt to connect ends, and events pause for the five seconds.
Fairness == WF_vars(ConnectEnds) /\ WF_vars(SubscribeToUserProfiles)

Spec == Init /\ [][Next]_vars /\ Fairness

----------------------------------------------------------------------------
(* Properties *)

FilterOf == [map |-> Areas, author |-> SUBSET Authors, message |-> {"all"}]

\* The variables keep to their types, and the store, like its copy, has one
\* event of an address.
TypeOK ==
    /\ {up, alive, timer, conn} \subseteq BOOLEAN
    /\ {store, disk, ended, heard} \subseteq SUBSET Events
    /\ \A s \in Subs : query[s] \in FilterOf[s] \cup {None}
    /\ \A calls \in {waiting, open} : \A i \in DOMAIN calls :
          calls[i].sub \in Subs /\ calls[i].filter \in FilterOf[calls[i].sub]
    /\ Len(open) <= MaxRequests
    /\ {missed, refused} \subseteq SUBSET Subs /\ kills \in Nat
    /\ \A S \in {store, disk} : \A d, e \in S : d.addr = e.addr => d = e

\* Whatever the order in which versions arrive, again and from wherever, the
\* store has the newest one heard since the app started or the address was
\* flushed: only an expiration or a restart brings an older version back.
StoreHoldsNewest ==
    /\ store \subseteq heard
    /\ \A e \in heard : \E s \in At(store, e.addr) : s.at >= e.at

\* The last query of s is among what is asked of the relay.
IsIn(calls, s) == \E i \in DOMAIN calls : calls[i] = [sub |-> s, filter |-> query[s]]

\* The relay has no room for s.
Crowded(s) == s \in refused /\ Len(open) = MaxRequests

\* The app records a query as soon as it is started, and takes the record for
\* the fact.  The query recorded for an id is served, or waits for the
\* connection, unless its connection failed or was lost, or the relay refused
\* it and still has as many requests open as it allows; however starts,
\* connections and restarts interleave, no other query is forgotten.
QueriesAreServed ==
    \A s \in Subs :
        query[s] # None => \/ IsIn(open, s) \/ IsIn(waiting, s)
                           \/ s \in missed \/ Crowded(s)

\* When the saga rests, the query it recorded last names the author of every
\* stored event, once there is one: nobody whose event came while it waited for
\* a pause, or after a flush or a newer version took others away, is left out.
\* After a restart there is none before an event has been heard.
AuthorsAreCovered ==
    alive /\ ~timer /\ query["author"] # None => StoredAuthors \subseteq query["author"]

\* The profile of each author of a stored event comes to be subscribed to, once
\* an event has been heard by a saga that is alive, unless the process ended,
\* the connection failed or was lost on the authors, or the relay has no room
\* for them.  The sagas' end by a subscription that is to stop is no way out:
\* it takes no author who is stored along.
AuthorsAreSubscribed ==
    \A a \in Authors :
        (alive /\ timer /\ a \in StoredAuthors) ~>
            \/ \E i \in DOMAIN open : open[i].sub = "author" /\ a \in open[i].filter
            \/ "author" \in missed \/ Crowded("author")
            \/ a \notin StoredAuthors
            \/ ~up

=============================================================================
