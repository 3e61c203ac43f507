------------------------- MODULE NotificationDaemon -------------------------
(***************************************************************************)
(* nr-notification-daemon.  It keeps in memory, for each user, the filters *)
(* and the push tokens of a request (kind 10395): at start it loads what   *)
(* the relay has stored, then it takes one event at a time from its        *)
(* durable queue.  A request updates the memory; a ping of the monitor is  *)
(* answered over the relay; of any other event it tells the phones of the  *)
(* users one of whose filters matches.                                     *)
(*                                                                         *)
(* Nobody waits for the handlers of the initial load: they decrypt and may *)
(* still write to the memory when messages are already being consumed.     *)
(* Filters are read before the author's name is looked up, tokens after.   *)
(*                                                                         *)
(* An unacknowledged delivery goes back to the head of the queue and the   *)
(* consumer takes one at a time (prefetchCount 1), so the queue is a log   *)
(* with a cursor: the first done positions are acknowledged.               *)
(***************************************************************************)
EXTENDS Naturals, Sequences, FiniteSets

CONSTANTS
    Users, Filters, Tokens, Notes, Authors,
    Requests,               \* kind 10395 events, each published at most once
    UserOf, Asks, Gives,    \* of a request: who, which filters, which tokens
    CreatedAt,              \* of a request
    Readable,               \* the requests that are for the daemon and parse
    Matches,                \* <<note, filter>>: matchFilter accepts the note
    AuthorOf,               \* of a note
    Pings,                  \* pings of the monitor to the daemon, by their id
    Pong,                   \* an answer to a ping, as it comes back on the queue
    None,
    MaxQueue, MaxCrashes    \* bounds of a model: when no more is posted, crashes

ASSUME ConstantsAssumption ==
    /\ UserOf \in [Requests -> Users]
    /\ Asks \in [Requests -> SUBSET Filters]
    /\ Gives \in [Requests -> SUBSET Tokens]
    /\ CreatedAt \in [Requests -> Nat]
    /\ Readable \subseteq Requests
    /\ Matches \subseteq Notes \X Filters
    /\ AuthorOf \in [Notes -> Authors]
    /\ {MaxQueue, MaxCrashes} \subseteq Nat

ASSUME DistinctAssumption ==
    /\ Requests \cap Notes = {} /\ Requests \cap Pings = {} /\ Notes \cap Pings = {}
    /\ Pong \notin Requests \cup Notes \cup Pings
    /\ None \notin Requests

Items == Requests \cup Notes \cup Pings \cup {Pong}

VARIABLES
    queue,      \* everything ever routed to the daemon's queue, oldest first
    done,       \* how much of it is acknowledged
    stored,     \* the relay's request of each user
    storing,    \* requests the relay passed on and has not stored yet
    pongs,      \* answers to pings that reached the relay
    daemon,     \* where the process stands
    loads,      \* stored requests its onevent handlers are still decrypting
    filtersOf, tokensOf,    \* SubscriptionStore
    named,      \* usernameCache: the authors whose name is known
    pairs,      \* matchingPairs of the note at hand
    outbox,     \* calls of sendPushNotifications not finished
    pushed,     \* history: pushes that left
    confirmed,  \* history: authors NIP-05 confirmed
    attempted,  \* history: <<position, user, token>> the push service was called for
    dropped,    \* history: positions of notes dropped for a false name
    unanswered, \* history: positions dropped because trustroots.org did not answer
    crashes     \* crashes so far

relay   == <<stored, storing>>
memory  == <<filtersOf, tokensOf>>
work    == <<pairs, outbox>>
history == <<pushed, confirmed, attempted, dropped, unanswered>>
daemonVars == <<queue, done, relay, pongs, daemon, loads, memory, named, work,
                history, crashes>>

Stages == {"down", "loading", "starting", "idle", "applying", "answering",
           "resolving", "pushing", "settled"}

Current == queue[done + 1]

Goto(stage) == daemon' = stage

Queued(item) == \E i \in DOMAIN queue : queue[i] = item

Init ==
    /\ queue = << >> /\ done = 0
    /\ stored = [u \in Users |-> None] /\ storing = {} /\ pongs = {}
    /\ daemon = "down" /\ loads = {}
    /\ filtersOf = [u \in Users |-> {}] /\ tokensOf = [u \in Users |-> {}]
    /\ named = {} /\ pairs = {} /\ outbox = {}
    /\ pushed = {} /\ confirmed = {} /\ attempted = {} /\ dropped = {}
    /\ unanswered = {} /\ crashes = 0

----------------------------------------------------------------------------
(* The relay: what it accepts is routed to the queue, and then stored *)

\* A user publishes a request, in any order of their dates.
PublishRequest(r) ==
    /\ ~Queued(r) /\ Len(queue) < MaxQueue
    /\ queue' = Append(queue, r)
    /\ storing' = storing \cup {r}
    /\ UNCHANGED <<done, stored, pongs, daemon, loads, memory, named, work, history, crashes>>

\* A replaceable event: the relay keeps the newest by its date.
StoreRequest(r) ==
    LET u == UserOf[r] IN
    /\ r \in storing
    /\ storing' = storing \ {r}
    /\ stored' = IF stored[u] = None \/ CreatedAt[r] > CreatedAt[stored[u]]
                 THEN [stored EXCEPT ![u] = r] ELSE stored
    /\ UNCHANGED <<queue, done, pongs, daemon, loads, memory, named, work, history, crashes>>

\* A note, or a ping of the monitor, reaches the queue.
Post(item) ==
    /\ item \in Notes \cup Pings
    /\ ~Queued(item) /\ Len(queue) < MaxQueue
    /\ queue' = Append(queue, item)
    /\ UNCHANGED <<done, relay, pongs, daemon, loads, memory, named, work, history, crashes>>

----------------------------------------------------------------------------
(* Starting *)

\* The relay sends what it has stored; each event starts a handler.
StartLoading ==
    /\ daemon = "down"
    /\ loads' = {stored[u] : u \in Users} \ {None}
    /\ Goto("loading")
    /\ UNCHANGED <<queue, done, relay, pongs, memory, named, work, history, crashes>>

\* updateFilters and updateTokens: a request without tokens leaves the old ones.
Remember(r) ==
    LET u == UserOf[r] IN
    IF r \in Readable
    THEN /\ filtersOf' = [filtersOf EXCEPT ![u] = Asks[r]]
         /\ tokensOf' = IF Gives[r] = {} THEN tokensOf
                        ELSE [tokensOf EXCEPT ![u] = Gives[r]]
    ELSE UNCHANGED memory

\* A handler of the initial load has decrypted its event, perhaps long after
\* the load has ended.
LoadApplied ==
    /\ \E r \in loads : Remember(r) /\ loads' = loads \ {r}
    /\ UNCHANGED <<queue, done, relay, pongs, daemon, named, work, history, crashes>>

\* oneose
EndOfStored ==
    /\ daemon = "loading"
    /\ Goto("starting")
    /\ UNCHANGED <<queue, done, relay, pongs, loads, memory, named, work, history, crashes>>

\* The first metrics are published and the queue is consumed.
StartConsuming ==
    /\ daemon = "starting"
    /\ Goto("idle")
    /\ UNCHANGED <<queue, done, relay, pongs, loads, memory, named, work, history, crashes>>

\* What the process forgets when it ends.
Forget ==
    /\ Goto("down")
    /\ loads' = {} /\ named' = {} /\ pairs' = {} /\ outbox' = {}
    /\ filtersOf' = [u \in Users |-> {}] /\ tokensOf' = [u \in Users |-> {}]
    /\ UNCHANGED <<queue, done, relay, pongs, history>>

\* The relay or the broker cannot be reached, or no end of stored events comes
\* within 30 s: an await at the top of main.ts rejects.
StartFails ==
    /\ daemon \in {"loading", "starting"}
    /\ Forget
    /\ UNCHANGED crashes

\* Crash after the start.
Crash ==
    /\ daemon \notin {"down", "loading", "starting"}
    /\ crashes < MaxCrashes
    /\ crashes' = crashes + 1
    /\ Forget

----------------------------------------------------------------------------
(* Consuming *)

DeliverRequest ==
    /\ daemon = "idle" /\ done < Len(queue)
    /\ Current \in Requests
    /\ Goto("applying")
    /\ UNCHANGED <<queue, done, relay, pongs, loads, memory, named, work, history, crashes>>

ApplyRequest ==
    /\ daemon = "applying"
    /\ Remember(Current)
    /\ Goto("settled")
    /\ UNCHANGED <<queue, done, relay, pongs, loads, named, work, history, crashes>>

DeliverPing ==
    /\ daemon = "idle" /\ done < Len(queue)
    /\ Current \in Pings
    /\ Goto("answering")
    /\ UNCHANGED <<queue, done, relay, pongs, loads, memory, named, work, history, crashes>>

\* The relay takes the answer, which also comes back on the queue; its OK may
\* be lost, and then the ping is returned to the queue.
PingAnswered ==
    /\ daemon = "answering"
    /\ pongs' = pongs \cup {Current}
    /\ queue' = Append(queue, Pong)
    /\ Goto("settled") \/ (Goto("idle") /\ Len(queue) < MaxQueue)
    /\ UNCHANGED <<done, relay, loads, memory, named, work, history, crashes>>

\* The relay is not reached: nack with requeue.
PingFails ==
    /\ daemon = "answering"
    /\ Goto("idle")
    /\ UNCHANGED <<queue, done, relay, pongs, loads, memory, named, work, history, crashes>>

\* matchAndNotify up to its first await.
DeliverEvent ==
    /\ daemon = "idle" /\ done < Len(queue)
    /\ Current \notin Requests \cup Pings
    /\ pairs' = {p \in Users \X Filters :
                    p[2] \in filtersOf[p[1]] /\ <<Current, p[2]>> \in Matches}
    /\ IF pairs' = {} THEN Goto("settled") ELSE Goto("resolving")
    /\ UNCHANGED <<queue, done, relay, pongs, loads, memory, named, outbox, history, crashes>>

\* After the await: the tokens each matching user has now.
Notify(title) ==
    LET calls == {[user |-> p[1], filter |-> p[2], tokens |-> tokensOf[p[1]],
                   named |-> title] : p \in pairs}
    IN  /\ outbox' = {c \in calls : c.tokens # {}}
        /\ Goto("pushing")
        /\ UNCHANGED <<queue, done, relay, pongs, loads, memory, pairs, pushed,
                       attempted, dropped, unanswered, crashes>>

\* The name is in the cache, and is used without asking again.
ResolveCached ==
    /\ daemon = "resolving"
    /\ AuthorOf[Current] \in named
    /\ Notify(TRUE)
    /\ UNCHANGED <<named, confirmed>>

\* Mutant: the name is cached and used before NIP-05 is asked.
ResolveUnconfirmed ==
    /\ daemon = "resolving"
    /\ named' = named \cup {AuthorOf[Current]}
    /\ Notify(TRUE)
    /\ UNCHANGED confirmed

\* The profile names somebody and NIP-05 confirms that it is the author.
ResolveConfirmed ==
    /\ daemon = "resolving"
    /\ AuthorOf[Current] \notin named
    /\ named' = named \cup {AuthorOf[Current]}
    /\ confirmed' = confirmed \cup {AuthorOf[Current]}
    /\ Notify(TRUE)

\* No profile, none within five seconds, or one without a name.
ResolveNobody ==
    /\ daemon = "resolving"
    /\ AuthorOf[Current] \notin named
    /\ Notify(FALSE)
    /\ UNCHANGED <<named, confirmed>>

\* Mutant: Nip5VerificationError is not caught.
ResolveThrows ==
    /\ daemon = "resolving"
    /\ AuthorOf[Current] \notin named
    /\ pairs' = {}
    /\ Goto("idle")
    /\ UNCHANGED <<queue, done, relay, pongs, loads, memory, named, outbox, history, crashes>>

\* The name is another's or nobody's, Nip5VerificationError: the note is dropped.
ResolveMismatch ==
    /\ daemon = "resolving"
    /\ AuthorOf[Current] \notin named
    /\ dropped' = dropped \cup {done + 1}
    /\ Goto("settled")
    /\ UNCHANGED <<queue, done, relay, pongs, loads, memory, named, work, pushed,
                   confirmed, attempted, unanswered, crashes>>

\* trustroots.org cannot be reached or answers with no JSON: getNip5PubKey catches
\* that and returns undefined, which is as good as a false name.
ResolveUnanswered ==
    /\ daemon = "resolving"
    /\ AuthorOf[Current] \notin named
    /\ unanswered' = unanswered \cup {done + 1}
    /\ Goto("settled")
    /\ UNCHANGED <<queue, done, relay, pongs, loads, memory, named, work, pushed,
                   confirmed, attempted, dropped, crashes>>

\* The relay that has the author's profile is not reached: nack with requeue.
ResolveFails ==
    /\ daemon = "resolving"
    /\ AuthorOf[Current] \notin named
    /\ pairs' = {}
    /\ Goto("idle")
    /\ UNCHANGED <<queue, done, relay, pongs, loads, memory, named, outbox, history, crashes>>

\* One call of sendPushNotifications ends: the service took the messages for
\* some of the tokens, perhaps none, and every error is only logged.
PushEnds ==
    /\ daemon = "pushing"
    /\ \E c \in outbox : \E reached \in SUBSET c.tokens :
          /\ outbox' = outbox \ {c}
          /\ attempted' = attempted \cup {<<done + 1, c.user, t>> : t \in c.tokens}
          /\ pushed' = pushed \cup
                {[note |-> Current, user |-> c.user, filter |-> c.filter,
                  token |-> t, named |-> c.named] : t \in reached}
    /\ UNCHANGED <<queue, done, relay, pongs, daemon, loads, memory, named, pairs,
                   confirmed, dropped, unanswered, crashes>>

\* Mutant: matchAndNotify is not awaited.
AckEarly ==
    /\ daemon \in {"settled", "pushing"}
    /\ done' = done + 1
    /\ pairs' = {} /\ outbox' = {}
    /\ Goto("idle")
    /\ UNCHANGED <<queue, relay, pongs, loads, memory, named, history, crashes>>

\* Mutant: a delivery may be acknowledged a second time.
AckAgain ==
    /\ daemon \in {"settled", "idle"}
    /\ done' = done + 1
    /\ Goto("idle")
    /\ UNCHANGED <<queue, relay, pongs, loads, memory, named, work, history, crashes>>

\* The handler has finished, all of its pushes too: ack.
Ack ==
    /\ \/ daemon = "settled"
       \/ daemon = "pushing" /\ outbox = {}
    /\ done' = done + 1
    /\ pairs' = {}
    /\ Goto("idle")
    /\ UNCHANGED <<queue, relay, pongs, loads, memory, named, outbox, history, crashes>>

----------------------------------------------------------------------------
Resolved ==
    \/ ResolveCached \/ ResolveConfirmed \/ ResolveNobody
    \/ ResolveMismatch \/ ResolveUnanswered

Daemon ==
    \/ StartLoading \/ LoadApplied \/ EndOfStored \/ StartConsuming \/ StartFails \/ Crash
    \/ DeliverRequest \/ ApplyRequest \/ DeliverPing \/ PingAnswered \/ PingFails
    \/ DeliverEvent \/ Resolved \/ ResolveFails \/ PushEnds \/ Ack

Publish ==
    \/ \E r \in Requests : PublishRequest(r) \/ StoreRequest(r)
    \/ \E n \in Notes : Post(n)

Next == Daemon \/ Publish \/ \E p \in Pings : Post(p)

\* The process runs, and what it asks of the relay and of the broker succeeds if
\* it is asked again and again; whatever Trustroots says, or nothing, is an answer.
Fairness ==
    /\ WF_daemonVars(StartLoading) /\ WF_daemonVars(LoadApplied)
    /\ SF_daemonVars(EndOfStored) /\ SF_daemonVars(StartConsuming)
    /\ WF_daemonVars(DeliverRequest \/ DeliverPing \/ DeliverEvent)
    /\ WF_daemonVars(ApplyRequest) /\ WF_daemonVars(PushEnds) /\ WF_daemonVars(Ack)
    /\ SF_daemonVars(Resolved)
    /\ SF_daemonVars(PingAnswered /\ Goto("settled"))

Spec == Init /\ [][Next]_daemonVars /\ Fairness

----------------------------------------------------------------------------
Pairs == Users \X Filters

Calls == [user : Users, filter : Filters, tokens : SUBSET Tokens, named : BOOLEAN]

Pushes == [note : Notes, user : Users, filter : Filters, token : Tokens, named : BOOLEAN]

Told == (Nat \ {0}) \X Users \X Tokens

\* The daemon is at work on a position of the queue in exactly these stages,
\* and on an item its handler is for.
TypeOK ==
    /\ queue \in Seq(Items) /\ done \in 0 .. Len(queue)
    /\ stored \in [Users -> Requests \cup {None}] /\ storing \subseteq Requests
    /\ pongs \subseteq Pings
    /\ daemon \in Stages /\ loads \subseteq Requests
    /\ filtersOf \in [Users -> SUBSET Filters] /\ tokensOf \in [Users -> SUBSET Tokens]
    /\ named \subseteq Authors
    /\ pairs \subseteq Pairs /\ outbox \subseteq Calls
    /\ pushed \subseteq Pushes /\ confirmed \subseteq Authors
    /\ attempted \subseteq Told /\ dropped \cup unanswered \subseteq Nat \ {0}
    /\ crashes \in Nat
    /\ daemon \in {"applying", "answering", "resolving", "pushing", "settled"} => done < Len(queue)
    /\ daemon = "applying" => Current \in Requests
    /\ daemon = "answering" => Current \in Pings
    /\ daemon \in {"resolving", "pushing"} => Current \in Notes

\* Whoever asked before a note was posted, and never changed the request, has
\* had the push service called for each of his tokens once the note is
\* acknowledged, unless Trustroots did not confirm the author's name.  That is
\* meant for a false name, and it also loses every note whose author is looked up
\* while trustroots.org does not answer; a relay that cannot be reached, a missing
\* profile and a failing push service lose none.  A crash may: the memory is then
\* loaded again, and nobody waits for that.
AskedNotesWereAttempted ==
    \A i \in 1 .. done, j \in 1 .. done :
        /\ crashes = 0 /\ j < i
        /\ queue[i] \in Notes /\ i \notin dropped \cup unanswered
        /\ queue[j] \in Readable
        /\ \A r \in Requests : Queued(r) /\ UserOf[r] = UserOf[queue[j]] => r = queue[j]
        /\ \E f \in Asks[queue[j]] : <<queue[i], f>> \in Matches
        => \A t \in Gives[queue[j]] : <<i, UserOf[queue[j]], t>> \in attempted

\* No push but those the ledger allows.
Ledger == INSTANCE PushLedger WITH requested <- {r \in Requests : Queued(r)}

KeepsTheLedger == Ledger!Spec

\* Every note that reaches the queue is dealt with, however often the daemon
\* fails before.
NotesAreSettled ==
    \A n \in Notes : Queued(n) ~> \E i \in 1 .. done : queue[i] = n

\* When nothing is under way, the daemon serves the request the relay stores.
ServesStoredRequest ==
    (daemon = "idle" /\ done = Len(queue) /\ loads = {} /\ storing = {}) =>
        \A u \in Users :
            stored[u] # None /\ stored[u] \in Readable =>
                filtersOf[u] = Asks[stored[u]] /\ tokensOf[u] = Gives[stored[u]]
=============================================================================
