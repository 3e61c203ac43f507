---------------------------- MODULE RepostServer ----------------------------
(***************************************************************************)
(* nr-server in its AMQP mode: it takes one event at a time from the       *)
(* durable "repost" queue, looks up the author's profile on the relay,     *)
(* asks Trustroots (NIP-05) whose the claimed username is, and publishes   *)
(* its own copy (kind 30398) of a map note (kind 30397) that passes, or a  *)
(* message (kind 20398) that says why it does not.                         *)
(*                                                                         *)
(* The copy is published without waiting for the relay's answer, so it is  *)
(* still under way while the server acknowledges the note and goes on with *)
(* the next; an answer that never becomes OK rejects a promise nobody      *)
(* handles, which ends the Deno process.                                   *)
(*                                                                         *)
(* RabbitMQ gives an unacknowledged delivery back to the head of the queue *)
(* and the consumer takes one at a time, so the queue is a log with a      *)
(* cursor: positions up to acked are gone, acked + 1 is next.              *)
(***************************************************************************)
EXTENDS Naturals, Sequences

CONSTANTS
    Notes,          \* map notes (kind 30397)
    Pings,          \* pings of the monitor addressed to this server
    Others,         \* events it ignores: other kinds, its own copies, bad ones
    Authors,        \* public keys that write notes
    Pubkeys,        \* public keys NIP-05 may answer with
    Usernames, NoName,  \* valid usernames; a profile event that names none
    Places,         \* an addressable event's address: author, kind and d tag
    AuthorOf, PlaceOf, CreatedAt,   \* of each note
    None,
    MaxQueue, MaxNow, MaxCrashes, MaxThrows     \* bounds of a model

Items == Notes \cup Pings \cup Others

Claims == Usernames \cup {NoName, None}

\* A copy: the queue position of its note, the server's created_at and the
\* original's.  The same position and second give the same event id.
Copies == [pos : Nat \ {0}, stamp : Nat, original : Nat]

ASSUME ConstantsAssumption ==
    /\ AuthorOf \in [Notes -> Authors]
    /\ PlaceOf \in [Notes -> Places]
    /\ CreatedAt \in [Notes -> Nat]
    /\ Authors \subseteq Pubkeys
    /\ {MaxQueue, MaxNow, MaxCrashes, MaxThrows} \subseteq Nat

ASSUME DistinctAssumption ==
    /\ Notes \cap Pings = {} /\ Notes \cap Others = {} /\ Pings \cap Others = {}
    /\ None \notin Items \cup Pubkeys \cup Usernames \cup {NoName} \cup Copies
    /\ NoName \notin Usernames

VARIABLES
    queue,      \* everything ever routed to the queue, oldest first
    acked,      \* how much of it the server has acknowledged
    now,        \* the wall clock, in seconds
    profile,    \* kind 10390 of each author on the relay: the name it gives
    meta,       \* kind 0 of each author on the relay: the name it gives
    nip5,       \* trustroots.org: whose each username is
    server,     \* where processQueueItem stands
    username,   \* its local: the username found in the profile
    wire,       \* copies sent to the relay and not answered
    awaited,    \* those of wire whose promise belongs to the running process
    copies,     \* kind 30398 on the relay, by place
    made,       \* history: the copies ever published
    landed,     \* history: the copies the relay ever took
    refused,    \* history: the positions refused
    claimed,    \* history: the <<author, username>> ever claimed on the relay
    crashes, throws     \* ends from outside and errors so far, to bound them

events == <<queue, now, profile, meta, nip5, claimed>>
relay  == <<wire, awaited, copies, landed>>
vars   == <<events, relay, acked, server, username, made, refused, crashes, throws>>

Stages == {"down", "starting", "waiting", "profile", "nip5", "refuse", "pong",
           "resting", "ack", "stalled"}

Current == queue[acked + 1]

Goto(stage) == server' = stage

Init ==
    /\ queue = << >> /\ acked = 0 /\ now = 0
    /\ profile = [a \in Authors |-> None]
    /\ meta = [a \in Authors |-> None]
    /\ nip5 = [u \in Usernames |-> None]
    /\ server = "down" /\ username = None
    /\ wire = {} /\ awaited = {}
    /\ copies = [p \in Places |-> None]
    /\ made = {} /\ landed = {} /\ refused = {} /\ claimed = {}
    /\ crashes = 0 /\ throws = 0

----------------------------------------------------------------------------
(* The server *)

\* A restart connects and awaits the first metrics publication, which catches
\* its own errors, before it consumes.
Restart ==
    /\ server = "down"
    /\ Goto("starting")
    /\ UNCHANGED <<events, relay, acked, username, made, refused, crashes, throws>>

Consume ==
    /\ server = "starting"
    /\ Goto("waiting")
    /\ UNCHANGED <<events, relay, acked, username, made, refused, crashes, throws>>

\* consume logs that it could not connect or consume, and returns: the process
\* lives on, since it publishes metrics, and takes nothing from the queue.
ConsumeFails ==
    /\ server = "starting"
    /\ throws < MaxThrows
    /\ throws' = throws + 1
    /\ Goto("stalled")
    /\ UNCHANGED <<events, relay, acked, username, made, refused, crashes>>

\* The connection is lost between two deliveries, which nobody notices.
Disconnect ==
    /\ server = "waiting"
    /\ throws < MaxThrows
    /\ throws' = throws + 1
    /\ Goto("stalled")
    /\ UNCHANGED <<events, relay, acked, username, made, refused, crashes>>

\* processQueueItem parses a delivery and dispatches on its kind.
Deliver ==
    /\ server = "waiting"
    /\ acked < Len(queue)
    /\ Goto(CASE Current \in Notes  -> "profile"
              [] Current \in Pings  -> "pong"
              [] Current \in Others -> "ack")
    /\ username' = None
    /\ UNCHANGED <<events, relay, acked, made, refused, crashes, throws>>

\* Both queries answer, each with the event it finds or, late, with nothing; a
\* profile event hides kind 0 even when it names nobody.
QueryProfile ==
    LET a == AuthorOf[Current] IN
    /\ server = "profile"
    /\ \E p \in {profile[a], None}, m \in {meta[a], None} :
          LET found == IF p # None THEN p ELSE m IN
          \/ /\ found \in Usernames
             /\ username' = found
             /\ Goto("nip5")
          \/ /\ found \notin Usernames
             /\ UNCHANGED username
             /\ Goto("refuse")
    /\ UNCHANGED <<events, relay, acked, made, refused, crashes, throws>>

\* Mutant: any key Trustroots knows will do.
RepostUnowned ==
    LET copy == [pos |-> acked + 1, stamp |-> now, original |-> CreatedAt[Current]]
    IN  /\ server = "nip5"
        /\ nip5[username] # None
        /\ made' = made \cup {copy}
        /\ wire' = wire \cup {copy}
        /\ awaited' = awaited \cup {copy}
        /\ Goto("resting")
        /\ UNCHANGED <<events, acked, username, copies, landed, refused, crashes, throws>>

\* getNip5PubKey answers with the owner's key, which must be the author's; the
\* copy is stamped, signed and sent without waiting.
Repost ==
    LET n    == Current
        copy == [pos |-> acked + 1, stamp |-> now, original |-> CreatedAt[n]]
    IN  /\ server = "nip5"
        /\ nip5[username] = AuthorOf[n]
        /\ made' = made \cup {copy}
        /\ wire' = wire \cup {copy}
        /\ awaited' = awaited \cup {copy}
        /\ Goto("resting")
        /\ UNCHANGED <<events, acked, username, copies, landed, refused, crashes, throws>>

\* The key is another's, there is none, or the request fails.
FailNip5 ==
    /\ server = "nip5"
    /\ Goto("refuse")
    /\ UNCHANGED <<events, relay, acked, username, made, refused, crashes, throws>>

\* Mutant: a refused note is returned to the queue.
RefuseRequeued ==
    /\ server = "refuse"
    /\ refused' = refused \cup {acked + 1}
    /\ username' = None
    /\ Goto("waiting")
    /\ UNCHANGED <<events, relay, acked, made, crashes, throws>>

\* publishServerMessage is awaited; its failure is caught and logged.
Refuse ==
    /\ server = "refuse"
    /\ refused' = refused \cup {acked + 1}
    /\ Goto("ack")
    /\ UNCHANGED <<events, relay, acked, username, made, crashes, throws>>

\* The ping's ack is published and awaited.
Pong ==
    /\ server = "pong"
    /\ Goto("ack")
    /\ UNCHANGED <<events, relay, acked, username, made, refused, crashes, throws>>

\* The delay after a repost has passed.
Rest ==
    /\ server = "resting"
    /\ Goto("ack")
    /\ UNCHANGED <<events, relay, acked, username, made, refused, crashes, throws>>

\* Mutant: both the dispatch and the handler acknowledge.
AckTwice ==
    /\ server = "ack"
    /\ acked' = acked + 2
    /\ username' = None
    /\ Goto("waiting")
    /\ UNCHANGED <<events, relay, made, refused, crashes, throws>>

Ack ==
    /\ server = "ack"
    /\ acked' = acked + 1
    /\ username' = None
    /\ Goto("waiting")
    /\ UNCHANGED <<events, relay, made, refused, crashes, throws>>

\* Mutant: the handler acknowledges in a finally block.
ThrowAcknowledges ==
    /\ server \in {"profile", "pong", "ack"}
    /\ throws < MaxThrows
    /\ throws' = throws + 1
    /\ Goto("ack")
    /\ UNCHANGED <<events, relay, acked, username, made, refused, crashes>>

\* A relay query is aborted, the awaited ping ack is refused or the channel is
\* closed at the ack: the handler logs the error and neither acknowledges nor
\* returns the delivery, so the prefetch of 1 stays used.
Throw ==
    /\ server \in {"profile", "pong", "ack"}
    /\ throws < MaxThrows
    /\ throws' = throws + 1
    /\ Goto("stalled")
    /\ UNCHANGED <<events, relay, acked, username, made, refused, crashes>>

\* The process ends; what it had given to its socket may or may not arrive.
Die == Goto("down") /\ username' = None /\ awaited' = {}

Crash ==
    /\ server # "down" /\ crashes < MaxCrashes
    /\ crashes' = crashes + 1
    /\ Die
    /\ \E lost \in SUBSET awaited : wire' = wire \ lost
    /\ UNCHANGED <<events, acked, copies, landed, made, refused, throws>>

----------------------------------------------------------------------------
(* The relay's answers to the copies *)

\* An addressable event replaces one with an earlier created_at; in the same
\* second the lower event id stays, and ids are hashes.
MayReplace(new, old) == old # None => new.stamp >= old.stamp
MayStay(old, new)    == old # None /\ old.stamp >= new.stamp

PlaceOfCopy(copy) == PlaceOf[queue[copy.pos]]

Land(copy) ==
    LET p == PlaceOfCopy(copy) IN
    /\ copy \in wire
    /\ wire' = wire \ {copy}
    /\ awaited' = awaited \ {copy}
    /\ landed' = landed \cup {copy}
    /\ \/ MayReplace(copy, copies[p]) /\ copies' = [copies EXCEPT ![p] = copy]
       \/ MayStay(copies[p], copy) /\ UNCHANGED copies
    /\ UNCHANGED <<events, acked, server, username, made, refused, crashes, throws>>

\* Mutant: what the relay refused is stamped and sent anew.
BounceRetried(copy) ==
    LET again == [copy EXCEPT !.stamp = now] IN
    /\ copy \in wire
    /\ made' = made \cup {again}
    /\ wire' = (wire \ {copy}) \cup {again}
    /\ awaited' = awaited \ {copy}
    /\ UNCHANGED <<events, acked, server, username, copies, landed, refused, crashes, throws>>

\* The relay refuses, or the connection fails: the process that waits for the
\* answer dies of an unhandled rejection, taking its other promises with it.
Bounce(copy) ==
    /\ copy \in wire
    /\ \/ /\ copy \in awaited
          /\ Die
          /\ \E lost \in SUBSET awaited : wire' = wire \ (lost \cup {copy})
       \/ /\ copy \notin awaited
          /\ wire' = wire \ {copy}
          /\ UNCHANGED <<awaited, server, username>>
    /\ UNCHANGED <<events, acked, copies, landed, made, refused, crashes, throws>>

----------------------------------------------------------------------------
(* The environment *)

Arrive(item) ==
    /\ Len(queue) < MaxQueue
    /\ queue' = Append(queue, item)
    /\ UNCHANGED <<now, profile, meta, nip5, claimed, relay, acked, server, username,
                   made, refused, crashes, throws>>

Tick ==
    /\ now < MaxNow
    /\ now' = now + 1
    /\ UNCHANGED <<queue, profile, meta, nip5, claimed, relay, acked, server, username,
                   made, refused, crashes, throws>>

\* The author publishes a kind 10390 or kind 0 event.
Publish(a, name) ==
    /\ \/ profile' = [profile EXCEPT ![a] = name] /\ UNCHANGED meta
       \/ meta' = [meta EXCEPT ![a] = name] /\ UNCHANGED profile
    /\ claimed' = claimed \cup ({<<a, name>>} \cap (Authors \X Usernames))
    /\ UNCHANGED <<queue, now, nip5, relay, acked, server, username,
                   made, refused, crashes, throws>>

\* nr-bridge links a username, or Trustroots changes or removes the link.
Assign(u, k) ==
    /\ nip5' = [nip5 EXCEPT ![u] = k]
    /\ UNCHANGED <<queue, now, profile, meta, claimed, relay, acked, server, username,
                   made, refused, crashes, throws>>

----------------------------------------------------------------------------
ServerStep ==
    \/ Consume \/ ConsumeFails \/ Deliver \/ QueryProfile \/ Repost \/ FailNip5
    \/ Refuse \/ Pong \/ Rest \/ Ack \/ Throw

Environment ==
    \/ \E item \in Items : Arrive(item)
    \/ \E a \in Authors, name \in Usernames \cup {NoName} : Publish(a, name)
    \/ \E u \in Usernames, k \in Pubkeys \cup {None} : Assign(u, k)
    \/ Tick

RelayAnswer == \E copy \in wire : Land(copy) \/ Bounce(copy)

Next ==
    \/ ServerStep \/ Disconnect \/ Restart \/ Crash \/ RelayAnswer \/ Environment

Spec == Init /\ [][Next]_vars

\* The event loop runs what is ready, somebody restarts the container, and the
\* relay, or the loss of its connection, answers every publication.
Fairness == WF_vars(ServerStep) /\ WF_vars(Restart) /\ WF_vars(RelayAnswer)

FairSpec == Spec /\ Fairness

----------------------------------------------------------------------------
(* Properties *)

TypeOK ==
    /\ queue \in Seq(Items) /\ acked \in 0 .. Len(queue) /\ now \in Nat
    /\ profile \in [Authors -> Claims] /\ meta \in [Authors -> Claims]
    /\ nip5 \in [Usernames -> Pubkeys \cup {None}]
    /\ server \in Stages /\ username \in Usernames \cup {None}
    /\ made \subseteq Copies /\ wire \subseteq made /\ awaited \subseteq wire
    /\ landed \subseteq made
    /\ copies \in [Places -> Copies \cup {None}]
    /\ refused \subseteq 1 .. Len(queue)
    /\ claimed \subseteq Authors \X Usernames
    /\ crashes \in 0 .. MaxCrashes /\ throws \in 0 .. MaxThrows

\* Nothing leaves the queue undecided: a crash at any await, also between the
\* repost and the ack, leaves a note in the queue or decided, and refusals and
\* copies are only ever of notes.
AckedIsDecided ==
    /\ \A i \in 1 .. acked : queue[i] \in Notes =>
           i \in refused \/ \E copy \in made : copy.pos = i
    /\ \A copy \in made : copy.pos \in 1 .. Len(queue) /\ queue[copy.pos] \in Notes
    /\ \A i \in refused : queue[i] \in Notes

\* Of the notes of a place whose copies the relay took it shows the one processed
\* last, or one copied in the same second, in whatever order the copies arrive and
\* however often a note is redelivered.  Last is not newest: a copy is dated when
\* it is made, so an older note that comes later takes a newer one's place.
LastProcessedWins ==
    \A copy \in landed :
        LET current == copies[PlaceOfCopy(copy)] IN
        /\ current # None
        /\ current.pos >= copy.pos \/ current.stamp = copy.stamp

\* The notes of a place came to the queue in the order of their created_at.
InOrder(p) ==
    \A i, j \in DOMAIN queue :
        (i < j /\ {queue[i], queue[j]} \subseteq {n \in Notes : PlaceOf[n] = p}) =>
            CreatedAt[queue[i]] <= CreatedAt[queue[j]]

\* A place whose notes came in the order of their dates shows the newest of those
\* the relay took, or one copied in the same second: publishing without waiting,
\* crashes and redelivery do not bring an older version back.
NewestWinsInOrder ==
    \A copy \in landed :
        LET current == copies[PlaceOfCopy(copy)] IN
        InOrder(PlaceOfCopy(copy)) =>
            current.original >= copy.original \/ current.stamp = copy.stamp

Layer == INSTANCE VettedLayer WITH
    owner  <- nip5,
    vetted <- {queue[copy.pos] : copy \in made},
    shown  <- [p \in Places |-> IF copies[p] = None THEN None ELSE queue[copies[p].pos]]

\* Through crashes, changing profiles and changing links, every copy on the
\* relay is of a note that was vetted, and vetted means: the author claimed a
\* username at some time and Trustroots gave it to the author when asked.
CopiesAreVetted == Layer!Spec

\* Crashes delay what is queued, they do not keep it from being processed.
EverythingIsProcessed == \A i \in 1 .. MaxQueue : Len(queue) >= i ~> acked >= i

\* What docs/Events.md says of a note that passes: its copy gets published.
VettedNotesAreCopied ==
    \A i \in 1 .. MaxQueue :
        (acked >= i /\ queue[i] \in Notes /\ i \notin refused) ~>
            \E copy \in landed : copy.pos = i

============================================================================
