---------------------------- MODULE RelayIngest ----------------------------
(***************************************************************************)
(* How an event gets past the relay's write policy.  strfry hands every    *)
(* event to the nr-relay plugin, one line at a time; the plugin posts the  *)
(* line to nr-relay-to-rabbit and repeats the verdict it gets, or rejects  *)
(* when it gets none within five seconds.  nr-relay-to-rabbit publishes    *)
(* events of the accepted kinds to the exchange before it answers, and its *)
(* handler goes on when the plugin has stopped waiting.                    *)
(*                                                                         *)
(* Lines are numbered in the order strfry writes them.                     *)
(***************************************************************************)
EXTENDS Naturals, Sequences

CONSTANTS
    Events,         \* what may be published to the relay
    AcceptedKinds,  \* those of a kind in ACCEPTED_KINDS that parse
    MaxLines        \* the bound of a model

VARIABLES
    submitted,  \* the event of each line
    posts,      \* the handler of each line read so far
    verdicts,   \* the plugin's answer to each line: TRUE accepts it
    log         \* the lines published to the exchange, in order

ingestVars == <<submitted, posts, verdicts, log>>

Init == submitted = << >> /\ posts = << >> /\ verdicts = << >> /\ log = << >>

\* A client, or a server of this project, sends an event to strfry.
Submit(event) ==
    /\ Len(submitted) < MaxLines
    /\ submitted' = Append(submitted, event)
    /\ UNCHANGED <<posts, verdicts, log>>

Waiting == Len(verdicts) < Len(posts)

\* The plugin scans the next line and posts it.
Read ==
    /\ ~Waiting
    /\ Len(posts) < Len(submitted)
    /\ posts' = Append(posts, "received")
    /\ UNCHANGED <<submitted, verdicts, log>>

\* The handler's answer: 400 or a rejection for what is not accepted.
RefuseKind(i) ==
    /\ posts[i] = "received"
    /\ submitted[i] \notin AcceptedKinds
    /\ posts' = [posts EXCEPT ![i] = "refused"]
    /\ UNCHANGED <<submitted, verdicts, log>>

\* Mutant: the handler publishes again, as if a first try had failed.
PublishTwice(i) ==
    /\ posts[i] = "received"
    /\ submitted[i] \in AcceptedKinds
    /\ log' = log \o <<i, i>>
    /\ posts' = [posts EXCEPT ![i] = "published"]
    /\ UNCHANGED <<submitted, verdicts>>

\* channel.publish resolves.
Publish(i) ==
    /\ posts[i] = "received"
    /\ submitted[i] \in AcceptedKinds
    /\ log' = Append(log, i)
    /\ posts' = [posts EXCEPT ![i] = "published"]
    /\ UNCHANGED <<submitted, verdicts>>

\* channel.publish throws, or the handler's process ends.
PublishFails(i) ==
    /\ posts[i] = "received"
    /\ posts' = [posts EXCEPT ![i] = "refused"]
    /\ UNCHANGED <<submitted, verdicts, log>>

\* Mutant: the handler answers without awaiting channel.publish.
AnswerEarly ==
    /\ Waiting
    /\ verdicts' = Append(verdicts, posts[Len(posts)] # "refused")
    /\ UNCHANGED <<submitted, posts, log>>

\* The plugin writes the verdict of the response it was waiting for.
Answer ==
    /\ Waiting
    /\ posts[Len(posts)] # "received"
    /\ verdicts' = Append(verdicts, posts[Len(posts)] = "published")
    /\ UNCHANGED <<submitted, posts, log>>

\* Five seconds have passed, or the connection failed: writeReject.
GiveUp ==
    /\ Waiting
    /\ verdicts' = Append(verdicts, FALSE)
    /\ UNCHANGED <<submitted, posts, log>>

Handler == \E i \in DOMAIN posts : RefuseKind(i) \/ Publish(i) \/ PublishFails(i)

Next == (\E event \in Events : Submit(event)) \/ Read \/ Handler \/ Answer \/ GiveUp

Spec == Init /\ [][Next]_ingestVars

TypeOK ==
    /\ submitted \in Seq(Events)
    /\ posts \in Seq({"received", "published", "refused"})
    /\ verdicts \in Seq(BOOLEAN)
    /\ log \in Seq(1 .. Len(posts))
    /\ Len(verdicts) <= Len(posts) /\ Len(posts) <= Len(verdicts) + 1
    /\ Len(posts) <= Len(submitted)

\* However long a handler outlives the plugin's patience, an event the relay
\* accepted was published to the exchange, and nothing is published twice.
AcceptedIsPublished ==
    /\ \A i \in DOMAIN verdicts : verdicts[i] => \E k \in DOMAIN log : log[k] = i
    /\ \A j, k \in DOMAIN log : log[j] = log[k] => j = k
    /\ \A k \in DOMAIN log : submitted[log[k]] \in AcceptedKinds
============================================================================
