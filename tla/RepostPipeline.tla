--------------------------- MODULE RepostPipeline ---------------------------
(***************************************************************************)
(* The relay and nr-server together.  A note is queued for the server on   *)
(* its way into the relay, and the server's copy takes the same way: the   *)
(* plugin judges it, it passes through the queue as one more event the     *)
(* server ignores, and the verdict is the answer the server's publication  *)
(* gets.  A verdict that comes late is a rejection, which ends the server. *)
(***************************************************************************)
EXTENDS Naturals, Sequences

CONSTANTS
    Notes, Pings, Others, Echo, Authors, Pubkeys, Usernames, NoName, Places,
    AuthorOf, PlaceOf, CreatedAt, None, AcceptedItems,
    MaxLines, MaxNow, MaxCrashes, MaxThrows

VARIABLES
    submitted, posts, verdicts, log,
    acked, now, profile, meta, nip5, server, username, wire, awaited, copies,
    made, landed, refused, claimed, crashes, throws

\* What the server finds in a line: its own copies are events it ignores.
ItemOf(event) == IF event \in Notes \cup Pings \cup Others THEN event ELSE Echo

\* The fanout exchange routes what is published to the "repost" queue.
Queue == [k \in DOMAIN log |-> ItemOf(submitted[log[k]])]

Server == INSTANCE RepostServer WITH
    queue    <- Queue,
    MaxQueue <- MaxLines

Ingest == INSTANCE RelayIngest WITH
    Events        <- Notes \cup Pings \cup Others \cup Server!Copies,
    AcceptedKinds <- AcceptedItems \cup Server!Copies

\* What the server's model asks of its constants; its own copies, and whatever
\* else it takes from the queue, are among the events it ignores.
ASSUME PipelineAssumption ==
    /\ Server!ConstantsAssumption /\ Server!DistinctAssumption
    /\ Echo \in Others

ingestVars == <<submitted, posts, verdicts, log>>

serverVars == <<acked, now, profile, meta, nip5, server, username, wire, awaited, copies,
                made, landed, refused, claimed, crashes, throws>>

vars == <<ingestVars, serverVars>>

Init == Ingest!Init /\ Server!Init

\* What is under way to the relay and not among the lines that wait.
Unsubmitted(copy) == \A i \in DOMAIN submitted : submitted[i] = copy => i <= Len(verdicts)

\* A user's event, or a copy the server sent, reaches strfry.
Submit ==
    /\ \/ \E item \in Notes \cup Pings \cup Others : Ingest!Submit(item)
       \/ \E copy \in wire : Unsubmitted(copy) /\ Ingest!Submit(copy)
    /\ UNCHANGED serverVars

\* The plugin and its handlers, up to the verdict.
IngestStep ==
    /\ Ingest!Read \/ Ingest!Handler
    /\ UNCHANGED serverVars

\* The verdict reaches whoever sent the line: to the server it is the answer to
\* its publication, unless the connection failed in the meantime.
Verdict ==
    LET event    == submitted[Len(posts)]
        accepted == verdicts'[Len(posts)]
    IN  /\ Ingest!Answer \/ Ingest!GiveUp
        /\ \/ event \notin wire /\ UNCHANGED serverVars
           \/ event \in wire /\ accepted /\ Server!Land(event)
           \/ event \in wire /\ ~accepted /\ Server!Bounce(event)

ServerStep ==
    /\ UNCHANGED ingestVars
    /\ Server!ServerStep \/ Server!Disconnect \/ Server!Restart \/ Server!Crash

\* Time passes, authors publish profiles, Trustroots changes links.
World ==
    /\ UNCHANGED ingestVars
    /\ \/ \E a \in Authors, name \in Usernames \cup {NoName} : Server!Publish(a, name)
       \/ \E u \in Usernames, k \in Pubkeys \cup {None} : Server!Assign(u, k)
       \/ Server!Tick

Next == Submit \/ IngestStep \/ Verdict \/ ServerStep \/ World

\* The plugin, its handlers and the event loop run what is ready; the plugin
\* stops waiting in the end whatever the handler does.
Fairness ==
    /\ WF_vars(IngestStep)
    /\ WF_vars(Verdict)
    /\ WF_vars(UNCHANGED ingestVars /\ Server!ServerStep)
    /\ WF_vars(UNCHANGED ingestVars /\ Server!Restart)

Spec == Init /\ [][Next]_vars /\ Fairness

----------------------------------------------------------------------------
(* Properties *)

\* Whatever the relay said yes to is on its way to the server or was decided by it:
\* no timeout, late handler or crash of the server lets an accepted note get lost
\* between the relay and the decision.
AcceptedNotesAreKept ==
    /\ Ingest!AcceptedIsPublished
    /\ Server!AckedIsDecided

\* The two components together behave as the server's model assumes of its
\* surroundings: copies arrive, land and bounce only as RepostServer allows.
ServerView == Server!Spec

\* Every note the relay accepted is decided in the end, though the server's own
\* copies take up places in the queue and late verdicts end its process: unless
\* that stalls for good, not consuming or with a delivery it never acknowledges,
\* or ends again and again, each time before the note it copied is acknowledged.
AcceptedNotesAreDecided ==
    \/ <>[](server = "stalled")
    \/ []<>(server = "starting")
    \/ \A i \in 1 .. MaxLines :
          (i <= Len(verdicts) /\ verdicts[i] /\ submitted[i] \in Notes) ~>
              \E k \in 1 .. acked : log[k] = i
=============================================================================
