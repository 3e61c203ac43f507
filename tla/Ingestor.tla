------------------------------ MODULE Ingestor ------------------------------
(***************************************************************************)
(* nostr-ingestor (vibe/nip42relay/internal/bridge): two loops that run    *)
(* side by side and post to the Nostr relay what is new elsewhere.         *)
(*                                                                         *)
(* The GitHub loop lists the commits dated since the last poll that ended  *)
(* well and posts one note about those not marked as seen.  The Matrix     *)
(* loop asks for what came after its saved token and posts one note for    *)
(* each message of somebody else.  What is posted is marked after that, in *)
(* another step; the time of the poll and the token are saved last.  Any   *)
(* error, the 45 s deadline too, ends the run where it stands; the next    *)
(* run starts from what was saved.                                         *)
(***************************************************************************)
EXTENDS Integers, FiniteSets

CONSTANTS
    Commits,            \* commits of the branch
    Foreign,            \* positions of the room's messages, from 1, of others
    PerPage,            \* commits GitHub lists at most: the newest
    Limit,              \* messages one /sync shows at most: the newest
    GithubLookback,     \* how far back the first poll looks
    None,
    MaxNow, MaxRoom, MaxMishaps     \* bounds of a model

ASSUME ConstantsAssumption ==
    /\ Foreign \subseteq Nat \ {0}
    /\ {PerPage, Limit, GithubLookback} \subseteq Nat \ {0}
    /\ {MaxNow, MaxRoom, MaxMishaps} \subseteq Nat
    /\ None \notin Int
    /\ Commits \cap Int = {}

VARIABLES
    now,        \* the clock
    dates,      \* the date of each commit on the branch, None before its push
    room,       \* how many messages the room has
    lastPoll,   \* github.last_poll_at in the state file, or None
    shas,       \* bridge_github_seen
    since,      \* matrix.sync_since: how many messages the token is past, or None
    seen,       \* bridge_matrix_seen
    up,         \* the process: "down", "preflight" or "running"
    gh, runAt, new,     \* the GitHub run: its stage, its time, its newCommits
    mx, batch, next,    \* the Matrix run: its stage, its messages left, its token
    posts,      \* history: how often each commit and message was posted
    overlooked, \* history: what the sources did not show to a run that could have
    baseline,   \* history: how many messages the first token was past
    mishaps     \* steps that failed after a note was posted

world  == <<now, dates, room>>
state  == <<lastPoll, shas, since, seen>>
github == <<gh, runAt, new>>
matrix == <<mx, batch, next>>
vars   == <<world, state, up, github, matrix, posts, overlooked, baseline, mishaps>>

Items == Commits \cup 1 .. MaxRoom

Pushed == {c \in Commits : dates[c] # None}

Init ==
    /\ now = 0 /\ dates = [c \in Commits |-> None] /\ room = 0
    /\ lastPoll = None /\ shas = {} /\ since = None /\ seen = {}
    /\ up = "down"
    /\ gh = "idle" /\ runAt = None /\ new = {}
    /\ mx = "idle" /\ batch = {} /\ next = None
    /\ posts = [i \in Items |-> 0] /\ overlooked = {} /\ baseline = None
    /\ mishaps = 0

----------------------------------------------------------------------------
(* The world *)

Tick ==
    /\ now < MaxNow
    /\ now' = now + 1
    /\ UNCHANGED <<dates, room, state, up, github, matrix, posts, overlooked, baseline, mishaps>>

\* A commit gets its date when it is made and comes to the branch now.  One
\* dated before a poll that has been listed will not be listed again.
Push(c) ==
    /\ dates[c] = None
    /\ \E d \in 0 .. now :
          /\ dates' = [dates EXCEPT ![c] = d]
          /\ overlooked' =
                IF \/ lastPoll # None /\ d < lastPoll
                   \/ gh \notin {"idle", "asking"} /\ d < runAt
                THEN overlooked \cup {c} ELSE overlooked
    /\ UNCHANGED <<now, room, state, up, github, matrix, posts, baseline, mishaps>>

Say ==
    /\ room < MaxRoom
    /\ room' = room + 1
    /\ UNCHANGED <<now, dates, state, up, github, matrix, posts, overlooked, baseline, mishaps>>

----------------------------------------------------------------------------
(* The process *)

Start ==
    /\ up = "down"
    /\ up' = "preflight"
    /\ UNCHANGED <<world, state, github, matrix, posts, overlooked, baseline, mishaps>>

\* Mutant: no baseline.
PreflightBare ==
    /\ up = "preflight"
    /\ up' = "running"
    /\ UNCHANGED <<world, state, github, matrix, posts, overlooked, baseline, mishaps>>

\* Mutant: every start takes a baseline.
PreflightAgain ==
    /\ up = "preflight"
    /\ up' = "running"
    /\ since' = room /\ baseline' = room
    /\ UNCHANGED <<world, lastPoll, shas, seen, github, matrix, posts, overlooked, mishaps>>

\* Without a token the preflight takes a baseline: what the room has is skipped.
Preflight ==
    /\ up = "preflight"
    /\ up' = "running"
    /\ IF since = None THEN since' = room /\ baseline' = room
       ELSE UNCHANGED <<since, baseline>>
    /\ UNCHANGED <<world, lastPoll, shas, seen, github, matrix, posts, overlooked, mishaps>>

\* The relay, Matrix or the state file fails: the process ends.
PreflightFails ==
    /\ up = "preflight"
    /\ up' = "down"
    /\ UNCHANGED <<world, state, github, matrix, posts, overlooked, baseline, mishaps>>

EndGitHub == gh' = "idle" /\ runAt' = None /\ new' = {}
EndMatrix == mx' = "idle" /\ batch' = {} /\ next' = None

\* What fails after the relay took a note, its OK included, posts it again later.
Mishap == mishaps < MaxMishaps /\ mishaps' = mishaps + 1

\* The process ends at any point.
Crash ==
    /\ up = "running"
    /\ up' = "down"
    /\ IF gh = "posted" \/ mx = "posted" THEN Mishap ELSE UNCHANGED mishaps
    /\ EndGitHub /\ EndMatrix
    /\ UNCHANGED <<world, state, posts, overlooked, baseline>>

----------------------------------------------------------------------------
(* runGitHubOnce *)

\* The ticker fires.
StartPoll ==
    /\ up = "running" /\ gh = "idle"
    /\ runAt' = now
    /\ gh' = "asking"
    /\ UNCHANGED <<world, state, up, new, matrix, posts, overlooked, baseline, mishaps>>

\* GitHub answers with the newest commits since the last poll, or since the
\* lookback when there is none or the state file cannot be read; those that are
\* not marked are the new ones.
ListCommits ==
    /\ gh = "asking"
    /\ \E from \in {lastPoll, runAt - GithubLookback} \ {None} :
       \E page \in SUBSET {c \in Pushed : dates[c] >= from} :
          LET older == {c \in Pushed : dates[c] >= from} \ page
          IN  /\ Cardinality(page) <= PerPage
              /\ older # {} => Cardinality(page) = PerPage
              /\ \A c \in page, d \in older : dates[c] >= dates[d]
              /\ new' = page \ shas
              /\ overlooked' = overlooked \cup
                    {c \in Pushed \ page : lastPoll = None \/ dates[c] >= lastPoll}
    /\ gh' = IF new' = {} THEN "marked" ELSE "listed"
    /\ UNCHANGED <<world, state, up, runAt, matrix, posts, baseline, mishaps>>

Count(items) == posts' = [i \in Items |-> IF i \in items THEN posts[i] + 1 ELSE posts[i]]

\* The relay takes the note about all new commits.
PostSummary ==
    /\ gh = "listed"
    /\ Count(new)
    /\ gh' = "posted"
    /\ UNCHANGED <<world, state, up, runAt, new, matrix, overlooked, baseline, mishaps>>

\* Mutant: new commits are not marked one by one, the time of the poll will do.
MarkNothing ==
    /\ gh = "posted"
    /\ gh' = "marked"
    /\ UNCHANGED <<world, state, up, runAt, new, matrix, posts, overlooked, baseline, mishaps>>

\* MarkGitHubSHAs, in one transaction.
MarkSHAs ==
    /\ gh = "posted"
    /\ shas' = shas \cup new
    /\ gh' = "marked"
    /\ UNCHANGED <<world, lastPoll, since, seen, up, runAt, new, matrix, posts,
                   overlooked, baseline, mishaps>>

\* Mutant: the time saved is that of the end of the run.
SaveEnd ==
    /\ gh = "marked"
    /\ lastPoll' = now
    /\ EndGitHub
    /\ UNCHANGED <<world, shas, since, seen, up, matrix, posts, overlooked, baseline, mishaps>>

SavePoll ==
    /\ gh = "marked"
    /\ lastPoll' = runAt
    /\ EndGitHub
    /\ UNCHANGED <<world, shas, since, seen, up, matrix, posts, overlooked, baseline, mishaps>>

\* GitHub, the relay or the state file fails, or the deadline passes.
GitHubFails ==
    /\ \/ gh \in {"asking", "listed", "marked"} /\ UNCHANGED mishaps
       \/ gh = "posted" /\ Mishap
    /\ EndGitHub
    /\ UNCHANGED <<world, state, up, matrix, posts, overlooked, baseline>>

----------------------------------------------------------------------------
(* runMatrixOnce *)

\* The ticker fires, and /sync answers with the newest messages after the token.
Sync ==
    LET unread == {i \in 1 .. room : i > since}
        shown  == {i \in unread : i > room - Limit}
    IN  /\ up = "running" /\ mx = "idle"
        /\ batch' = {i \in shown : i \in Foreign}
        /\ overlooked' = overlooked \cup (unread \ shown)
        /\ next' = room
        /\ mx' = "synced"
        /\ UNCHANGED <<world, state, up, github, posts, baseline, mishaps>>

First == CHOOSE i \in batch : \A j \in batch : i <= j

\* Mutant: a message that was seen ends the run.
SkipReturns ==
    /\ mx = "synced" /\ batch # {}
    /\ First \in seen
    /\ EndMatrix
    /\ UNCHANGED <<world, state, up, github, posts, overlooked, baseline, mishaps>>

\* HasMatrixEvent: an earlier run has posted it.
SkipSeen ==
    /\ mx = "synced" /\ batch # {}
    /\ First \in seen
    /\ batch' = batch \ {First}
    /\ UNCHANGED <<world, state, up, github, mx, next, posts, overlooked, baseline, mishaps>>

\* The relay takes the note about the next message.
PostMessage ==
    /\ mx = "synced" /\ batch # {}
    /\ First \notin seen
    /\ Count({First})
    /\ mx' = "posted"
    /\ UNCHANGED <<world, state, up, github, batch, next, overlooked, baseline, mishaps>>

\* MarkMatrixEvents
MarkMessage ==
    /\ mx = "posted"
    /\ seen' = seen \cup {First}
    /\ batch' = batch \ {First}
    /\ mx' = "synced"
    /\ UNCHANGED <<world, lastPoll, shas, since, up, github, next, posts, overlooked,
                   baseline, mishaps>>

\* Mutant: the token is saved before the messages are posted.
SaveTokenFirst ==
    /\ mx = "synced"
    /\ since' = next
    /\ IF batch = {} THEN EndMatrix ELSE UNCHANGED matrix
    /\ UNCHANGED <<world, lastPoll, shas, seen, up, github, posts, overlooked, baseline, mishaps>>

SaveToken ==
    /\ mx = "synced" /\ batch = {}
    /\ since' = next
    /\ EndMatrix
    /\ UNCHANGED <<world, lastPoll, shas, seen, up, github, posts, overlooked, baseline, mishaps>>

\* Matrix, the relay or the state file fails, or the deadline passes.
MatrixFails ==
    /\ \/ mx = "synced" /\ UNCHANGED mishaps
       \/ mx = "posted" /\ Mishap
    /\ EndMatrix
    /\ UNCHANGED <<world, state, up, github, posts, overlooked, baseline>>

----------------------------------------------------------------------------
GitHubRun == StartPoll \/ ListCommits \/ PostSummary \/ MarkSHAs \/ SavePoll \/ GitHubFails

MatrixRun == Sync \/ SkipSeen \/ PostMessage \/ MarkMessage \/ SaveToken \/ MatrixFails

World == Tick \/ Say \/ \E c \in Commits : Push(c)

Next == World \/ Start \/ Preflight \/ PreflightFails \/ Crash \/ GitHubRun \/ MatrixRun

\* The process is started again, and what the Matrix loop does on a tick and asks
\* of Matrix, the relay and the state file happens if it is tried again and again:
\* neither an error nor a crash hits the same step every time.
Fairness ==
    /\ WF_vars(Start) /\ SF_vars(Preflight)
    /\ SF_vars(Sync) /\ SF_vars(SkipSeen) /\ SF_vars(PostMessage)
    /\ SF_vars(MarkMessage) /\ SF_vars(SaveToken)

Spec == Init /\ [][Next]_vars /\ Fairness

----------------------------------------------------------------------------
TypeOK ==
    /\ now \in Nat /\ dates \in [Commits -> Nat \cup {None}] /\ room \in 0 .. MaxRoom
    /\ lastPoll \in Nat \cup {None} /\ shas \subseteq Commits
    /\ since \in 0 .. room \cup {None} /\ seen \subseteq 1 .. room
    /\ up \in {"down", "preflight", "running"}
    /\ gh \in {"idle", "asking", "listed", "posted", "marked"}
    /\ gh # "idle" => up = "running" /\ runAt \in 0 .. now
    /\ new \subseteq Pushed
    /\ mx \in {"idle", "synced", "posted"}
    /\ mx # "idle" => up = "running" /\ next \in since .. room
    /\ batch \subseteq 1 .. room
    /\ mx = "posted" => batch # {}
    /\ up = "running" => since # None
    /\ posts \in [Items -> Nat]
    /\ overlooked \subseteq Items /\ baseline \in 0 .. room \cup {None}
    /\ mishaps \in 0 .. MaxMishaps

\* The saved token never passes a message of somebody else that the homeserver
\* showed and the relay has not taken: failures and crashes lose none.
PassedIsPosted ==
    since # None =>
        \A i \in Foreign : baseline < i /\ i <= since /\ i \notin overlooked => posts[i] > 0

\* A commit dated before the last poll that ended well has been posted, unless
\* it came to the branch too late or on a page too full.
PolledIsPosted ==
    lastPoll # None =>
        \A c \in Pushed : dates[c] < lastPoll /\ c \notin overlooked => posts[c] > 0

\* Two notes about one thing need a step that failed between posting and marking.
RepeatsNeedAMishap == \A i \in Items : posts[i] <= 1 + mishaps

\* The time of the last poll is a mark on the branch that only moves on, over
\* commits posted or never shown, and no commit it is past is posted again: not
\* even when the state file cannot be read and the poll looks back.
Branch == INSTANCE Forwarder WITH
    Items   <- Commits,
    came    <- Pushed,
    skipped <- Pushed \cap overlooked,
    posts   <- [c \in Commits |-> posts[c]],
    passed  <- {c \in Pushed : lastPoll # None /\ dates[c] < lastPoll}

BranchIsForwarded == Branch!Spec

\* So is the token in the room, where what was said before the first start is
\* skipped; only what others say is posted.
Room == INSTANCE Forwarder WITH
    Items   <- 1 .. MaxRoom,
    came    <- Foreign \cap 1 .. room,
    skipped <- {i \in Foreign \cap 1 .. room :
                  i \in overlooked \/ (baseline # None /\ i <= baseline)},
    posts   <- [i \in 1 .. MaxRoom |-> posts[i]],
    passed  <- {i \in Foreign \cap 1 .. room : since # None /\ i <= since}

RoomIsForwarded == Room!Spec

\* Every message of somebody else that comes after the baseline gets to the
\* relay, unless the homeserver never shows it.
MessagesAreBridged ==
    \A i \in Foreign :
        (since # None /\ baseline < i /\ i <= room) ~> (posts[i] > 0 \/ i \in overlooked)
=============================================================================
