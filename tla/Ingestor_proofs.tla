-------------------------- MODULE Ingestor_proofs --------------------------
(***************************************************************************)
(* The invariants of the two loops of the ingestor, for any commits, any   *)
(* messages and any number of failures: nothing the sources show is passed *)
(* over, and nothing is posted twice but after a failure.                  *)
(***************************************************************************)
EXTENDS Ingestor, WellFoundedInduction, TLAPS

\* The least element of a batch exists, so First is one of it.
LEMMA FirstInBatch ==
  ASSUME batch \subseteq Nat, batch # {}
  PROVE  First \in batch
  <1>1. PICK i \in batch : \A j \in batch : i <= j
    <2>1. IsWellFoundedOn(OpToRel(<, Nat), Nat)
      BY NatLessThanWellFounded
    <2>2. PICK i \in batch : \A j \in batch : <<j, i>> \notin OpToRel(<, Nat)
      BY <2>1, WFMin
    <2>3. \A j \in batch : ~ (j < i)
      BY <2>2 DEF OpToRel
    <2> QED BY <2>3
  <1> QED BY <1>1 DEF First

----------------------------------------------------------------------------
(* The types *)

LEMMA TypeInit == Init => TypeOK
  BY ConstantsAssumption DEF Init, TypeOK, Pushed, Items

LEMMA TypeWorld == ASSUME TypeOK, World PROVE TypeOK'
  <1>1. CASE Tick
    BY <1>1, ConstantsAssumption
    DEF Tick, TypeOK, Pushed, Items, state, github, matrix
  <1>2. CASE Say
    BY <1>2, ConstantsAssumption
    DEF Say, TypeOK, Pushed, Items, state, github, matrix
  <1>3. ASSUME NEW c \in Commits, Push(c) PROVE TypeOK'
    <2>1. /\ dates' \in [Commits -> Nat \cup {None}]
          /\ Pushed \subseteq Pushed'
          /\ overlooked' \subseteq Items
      BY <1>3, ConstantsAssumption DEF Push, TypeOK, Pushed, Items
    <2> QED BY <1>3, <2>1 DEF Push, TypeOK, state, github, matrix
  <1> QED BY <1>1, <1>2, <1>3 DEF World

LEMMA TypeProcess ==
  ASSUME TypeOK, Start \/ Preflight \/ PreflightFails \/ Crash
  PROVE  TypeOK'
  <1>1. CASE Start \/ PreflightFails
    BY <1>1 DEF Start, PreflightFails, TypeOK, Pushed, world, state, github, matrix
  <1>2. CASE Preflight
    BY <1>2, ConstantsAssumption
    DEF Preflight, TypeOK, Pushed, world, github, matrix
  <1>3. CASE Crash
    BY <1>3, ConstantsAssumption
    DEF Crash, EndGitHub, EndMatrix, Mishap, TypeOK, Pushed, world, state
  <1> QED BY <1>1, <1>2, <1>3

LEMMA CountTypes ==
  ASSUME posts \in [Items -> Nat], NEW S, Count(S)
  PROVE  /\ posts' \in [Items -> Nat]
         /\ \A i \in Items : posts'[i] = (IF i \in S THEN posts[i] + 1 ELSE posts[i])
  BY DEF Count

LEMMA TypeGitHub == ASSUME TypeOK, GitHubRun PROVE TypeOK'
  <1>1. CASE StartPoll
    BY <1>1, ConstantsAssumption DEF StartPoll, TypeOK, Pushed, world, state, matrix
  <1>2. CASE ListCommits
    <2>1. new' \subseteq Pushed' /\ overlooked' \subseteq Items
      BY <1>2 DEF ListCommits, TypeOK, Pushed, Items, world
    <2>2. gh' \in {"marked", "listed"} /\ gh = "asking"
      BY <1>2 DEF ListCommits
    <2>3. UNCHANGED <<now, dates, room, lastPoll, shas, since, seen, up, runAt, mx, batch, next,
                      posts, baseline, mishaps>>
      BY <1>2 DEF ListCommits, world, state, matrix
    <2> QED BY <2>1, <2>2, <2>3 DEF TypeOK
  <1>3. CASE PostSummary
    <2>1. posts' \in [Items -> Nat]
      BY <1>3, CountTypes DEF PostSummary, TypeOK
    <2> QED BY <1>3, <2>1 DEF PostSummary, TypeOK, Pushed, world, state, matrix
  <1>4. CASE MarkSHAs
    BY <1>4 DEF MarkSHAs, TypeOK, Pushed, world, matrix
  <1>5. CASE SavePoll
    BY <1>5 DEF SavePoll, EndGitHub, TypeOK, Pushed, world, matrix
  <1>6. CASE GitHubFails
    BY <1>6, ConstantsAssumption
    DEF GitHubFails, EndGitHub, Mishap, TypeOK, Pushed, world, state, matrix
  <1> QED BY <1>1, <1>2, <1>3, <1>4, <1>5, <1>6 DEF GitHubRun

LEMMA BatchFirst ==
  ASSUME TypeOK, batch # {}
  PROVE  First \in batch /\ First \in 1 .. room /\ First \in Items
  <1>1. batch \subseteq 1 .. room /\ room \in 0 .. MaxRoom /\ MaxRoom \in Nat
    BY ConstantsAssumption DEF TypeOK
  <1>2. First \in batch
    BY <1>1, FirstInBatch
  <1> QED BY <1>1, <1>2 DEF Items

LEMMA TypeMatrix == ASSUME TypeOK, MatrixRun PROVE TypeOK'
  <1>1. CASE Sync
    <2>1. since \in 0 .. room /\ room \in Nat
      BY <1>1, ConstantsAssumption DEF Sync, TypeOK
    <2>2. /\ batch' \subseteq 1 .. room /\ next' = room /\ overlooked' \subseteq Items
          /\ mx' = "synced"
      BY <1>1, <2>1, ConstantsAssumption DEF Sync, TypeOK, Items
    <2> QED BY <1>1, <2>1, <2>2 DEF Sync, TypeOK, Pushed, world, state, github
  <1>2. CASE SkipSeen
    BY <1>2 DEF SkipSeen, TypeOK, Pushed, world, state, github
  <1>3. CASE PostMessage
    <2>1. posts' \in [Items -> Nat]
      BY <1>3, CountTypes DEF PostMessage, TypeOK
    <2> QED BY <1>3, <2>1 DEF PostMessage, TypeOK, Pushed, world, state, github
  <1>4. CASE MarkMessage
    <2>1. First \in 1 .. room
      BY <1>4, BatchFirst DEF MarkMessage, TypeOK
    <2> QED BY <1>4, <2>1 DEF MarkMessage, TypeOK, Pushed, world, github
  <1>5. CASE SaveToken
    <2>1. since' \in 0 .. room
      BY <1>5, ConstantsAssumption DEF SaveToken, TypeOK
    <2> QED
      BY <1>5, <2>1, ConstantsAssumption
      DEF SaveToken, EndMatrix, TypeOK, Pushed, world, github
  <1>6. CASE MatrixFails
    BY <1>6, ConstantsAssumption
    DEF MatrixFails, EndMatrix, Mishap, TypeOK, Pushed, world, state, github
  <1> QED BY <1>1, <1>2, <1>3, <1>4, <1>5, <1>6 DEF MatrixRun

LEMMA TypeStep == TypeOK /\ [Next]_vars => TypeOK'
  <1>1. ASSUME TypeOK, UNCHANGED vars PROVE TypeOK'
    BY <1>1 DEF TypeOK, Pushed, vars, world, state, github, matrix
  <1> QED BY <1>1, TypeWorld, TypeProcess, TypeGitHub, TypeMatrix DEF Next
----------------------------------------------------------------------------
(* RepeatsNeedAMishap: what is not marked was posted only before a mishap *)

Marking(c) == gh = "posted" /\ c \in new

RepeatInv ==
    /\ \A c \in Commits :
          /\ posts[c] <= 1 + mishaps
          /\ c \notin shas /\ ~Marking(c) => posts[c] <= mishaps
    /\ \A i \in 1 .. MaxRoom :
          /\ posts[i] <= 1 + mishaps
          /\ i \notin seen /\ ~(mx = "posted" /\ i = First) => posts[i] <= mishaps
    /\ gh = "listed" => new \cap shas = {}

LEMMA RepeatInit == Init => RepeatInv
  BY ConstantsAssumption DEF Init, RepeatInv, Items

\* A step that posts nothing and marks nothing, while neither loop is between
\* posting and marking, or fails there and is counted.
LEMMA RepeatFrame ==
  ASSUME TypeOK, RepeatInv, UNCHANGED <<posts, shas, seen>>,
         \/ UNCHANGED <<mishaps, batch, mx, gh, new>>
         \/ UNCHANGED <<mishaps, batch, mx>> /\ gh # "posted" /\ gh' \notin {"posted", "listed"}
         \/ UNCHANGED <<mishaps, gh, new>> /\ mx # "posted" /\ mx' # "posted"
         \/ UNCHANGED mishaps /\ mx # "posted" /\ gh # "posted" /\ mx' = "idle" /\ gh' = "idle"
         \/ UNCHANGED <<gh, new>> /\ mishaps' = mishaps + 1 /\ mx' = "idle"
         \/ UNCHANGED <<batch, mx>> /\ mishaps' = mishaps + 1 /\ gh' = "idle"
         \/ mishaps' = mishaps + 1 /\ mx' = "idle" /\ gh' = "idle"
  PROVE  RepeatInv'
  <1>1. mishaps \in Nat /\ \A i \in Items : posts[i] \in Nat
    BY ConstantsAssumption DEF TypeOK
  <1>2. CASE UNCHANGED <<mishaps, batch, mx, gh, new>>
    BY <1>2 DEF RepeatInv, Marking, First
  <1>3. CASE UNCHANGED <<mishaps, batch, mx>> /\ gh # "posted" /\ gh' \notin {"posted", "listed"}
    BY <1>3 DEF RepeatInv, Marking, First
  <1>4. CASE UNCHANGED <<mishaps, gh, new>> /\ mx # "posted" /\ mx' # "posted"
    BY <1>4 DEF RepeatInv, Marking
  <1>5. CASE UNCHANGED mishaps /\ mx # "posted" /\ gh # "posted" /\ mx' = "idle" /\ gh' = "idle"
    BY <1>5 DEF RepeatInv, Marking
  <1>6. CASE mishaps' = mishaps + 1
    <2>1. \A c \in Commits : posts'[c] <= 1 + mishaps' /\ posts'[c] <= mishaps'
      BY <1>1, <1>6 DEF RepeatInv, Items
    <2>2. \A i \in 1 .. MaxRoom : posts'[i] <= 1 + mishaps' /\ posts'[i] <= mishaps'
      BY <1>1, <1>6 DEF RepeatInv, Items
    <2>3. gh' = "listed" => new' \cap shas' = {}
      BY <1>6, <1>1 DEF RepeatInv
    <2> QED BY <2>1, <2>2, <2>3 DEF RepeatInv
  <1> QED BY <1>2, <1>3, <1>4, <1>5, <1>6

LEMMA RepeatGitHub == ASSUME TypeOK, RepeatInv, GitHubRun PROVE RepeatInv'
  <1>1. CASE StartPoll \/ SavePoll
    BY <1>1, RepeatFrame DEF StartPoll, SavePoll, EndGitHub, state, matrix
  <1>2. CASE ListCommits
    <2>1. new' \cap shas' = {}
      BY <1>2 DEF ListCommits, state
    <2>2. /\ gh = "asking" /\ gh' # "posted"
          /\ UNCHANGED <<posts, mishaps, shas, seen, mx, batch>>
      BY <1>2 DEF ListCommits, state, matrix
    <2> QED BY <2>1, <2>2 DEF RepeatInv, Marking, First
  <1>3. CASE PostSummary
    <2>1. /\ gh = "listed" /\ gh' = "posted"
          /\ UNCHANGED <<new, shas, seen, mishaps, mx, batch>>
      BY <1>3 DEF PostSummary, state, matrix
    <2>2. \A i \in Items : posts'[i] = (IF i \in new THEN posts[i] + 1 ELSE posts[i])
      BY <1>3, CountTypes DEF PostSummary, TypeOK
    <2>3. \A i \in 1 .. MaxRoom : i \in Items /\ posts'[i] = posts[i]
      BY <2>2, ConstantsAssumption DEF TypeOK, Pushed, Items
    <2>4. ASSUME NEW c \in Commits
          PROVE  /\ posts'[c] <= 1 + mishaps'
                 /\ c \notin shas' /\ ~Marking(c)' => posts'[c] <= mishaps'
      <3>1. c \in Items /\ posts[c] \in Nat /\ mishaps \in Nat
        BY ConstantsAssumption DEF TypeOK, Items
      <3>2. CASE c \in new
        <4>1. posts[c] <= mishaps
          BY <2>1, <3>2 DEF RepeatInv, Marking
        <4> QED BY <2>1, <2>2, <3>1, <3>2, <4>1 DEF Marking
      <3>3. CASE c \notin new
        BY <2>1, <2>2, <3>1, <3>3 DEF RepeatInv, Marking
      <3> QED BY <3>2, <3>3
    <2> QED BY <2>1, <2>3, <2>4 DEF RepeatInv, First
  <1>4. CASE MarkSHAs
    <2>1. /\ gh = "posted" /\ gh' = "marked" /\ shas' = shas \cup new
          /\ UNCHANGED <<new, seen, mishaps, mx, batch, posts>>
      BY <1>4 DEF MarkSHAs, matrix
    <2> QED BY <2>1 DEF RepeatInv, Marking, First
  <1>5. CASE GitHubFails
    BY <1>5, RepeatFrame DEF GitHubFails, EndGitHub, Mishap, state, matrix
  <1> QED BY <1>1, <1>2, <1>3, <1>4, <1>5 DEF GitHubRun

LEMMA RepeatMatrix == ASSUME TypeOK, RepeatInv, MatrixRun PROVE RepeatInv'
  <1>1. CASE Sync \/ SkipSeen \/ SaveToken
    BY <1>1, RepeatFrame DEF Sync, SkipSeen, SaveToken, EndMatrix, state, github
  <1>2. CASE PostMessage
    <2>1. /\ mx = "synced" /\ mx' = "posted" /\ First \notin seen /\ batch # {}
          /\ UNCHANGED <<batch, new, gh, shas, seen, mishaps>>
      BY <1>2 DEF PostMessage, state, github
    <2>2. First \in Items /\ First \in 1 .. room /\ First' = First
      BY <2>1, BatchFirst DEF First
    <2>3. \A i \in Items : posts'[i] = (IF i = First THEN posts[i] + 1 ELSE posts[i])
      BY <1>2, CountTypes DEF PostMessage, TypeOK
    <2>4. \A c \in Commits : c \in Items /\ posts'[c] = posts[c]
      BY <2>2, <2>3, ConstantsAssumption DEF Items
    <2>5. ASSUME NEW i \in 1 .. MaxRoom
          PROVE  /\ posts'[i] <= 1 + mishaps'
                 /\ i \notin seen' /\ ~(mx' = "posted" /\ i = First') => posts'[i] <= mishaps'
      <3>1. i \in Items /\ posts[i] \in Nat /\ mishaps \in Nat
        BY ConstantsAssumption DEF TypeOK, Items
      <3>2. CASE i = First
        <4>1. posts[i] <= mishaps
          BY <2>1, <3>2 DEF RepeatInv
        <4> QED BY <2>1, <2>2, <2>3, <3>1, <3>2, <4>1
      <3>3. CASE i # First
        BY <2>1, <2>2, <2>3, <3>1, <3>3 DEF RepeatInv
      <3> QED BY <3>2, <3>3
    <2> QED BY <2>1, <2>4, <2>5 DEF RepeatInv, Marking
  <1>3. CASE MarkMessage
    <2>1. /\ mx = "posted" /\ mx' = "synced" /\ seen' = seen \cup {First}
          /\ UNCHANGED <<new, gh, shas, mishaps, posts>>
      BY <1>3 DEF MarkMessage, github
    <2> QED BY <2>1 DEF RepeatInv, Marking
  <1>4. CASE MatrixFails
    BY <1>4, RepeatFrame DEF MatrixFails, EndMatrix, Mishap, state, github
  <1> QED BY <1>1, <1>2, <1>3, <1>4 DEF MatrixRun

LEMMA RepeatStep == TypeOK /\ RepeatInv /\ [Next]_vars => RepeatInv'
  <1> SUFFICES ASSUME TypeOK, RepeatInv, [Next]_vars PROVE RepeatInv'
    OBVIOUS
  <1>1. CASE World \/ Start \/ Preflight \/ PreflightFails \/ UNCHANGED vars
    BY <1>1, RepeatFrame
    DEF World, Tick, Say, Push, Start, Preflight, PreflightFails, vars, state, github, matrix
  <1>2. CASE Crash
    BY <1>2, RepeatFrame DEF Crash, EndGitHub, EndMatrix, Mishap, state
  <1> QED BY <1>1, <1>2, RepeatGitHub, RepeatMatrix DEF Next

----------------------------------------------------------------------------
(* PassedIsPosted: what a run is to pass is posted or still in its batch *)

PassInv ==
    /\ since # None <=> baseline # None
    /\ PassedIsPosted
    /\ \A i \in seen : posts[i] > 0
    /\ mx = "posted" => posts[First] > 0
    /\ mx # "idle" =>
          \A i \in Foreign :
             baseline < i /\ i <= next /\ i \notin overlooked => i \in batch \/ posts[i] > 0

LEMMA PassInit == Init => PassInv
  BY ConstantsAssumption DEF Init, PassInv, PassedIsPosted

\* Notes and things overlooked only become more.
LEMMA PassFrame ==
  ASSUME TypeOK, PassInv, UNCHANGED <<since, baseline, seen>>,
         overlooked \subseteq overlooked',
         \A i \in Items : posts[i] > 0 => posts'[i] > 0,
         mx' = "idle" \/ UNCHANGED matrix
  PROVE  PassInv'
  <1>1. seen \subseteq Items
    BY ConstantsAssumption DEF TypeOK, Items
  <1>2. mx = "posted" => First \in Items
    BY BatchFirst DEF TypeOK
  <1>3. \A i \in Foreign : \A n \in Nat : n <= room /\ i <= n => i \in Items
    BY ConstantsAssumption DEF TypeOK, Items
  <1>4. since # None => since \in Nat /\ since <= room
    BY ConstantsAssumption DEF TypeOK
  <1>5. mx # "idle" => next \in Nat /\ next <= room
    BY ConstantsAssumption DEF TypeOK
  <1>6. PassedIsPosted'
    BY <1>3, <1>4 DEF PassInv, PassedIsPosted
  <1>7. mx' # "idle" =>
          \A i \in Foreign :
             baseline' < i /\ i <= next' /\ i \notin overlooked' => i \in batch' \/ posts'[i] > 0
    BY <1>3, <1>5 DEF PassInv, matrix
  <1>8. mx' = "posted" => posts'[First'] > 0
    BY <1>2 DEF PassInv, matrix, First
  <1> QED BY <1>1, <1>6, <1>7, <1>8 DEF PassInv

LEMMA CountGrows ==
  ASSUME TypeOK, NEW S, Count(S)
  PROVE  /\ \A i \in Items : posts[i] > 0 => posts'[i] > 0
         /\ \A i \in Items \cap S : posts'[i] > 0
  <1>1. \A i \in Items : posts[i] \in Nat
    BY DEF TypeOK
  <1> QED BY <1>1, CountTypes DEF TypeOK

LEMMA PassMatrix == ASSUME TypeOK, PassInv, MatrixRun PROVE PassInv'
  <1>1. CASE Sync
    <2>1. /\ since \in Nat /\ since # None /\ since <= room /\ room \in Nat /\ Limit \in Nat
          /\ baseline \in Nat
      BY <1>1, ConstantsAssumption DEF Sync, TypeOK, PassInv
    <2>2. /\ batch' = {i \in 1 .. room : i > since /\ i > room - Limit /\ i \in Foreign}
          /\ overlooked' = overlooked \cup {i \in 1 .. room : i > since /\ ~(i > room - Limit)}
          /\ next' = room /\ mx' = "synced"
          /\ UNCHANGED <<since, baseline, seen, posts>>
      BY <1>1 DEF Sync, state
    <2>3. ASSUME NEW i \in Foreign, baseline < i, i <= room, i \notin overlooked'
          PROVE  i \in batch' \/ posts'[i] > 0
      <3>1. i \in 1 .. room
        BY <2>1, <2>3, ConstantsAssumption
      <3>2. CASE i <= since
        BY <2>1, <2>2, <2>3, <3>2 DEF PassInv, PassedIsPosted
      <3>3. CASE i > since
        BY <2>2, <2>3, <3>1, <3>3
      <3> QED BY <2>1, <3>1, <3>2, <3>3
    <2>4. PassedIsPosted'
      BY <2>2 DEF PassInv, PassedIsPosted
    <2> QED BY <2>2, <2>3, <2>4 DEF PassInv
  <1>2. CASE SkipSeen
    <2>1. /\ mx = "synced" /\ First \in seen /\ batch' = batch \ {First}
          /\ UNCHANGED <<since, baseline, seen, posts, overlooked, mx, next>>
      BY <1>2 DEF SkipSeen, state
    <2>2. posts[First] > 0
      BY <2>1 DEF PassInv
    <2>3. PassedIsPosted'
      BY <2>1 DEF PassInv, PassedIsPosted
    <2> QED BY <2>1, <2>2, <2>3 DEF PassInv
  <1>3. CASE PostMessage
    <2>1. /\ mx = "synced" /\ mx' = "posted" /\ batch # {}
          /\ UNCHANGED <<since, baseline, seen, overlooked, batch, next>>
      BY <1>3 DEF PostMessage, state
    <2>2. First \in Items /\ First' = First
      BY <2>1, BatchFirst DEF First
    <2>3. posts'[First] > 0 /\ \A i \in Items : posts[i] > 0 => posts'[i] > 0
      BY <1>3, <2>2, CountGrows DEF PostMessage
    <2>4. seen \subseteq Items
      BY ConstantsAssumption DEF TypeOK, Items
    <2>5. next \in Nat /\ next <= room /\ (since # None => since \in Nat /\ since <= room)
      BY <2>1, ConstantsAssumption DEF TypeOK
    <2>6. \A i \in Foreign : \A n \in Nat : n <= room /\ i <= n => i \in Items
      BY ConstantsAssumption DEF TypeOK, Items
    <2>7. PassedIsPosted'
      BY <2>1, <2>3, <2>5, <2>6 DEF PassInv, PassedIsPosted
    <2>8. \A i \in Foreign :
             baseline < i /\ i <= next /\ i \notin overlooked => i \in batch \/ posts'[i] > 0
      BY <2>1, <2>3, <2>5, <2>6 DEF PassInv
    <2> QED BY <2>1, <2>2, <2>3, <2>4, <2>7, <2>8 DEF PassInv
  <1>4. CASE MarkMessage
    <2>1. /\ mx = "posted" /\ mx' = "synced" /\ seen' = seen \cup {First}
          /\ batch' = batch \ {First}
          /\ UNCHANGED <<since, baseline, posts, overlooked, next>>
      BY <1>4 DEF MarkMessage
    <2>2. posts[First] > 0
      BY <2>1 DEF PassInv
    <2>3. PassedIsPosted'
      BY <2>1 DEF PassInv, PassedIsPosted
    <2> QED BY <2>1, <2>2, <2>3 DEF PassInv
  <1>5. CASE SaveToken
    <2>1. /\ mx = "synced" /\ batch = {} /\ since' = next /\ mx' = "idle"
          /\ UNCHANGED <<baseline, seen, posts, overlooked>>
      BY <1>5 DEF SaveToken, EndMatrix
    <2>2. since # None /\ next # None
      BY <2>1, ConstantsAssumption DEF TypeOK
    <2>3. PassedIsPosted'
      BY <2>1 DEF PassInv, PassedIsPosted
    <2> QED BY <2>1, <2>2, <2>3 DEF PassInv
  <1>6. CASE MatrixFails
    BY <1>6, PassFrame DEF MatrixFails, EndMatrix, state
  <1> QED BY <1>1, <1>2, <1>3, <1>4, <1>5, <1>6 DEF MatrixRun

LEMMA PassStep == TypeOK /\ PassInv /\ [Next]_vars => PassInv'
  <1> SUFFICES ASSUME TypeOK, PassInv, [Next]_vars PROVE PassInv'
    OBVIOUS
  <1>1. CASE World \/ Start \/ PreflightFails \/ Crash \/ UNCHANGED vars
    BY <1>1, PassFrame
    DEF World, Tick, Say, Push, Start, PreflightFails, Crash, EndMatrix, vars, state, github, matrix
  <1>2. CASE Preflight
    <2>1. CASE since # None
      BY <1>2, <2>1, PassFrame DEF Preflight
    <2>2. CASE since = None
      <3>1. /\ since' = room /\ baseline' = room /\ mx' = "idle" /\ mx = "idle" /\ room \in Nat
            /\ UNCHANGED <<seen, posts, overlooked>>
        BY <1>2, <2>2, ConstantsAssumption DEF Preflight, TypeOK, matrix
      <3>2. PassedIsPosted'
        BY <3>1, ConstantsAssumption DEF PassedIsPosted
      <3> QED BY <3>1, <3>2, ConstantsAssumption DEF PassInv
    <2> QED BY <2>1, <2>2
  <1>3. CASE GitHubRun
    <2>1. \A i \in Items : posts[i] > 0 => posts'[i] > 0
      BY <1>3, CountGrows
      DEF GitHubRun, StartPoll, ListCommits, PostSummary, MarkSHAs, SavePoll, GitHubFails
    <2>2. UNCHANGED <<since, baseline, seen, matrix>> /\ overlooked \subseteq overlooked'
      BY <1>3
      DEF GitHubRun, StartPoll, ListCommits, PostSummary, MarkSHAs, SavePoll, GitHubFails, state
    <2> QED BY <2>1, <2>2, PassFrame
  <1> QED BY <1>1, <1>2, <1>3, PassMatrix DEF Next
----------------------------------------------------------------------------
(* PolledIsPosted: what is older than the run is marked or one of its new *)

Asked == gh \in {"listed", "posted", "marked"}

PollInv ==
    /\ \A c \in shas : posts[c] > 0
    /\ gh = "posted" => \A c \in new : posts[c] > 0
    /\ gh = "marked" => new \subseteq shas
    /\ lastPoll # None =>
          /\ lastPoll <= now
          /\ gh # "idle" => lastPoll <= runAt
          /\ \A c \in Pushed : dates[c] < lastPoll /\ c \notin overlooked => c \in shas
    /\ Asked =>
          \A c \in Pushed : dates[c] < runAt /\ c \notin overlooked => c \in new \cup shas

LEMMA PollInit == Init => PollInv
  BY DEF Init, PollInv, Asked

LEMMA PollImplies ==
  ASSUME PollInv
  PROVE  PolledIsPosted
  BY DEF PollInv, PolledIsPosted

\* The run goes on with what it has, starts or ends; notes only become more.
LEMMA PollFrame ==
  ASSUME TypeOK, PollInv, UNCHANGED <<dates, lastPoll, shas>>, now <= now', now' \in Nat,
         overlooked \subseteq overlooked',
         \A i \in Items : posts[i] > 0 => posts'[i] > 0,
         \/ UNCHANGED github \/ gh' = "idle" 
         \/ gh' = "asking" /\ runAt' = now
  PROVE  PollInv'
  <1>1. /\ Pushed' = Pushed /\ Pushed \subseteq Items /\ shas \subseteq Items /\ new \subseteq Items
        /\ now \in Nat /\ (lastPoll # None => lastPoll \in Nat)
    BY DEF TypeOK, Pushed, Items
  <1>2. lastPoll # None =>
          /\ lastPoll <= now'
          /\ \A c \in Pushed : dates[c] < lastPoll /\ c \notin overlooked' => c \in shas
    BY <1>1 DEF PollInv
  <1>3. \A c \in shas : posts'[c] > 0
    BY <1>1 DEF PollInv
  <1>4. CASE UNCHANGED github
    BY <1>1, <1>2, <1>3, <1>4 DEF PollInv, Asked, github
  <1>5. CASE gh' = "idle"
    BY <1>1, <1>2, <1>3, <1>5 DEF PollInv, Asked
  <1>6. CASE gh' = "asking" /\ runAt' = now
    BY <1>1, <1>2, <1>3, <1>6 DEF PollInv, Asked
  <1> QED BY <1>4, <1>5, <1>6

\* A commit that comes too late for a poll is one that is overlooked.
LEMMA PollPush ==
  ASSUME TypeOK, PollInv, NEW c \in Commits, Push(c)
  PROVE  PollInv'
  <1>1. PICK d \in 0 .. now :
          /\ dates' = [dates EXCEPT ![c] = d]
          /\ overlooked' =
                IF \/ lastPoll # None /\ d < lastPoll
                   \/ gh \notin {"idle", "asking"} /\ d < runAt
                THEN overlooked \cup {c} ELSE overlooked
    BY DEF Push
  <1>2. UNCHANGED <<now, lastPoll, shas, github, posts>> /\ overlooked \subseteq overlooked'
    BY <1>1 DEF Push, state
  <1>3. \A e \in Commits : dates'[e] = (IF e = c THEN d ELSE dates[e])
    BY <1>1 DEF TypeOK
  <1>4. Pushed' \subseteq Pushed \cup {c} /\ \A e \in Pushed' : e # c => e \in Pushed
    BY <1>3 DEF Pushed
  <1>5. ASSUME lastPoll # None, NEW e \in Pushed', dates'[e] < lastPoll, e \notin overlooked'
        PROVE  e \in shas
    <2>1. e \in Commits /\ e # c
      BY <1>1, <1>3, <1>5 DEF Pushed
    <2> QED BY <1>2, <1>3, <1>4, <1>5, <2>1 DEF PollInv
  <1>6. ASSUME Asked, NEW e \in Pushed', dates'[e] < runAt, e \notin overlooked'
        PROVE  e \in new \cup shas
    <2>1. e \in Commits /\ e # c
      BY <1>1, <1>3, <1>6 DEF Pushed, Asked
    <2> QED BY <1>2, <1>3, <1>4, <1>6, <2>1 DEF PollInv
  <1> QED BY <1>2, <1>5, <1>6 DEF PollInv, Asked, github

\* GitHub shows the newest commits: what it leaves out is overlooked, or was
\* passed by an earlier run.
LEMMA PollList ==
  ASSUME TypeOK, PollInv, ListCommits
  PROVE  PollInv'
  <1>1. PICK page \in SUBSET Pushed :
          /\ new' = page \ shas
          /\ overlooked' = overlooked \cup
                {c \in Pushed \ page : lastPoll = None \/ dates[c] >= lastPoll}
    BY DEF ListCommits
  <1>2. /\ gh = "asking" /\ gh' = (IF new' = {} THEN "marked" ELSE "listed")
        /\ UNCHANGED <<now, dates, lastPoll, shas, runAt, posts>>
    BY DEF ListCommits, world, state
  <1>3. Pushed' = Pushed
    BY <1>2 DEF Pushed
  <1>4. ASSUME NEW c \in Pushed, dates[c] < runAt, c \notin overlooked'
        PROVE  c \in new' \cup shas
    <2>1. CASE c \in page
      BY <1>1, <2>1
    <2>2. CASE c \notin page
      <3>1. lastPoll # None /\ ~(dates[c] >= lastPoll)
        BY <1>1, <1>4, <2>2
      <3>2. dates[c] \in Nat /\ lastPoll \in Nat
        BY <3>1, ConstantsAssumption DEF TypeOK, Pushed
      <3>3. dates[c] < lastPoll
        BY <3>1, <3>2
      <3> QED BY <1>1, <1>4, <3>1, <3>3 DEF PollInv
    <2> QED BY <2>1, <2>2
  <1>5. gh' # "posted" /\ (gh' = "marked" => new' = {})
    BY <1>2
  <1> QED BY <1>1, <1>2, <1>3, <1>4, <1>5 DEF PollInv, Asked

LEMMA PollGitHub == ASSUME TypeOK, PollInv, GitHubRun PROVE PollInv'
  <1>1. CASE StartPoll
    BY <1>1, PollFrame DEF StartPoll, world, state, TypeOK
  <1>2. CASE ListCommits
    BY <1>2, PollList
  <1>3. CASE PostSummary
    <2>1. /\ gh = "listed" /\ gh' = "posted"
          /\ UNCHANGED <<now, dates, lastPoll, shas, runAt, new, overlooked>>
      BY <1>3 DEF PostSummary, world, state
    <2>2. Pushed' = Pushed /\ shas \subseteq Items /\ new \subseteq Items
      BY <2>1 DEF TypeOK, Pushed, Items
    <2>3. /\ \A i \in Items : posts[i] > 0 => posts'[i] > 0
          /\ \A i \in Items \cap new : posts'[i] > 0
      BY <1>3, CountGrows DEF PostSummary
    <2> QED BY <2>1, <2>2, <2>3 DEF PollInv, Asked
  <1>4. CASE MarkSHAs
    <2>1. /\ gh = "posted" /\ gh' = "marked" /\ shas' = shas \cup new
          /\ UNCHANGED <<now, dates, lastPoll, runAt, new, overlooked, posts>>
      BY <1>4 DEF MarkSHAs, world
    <2>2. Pushed' = Pushed
      BY <2>1 DEF Pushed
    <2> QED BY <2>1, <2>2 DEF PollInv, Asked
  <1>5. CASE SavePoll
    <2>1. /\ gh = "marked" /\ gh' = "idle" /\ lastPoll' = runAt
          /\ UNCHANGED <<now, dates, shas, overlooked, posts>>
      BY <1>5 DEF SavePoll, EndGitHub, world
    <2>2. Pushed' = Pushed
      BY <2>1 DEF Pushed
    <2>3. runAt \in 0 .. now /\ now \in Nat
      BY <2>1 DEF TypeOK
    <2> QED BY <2>1, <2>2, <2>3 DEF PollInv, Asked
  <1>6. CASE GitHubFails
    BY <1>6, PollFrame DEF GitHubFails, EndGitHub, world, state, TypeOK
  <1> QED BY <1>1, <1>2, <1>3, <1>4, <1>5, <1>6 DEF GitHubRun

LEMMA PollStep == TypeOK /\ PollInv /\ [Next]_vars => PollInv'
  <1> SUFFICES ASSUME TypeOK, PollInv, [Next]_vars PROVE PollInv'
    OBVIOUS
  <1>1. now \in Nat
    BY DEF TypeOK
  <1>2. CASE Tick \/ Say \/ Start \/ Preflight \/ PreflightFails \/ Crash \/ UNCHANGED vars
    BY <1>1, <1>2, PollFrame
    DEF Tick, Say, Start, Preflight, PreflightFails, Crash, EndGitHub, vars, world, state
  <1>3. CASE MatrixRun
    <2>1. \A i \in Items : posts[i] > 0 => posts'[i] > 0
      BY <1>3, CountGrows
      DEF MatrixRun, Sync, SkipSeen, PostMessage, MarkMessage, SaveToken, MatrixFails
    <2>2. UNCHANGED <<now, dates, lastPoll, shas, github>> /\ overlooked \subseteq overlooked'
      BY <1>3
      DEF MatrixRun, Sync, SkipSeen, PostMessage, MarkMessage, SaveToken, MatrixFails, world, state
    <2> QED BY <1>1, <2>1, <2>2, PollFrame
  <1> QED BY <1>2, <1>3, PollPush, PollGitHub DEF Next, World

----------------------------------------------------------------------------
(* The branch is forwarded *)

CommitPosts == [c \in Commits |-> posts[c]]

Behind == {c \in Pushed : lastPoll # None /\ dates[c] < lastPoll}

\* What concerns messages alone, and what concerns neither.
LEMMA BranchStays ==
  ASSUME UNCHANGED <<dates, lastPoll>>, Pushed \cap overlooked' = Pushed \cap overlooked,
         \A c \in Commits : posts'[c] = posts[c]
  PROVE  UNCHANGED Branch!fwdVars
  <1>1. Pushed' = Pushed /\ Behind' = Behind /\ CommitPosts' = CommitPosts
    BY DEF Pushed, Behind, CommitPosts
  <1> QED BY <1>1 DEF Branch!fwdVars, Behind, CommitPosts

LEMMA PushComes ==
  ASSUME TypeOK, NEW c \in Commits, Push(c)
  PROVE  Branch!Come(c)
  <1>1. PICK d \in 0 .. now :
          /\ dates' = [dates EXCEPT ![c] = d]
          /\ overlooked' =
                IF \/ lastPoll # None /\ d < lastPoll
                   \/ gh \notin {"idle", "asking"} /\ d < runAt
                THEN overlooked \cup {c} ELSE overlooked
    BY DEF Push
  <1>2. dates[c] = None /\ UNCHANGED <<lastPoll, posts>>
    BY DEF Push, state
  <1>3. /\ \A e \in Commits : dates'[e] = (IF e = c THEN d ELSE dates[e])
        /\ d # None
    BY <1>1, ConstantsAssumption DEF TypeOK
  <1>4. c \notin Pushed /\ Pushed' = Pushed \cup {c}
    BY <1>2, <1>3 DEF Pushed
  <1>5. \A e \in Pushed : e # c /\ dates'[e] = dates[e]
    BY <1>3, <1>4 DEF Pushed
  <1>6. CommitPosts' = CommitPosts
    BY <1>2 DEF CommitPosts
  <1>7. CASE lastPoll # None /\ d < lastPoll
    <2>1. Behind' = Behind \cup {c}
      BY <1>2, <1>3, <1>4, <1>5, <1>7 DEF Behind
    <2>2. (Pushed \cap overlooked)' = (Pushed \cap overlooked) \cup {c}
      BY <1>1, <1>4, <1>7
    <2> QED BY <1>4, <1>6, <2>1, <2>2 DEF Branch!Come, Behind, CommitPosts
  <1>8. CASE ~(lastPoll # None /\ d < lastPoll)
    <2>1. Behind' = Behind
      BY <1>2, <1>3, <1>4, <1>5, <1>8 DEF Behind
    <2>2. (Pushed \cap overlooked)' \in {Pushed \cap overlooked, (Pushed \cap overlooked) \cup {c}}
      BY <1>1, <1>4
    <2> QED BY <1>4, <1>6, <2>1, <2>2 DEF Branch!Come, Behind, CommitPosts
  <1> QED BY <1>7, <1>8

LEMMA ListSkips ==
  ASSUME TypeOK, ListCommits
  PROVE  \E S \in SUBSET Pushed : Branch!Skip(S)
  <1>1. PICK page \in SUBSET Pushed :
          overlooked' = overlooked \cup
                {c \in Pushed \ page : lastPoll = None \/ dates[c] >= lastPoll}
    BY DEF ListCommits
  <1> DEFINE S == {c \in Pushed \ page : lastPoll = None \/ dates[c] >= lastPoll}
  <1>2. UNCHANGED <<dates, lastPoll, posts>>
    BY DEF ListCommits, world, state
  <1>3. \A c \in Behind : dates[c] \in Nat /\ lastPoll \in Nat /\ lastPoll # None
    BY DEF Behind, Pushed, TypeOK
  <1>4. S \cap Behind = {}
    BY <1>3 DEF Behind
  <1>5. S \subseteq Pushed /\ Pushed' = Pushed
    BY <1>2 DEF Pushed
  <1>6. Behind' = Behind /\ CommitPosts' = CommitPosts
    BY <1>2, <1>5 DEF Behind, CommitPosts
  <1>7. overlooked' = overlooked \cup S
    BY <1>1
  <1> HIDE DEF S
  <1>8. Branch!Skip(S)
    BY <1>4, <1>5, <1>6, <1>7 DEF Branch!Skip, Behind, CommitPosts
  <1> QED BY <1>5, <1>8

\* What the poll is past and was shown is marked, so it is not among the new.
LEMMA SummaryPosts ==
  ASSUME TypeOK, PollInv, RepeatInv, PostSummary
  PROVE  \E S \in SUBSET Pushed : Branch!Post(S)
  <1>1. gh = "listed" /\ UNCHANGED <<dates, lastPoll, overlooked>>
    BY DEF PostSummary, world, state
  <1>2. new \subseteq Pushed /\ new \cap shas = {} /\ Commits \subseteq Items
    BY <1>1 DEF TypeOK, RepeatInv, Items
  <1>3. Behind \subseteq shas \cup overlooked
    BY DEF Behind, PollInv
  <1>4. PICK S \in SUBSET Pushed : S = new
    BY <1>2
  <1>5. S \cap Behind \subseteq Pushed \cap overlooked
    BY <1>2, <1>3, <1>4
  <1>6. CommitPosts' = [c \in Commits |-> IF c \in S THEN CommitPosts[c] + 1 ELSE CommitPosts[c]]
    BY <1>2, <1>4 DEF PostSummary, Count, CommitPosts
  <1>7. Pushed' = Pushed /\ Behind' = Behind
    BY <1>1 DEF Pushed, Behind
  <1>8. Branch!Post(S)
    BY <1>1, <1>5, <1>6, <1>7 DEF Branch!Post, Behind, CommitPosts
  <1> QED BY <1>8

LEMMA SavePasses ==
  ASSUME TypeOK, PollInv, SavePoll
  PROVE  \E S \in SUBSET Pushed : Branch!Pass(S)
  <1>0. PICK S \in SUBSET Pushed : S = {c \in Pushed : dates[c] < runAt}
    OBVIOUS
  <1>1. gh = "marked" /\ lastPoll' = runAt /\ UNCHANGED <<dates, overlooked, posts>>
    BY DEF SavePoll, world
  <1>2. runAt \in Nat /\ runAt # None /\ \A c \in Pushed : dates[c] \in Nat
    BY <1>1, ConstantsAssumption DEF TypeOK, Pushed
  <1>3. Pushed' = Pushed /\ CommitPosts' = CommitPosts
    BY <1>1 DEF Pushed, CommitPosts
  <1>4. Behind' = S
    BY <1>0, <1>1, <1>2, <1>3 DEF Behind
  <1>5. Behind \subseteq S
    BY <1>0, <1>1, <1>2 DEF Behind, PollInv, TypeOK
  <1>6. \A c \in S : c \in Pushed \cap overlooked \/ CommitPosts[c] > 0
    BY <1>0, <1>1 DEF PollInv, Asked, CommitPosts, Pushed
  <1>7. Branch!Pass(S)
    BY <1>1, <1>3, <1>4, <1>5, <1>6 DEF Branch!Pass, Behind, CommitPosts
  <1> QED BY <1>7

LEMMA BranchStep ==
  ASSUME TypeOK, PollInv, RepeatInv, [Next]_vars
  PROVE  [Branch!Next]_(Branch!fwdVars)
  <1>1. ASSUME NEW c \in Commits, Push(c) PROVE Branch!Next
    BY <1>1, PushComes DEF Branch!Next
  <1>2. CASE ListCommits
    BY <1>2, ListSkips DEF Branch!Next
  <1>3. CASE PostSummary
    BY <1>3, SummaryPosts DEF Branch!Next
  <1>4. CASE SavePoll
    BY <1>4, SavePasses DEF Branch!Next
  <1>5. CASE \/ Tick \/ Say \/ Start \/ Preflight \/ PreflightFails \/ Crash \/ StartPoll
             \/ MarkSHAs \/ GitHubFails \/ UNCHANGED vars
    BY <1>5, BranchStays
    DEF Tick, Say, Start, Preflight, PreflightFails, Crash, StartPoll, MarkSHAs, GitHubFails,
        vars, world, state
  <1>6. CASE MatrixRun
    <2>1. UNCHANGED <<dates, lastPoll>>
      BY <1>6
      DEF MatrixRun, Sync, SkipSeen, PostMessage, MarkMessage, SaveToken, MatrixFails, world, state
    <2>2. Pushed \cap overlooked' = Pushed \cap overlooked
      <3>1. CASE Sync
        <4>1. \A i \in 1 .. room : i \notin Commits
          BY ConstantsAssumption DEF TypeOK
        <4> QED BY <3>1, <4>1 DEF Sync, Pushed
      <3> QED
        BY <1>6, <3>1
        DEF MatrixRun, SkipSeen, PostMessage, MarkMessage, SaveToken, MatrixFails
    <2>3. \A c \in Commits : posts'[c] = posts[c]
      <3>1. CASE PostMessage
        <4>1. First \in 1 .. room
          BY <3>1, BatchFirst DEF PostMessage
        <4>2. \A c \in Commits : c \in Items /\ c # First
          BY <4>1, ConstantsAssumption DEF TypeOK, Items
        <4> QED BY <3>1, <4>2, CountTypes DEF PostMessage, TypeOK
      <3> QED
        BY <1>6, <3>1 DEF MatrixRun, Sync, SkipSeen, MarkMessage, SaveToken, MatrixFails
    <2> QED BY <2>1, <2>2, <2>3, BranchStays
  <1> QED BY <1>1, <1>2, <1>3, <1>4, <1>5, <1>6 DEF Next, World, GitHubRun

LEMMA BranchInit == Init => Branch!Init
  BY DEF Init, Branch!Init, Pushed, Items

----------------------------------------------------------------------------
(* The room is forwarded *)

Heard == Foreign \cap 1 .. room

Ignored == {i \in Foreign \cap 1 .. room : i \in overlooked \/ (baseline # None /\ i <= baseline)}

Read == {i \in Foreign \cap 1 .. room : since # None /\ i <= since}

MessagePosts == [i \in 1 .. MaxRoom |-> posts[i]]

\* A run posts what others said after the token; before the first token, none.
RoomInv ==
    /\ since = None => \A i \in 1 .. MaxRoom : posts[i] = 0
    /\ mx = "idle" => batch = {}
    /\ \A i \in batch : i \in Foreign /\ i > since

LEMMA RoomInvInit == Init => RoomInv
  BY DEF Init, RoomInv, Items

LEMMA RoomInvStep == TypeOK /\ RoomInv /\ [Next]_vars => RoomInv'
  <1> SUFFICES ASSUME TypeOK, RoomInv, [Next]_vars PROVE RoomInv'
    OBVIOUS
  <1>1. ASSUME UNCHANGED since, UNCHANGED matrix \/ (mx' = "idle" /\ batch' = {}),
               since = None => \A i \in 1 .. MaxRoom : posts'[i] = posts[i]
        PROVE  RoomInv'
    BY <1>1 DEF RoomInv, matrix
  <1>2. CASE World \/ Start \/ PreflightFails \/ Crash \/ UNCHANGED vars
    BY <1>1, <1>2
    DEF World, Tick, Say, Push, Start, PreflightFails, Crash, EndMatrix, vars, state
  <1>3. CASE Preflight
    <2>1. since' # None
      BY <1>3, ConstantsAssumption DEF Preflight, TypeOK
    <2>2. mx = "idle" /\ batch = {} /\ UNCHANGED matrix
      BY <1>3 DEF Preflight, RoomInv, TypeOK
    <2> QED BY <2>1, <2>2 DEF RoomInv, matrix
  <1>4. CASE GitHubRun
    <2>1. UNCHANGED since /\ UNCHANGED matrix
      BY <1>4
      DEF GitHubRun, StartPoll, ListCommits, PostSummary, MarkSHAs, SavePoll, GitHubFails, state
    <2>2. \A i \in 1 .. MaxRoom : posts'[i] = posts[i]
      <3>1. CASE PostSummary
        <4>1. \A i \in 1 .. MaxRoom : i \in Items /\ i \notin new
          BY ConstantsAssumption DEF TypeOK, Pushed, Items
        <4> QED BY <3>1, <4>1, CountTypes DEF PostSummary, TypeOK
      <3> QED
        BY <1>4, <3>1 DEF GitHubRun, StartPoll, ListCommits, MarkSHAs, SavePoll, GitHubFails
    <2> QED BY <1>1, <2>1, <2>2
  <1>5. CASE Sync
    <2>1. /\ since # None /\ UNCHANGED since /\ mx' # "idle"
          /\ batch' \subseteq {i \in Foreign : i > since}
      BY <1>5 DEF Sync, TypeOK, state
    <2> QED BY <2>1 DEF RoomInv
  <1>6. CASE SkipSeen \/ MarkMessage \/ PostMessage
    <2>1. /\ mx # "idle" /\ mx' # "idle" /\ since # None /\ UNCHANGED since
          /\ batch' \subseteq batch
      BY <1>6 DEF SkipSeen, MarkMessage, PostMessage, TypeOK, state
    <2> QED BY <2>1 DEF RoomInv
  <1>7. CASE SaveToken
    <2>1. since' = next /\ next # None /\ mx' = "idle" /\ batch' = {}
      BY <1>7, ConstantsAssumption DEF SaveToken, EndMatrix, TypeOK
    <2> QED BY <2>1 DEF RoomInv
  <1>8. CASE MatrixFails
    BY <1>1, <1>8 DEF MatrixFails, EndMatrix, state
  <1> QED BY <1>2, <1>3, <1>4, <1>5, <1>6, <1>7, <1>8 DEF Next, MatrixRun

LEMMA RoomStays ==
  ASSUME UNCHANGED <<room, since, baseline>>,
         \A i \in 1 .. room : i \in overlooked' <=> i \in overlooked,
         \A i \in 1 .. MaxRoom : posts'[i] = posts[i]
  PROVE  UNCHANGED Room!fwdVars
  <1>1. Heard' = Heard /\ Ignored' = Ignored /\ Read' = Read /\ MessagePosts' = MessagePosts
    BY DEF Heard, Ignored, Read, MessagePosts
  <1> QED BY <1>1 DEF Room!fwdVars, Heard, Ignored, Read, MessagePosts

LEMMA SayComes ==
  ASSUME TypeOK, PassInv, Say
  PROVE  [Room!Next]_(Room!fwdVars)
  <1>1. /\ room' = room + 1 /\ room < MaxRoom /\ room \in Nat /\ MaxRoom \in Nat
        /\ UNCHANGED <<since, baseline, overlooked, posts>>
    BY ConstantsAssumption DEF Say, TypeOK, state
  <1>2. (since # None => since \in 0 .. room) /\ (baseline # None => baseline \in 0 .. room)
    BY DEF TypeOK
  <1>3. 1 .. room' = 1 .. room \cup {room + 1} /\ room + 1 \notin 1 .. room
    BY <1>1
  <1>4. MessagePosts' = MessagePosts
    BY <1>1 DEF MessagePosts
  <1>5. Read' = Read
    BY <1>1, <1>2, <1>3 DEF Read
  <1>6. CASE room + 1 \notin Foreign
    <2>1. Heard' = Heard /\ Ignored' = Ignored
      BY <1>1, <1>3, <1>6 DEF Heard, Ignored
    <2> QED BY <1>4, <1>5, <2>1 DEF Room!fwdVars, Heard, Ignored, Read, MessagePosts
  <1>7. CASE room + 1 \in Foreign
    <2>1. PICK i \in 1 .. MaxRoom : i = room + 1
      BY <1>1
    <2>2. i \notin Heard /\ Heard' = Heard \cup {i}
      BY <1>3, <1>7, <2>1 DEF Heard
    <2>3. Ignored' \in {Ignored, Ignored \cup {i}}
      BY <1>1, <1>3, <2>1 DEF Ignored
    <2>4. Room!Come(i)
      BY <1>4, <1>5, <2>2, <2>3 DEF Room!Come, Heard, Ignored, Read, MessagePosts
    <2> QED BY <2>4 DEF Room!Next
  <1> QED BY <1>6, <1>7

\* Only a first start takes a baseline, before anything was posted.
LEMMA PreflightBegins ==
  ASSUME TypeOK, PassInv, RoomInv, Preflight
  PROVE  [Room!Next]_(Room!fwdVars)
  <1>1. UNCHANGED <<room, overlooked, posts>>
    BY DEF Preflight, world
  <1>2. CASE since # None
    BY <1>1, <1>2, RoomStays DEF Preflight
  <1>3. CASE since = None
    <2>1. /\ since' = room /\ baseline' = room /\ room # None
          /\ \A i \in Foreign \cap 1 .. room : i <= room
      BY <1>3, ConstantsAssumption DEF Preflight, TypeOK
    <2>2. Read = {} /\ MessagePosts = [i \in 1 .. MaxRoom |-> 0]
      BY <1>3 DEF Read, MessagePosts, RoomInv
    <2>3. Heard' = Heard /\ Ignored' = Heard /\ Read' = Heard /\ MessagePosts' = MessagePosts
      BY <1>1, <2>1 DEF Heard, Ignored, Read, MessagePosts
    <2>4. Room!Begin
      BY <2>2, <2>3 DEF Room!Begin, Heard, Ignored, Read, MessagePosts
    <2> QED BY <2>4 DEF Room!Next
  <1> QED BY <1>2, <1>3

LEMMA SyncSkips ==
  ASSUME TypeOK, Sync
  PROVE  \E S \in SUBSET (Foreign \cap 1 .. room) : Room!Skip(S)
  <1>1. /\ since \in Nat /\ room \in Nat /\ Limit \in Nat
        /\ UNCHANGED <<room, since, baseline, posts>>
    BY ConstantsAssumption DEF Sync, TypeOK, world, state
  <1>2. overlooked' = overlooked \cup {i \in 1 .. room : i > since /\ ~(i > room - Limit)}
    BY DEF Sync
  <1>3. PICK S \in SUBSET (Foreign \cap 1 .. room) :
          S = {i \in Foreign \cap 1 .. room : i > since /\ ~(i > room - Limit)}
    OBVIOUS
  <1>4. S \cap Read = {}
    BY <1>1, <1>3 DEF Read
  <1>5. Ignored' = Ignored \cup S
    BY <1>1, <1>2, <1>3 DEF Ignored
  <1>6. Heard' = Heard /\ Read' = Read /\ MessagePosts' = MessagePosts
    BY <1>1 DEF Heard, Read, MessagePosts
  <1>7. Room!Skip(S)
    BY <1>4, <1>5, <1>6 DEF Room!Skip, Heard, Ignored, Read, MessagePosts
  <1> QED BY <1>7

LEMMA MessagePosted ==
  ASSUME TypeOK, RoomInv, PostMessage
  PROVE  \E S \in SUBSET (Foreign \cap 1 .. room) : Room!Post(S)
  <1>1. /\ batch # {} /\ since \in 0 .. room
        /\ UNCHANGED <<room, since, baseline, overlooked>>
    BY DEF PostMessage, TypeOK, world, state
  <1>2. First \in batch /\ First \in 1 .. room /\ First \in Foreign /\ First > since
    BY <1>1, BatchFirst DEF RoomInv
  <1>3. PICK S \in SUBSET (Foreign \cap 1 .. room) : S = {First}
    BY <1>2
  <1>4. S \cap Read = {}
    BY <1>1, <1>2, <1>3 DEF Read
  <1>5. \A i \in 1 .. MaxRoom : posts'[i] = (IF i \in S THEN posts[i] + 1 ELSE posts[i])
    BY <1>3, CountTypes DEF PostMessage, TypeOK, Items
  <1>6. MessagePosts' = [i \in 1 .. MaxRoom |-> IF i \in S THEN MessagePosts[i] + 1
                                                           ELSE MessagePosts[i]]
    BY <1>5 DEF MessagePosts
  <1>7. Heard' = Heard /\ Ignored' = Ignored /\ Read' = Read
    BY <1>1 DEF Heard, Ignored, Read
  <1>8. Room!Post(S)
    BY <1>4, <1>6, <1>7 DEF Room!Post, Heard, Ignored, Read, MessagePosts
  <1> QED BY <1>8

LEMMA TokenPasses ==
  ASSUME TypeOK, PassInv, SaveToken
  PROVE  \E S \in SUBSET (Foreign \cap 1 .. room) : Room!Pass(S)
  <1>1. /\ since' = next /\ batch = {} /\ mx # "idle"
        /\ since \in 0 .. room /\ next \in since .. room /\ next # None /\ baseline # None
        /\ room \in Nat /\ room <= MaxRoom /\ baseline \in Nat
        /\ UNCHANGED <<room, baseline, overlooked, posts>>
    BY ConstantsAssumption DEF SaveToken, TypeOK, PassInv, world
  <1>2. PICK S \in SUBSET (Foreign \cap 1 .. room) : S = {i \in Foreign \cap 1 .. room : i <= next}
    OBVIOUS
  <1>3. Read' = S
    BY <1>1, <1>2 DEF Read
  <1>4. Read \subseteq S
    BY <1>1, <1>2 DEF Read
  <1>5. \A i \in S : i \in 1 .. MaxRoom /\ i \in Nat
    BY <1>1, ConstantsAssumption
  <1>6. \A i \in S : i \in Ignored \/ MessagePosts[i] > 0
    <2> SUFFICES ASSUME NEW i \in S, i \notin Ignored PROVE MessagePosts[i] > 0
      OBVIOUS
    <2>1. i \in Foreign /\ i <= next /\ i \notin overlooked /\ baseline < i
      BY <1>1, <1>2, <1>5 DEF Ignored
    <2>2. posts[i] > 0
      BY <1>1, <2>1 DEF PassInv
    <2> QED BY <1>5, <2>2 DEF MessagePosts
  <1>7. Heard' = Heard /\ Ignored' = Ignored /\ MessagePosts' = MessagePosts
    BY <1>1 DEF Heard, Ignored, MessagePosts
  <1>8. Room!Pass(S)
    BY <1>3, <1>4, <1>6, <1>7 DEF Room!Pass, Heard, Ignored, Read, MessagePosts
  <1> QED BY <1>8

LEMMA RoomStep ==
  ASSUME TypeOK, PassInv, RoomInv, [Next]_vars
  PROVE  [Room!Next]_(Room!fwdVars)
  <1>1. CASE Say
    BY <1>1, SayComes
  <1>2. CASE Preflight
    BY <1>2, PreflightBegins
  <1>3. CASE Sync
    BY <1>3, SyncSkips DEF Room!Next
  <1>4. CASE PostMessage
    BY <1>4, MessagePosted DEF Room!Next
  <1>5. CASE SaveToken
    BY <1>5, TokenPasses DEF Room!Next
  <1>6. CASE \/ Tick \/ Start \/ PreflightFails \/ Crash \/ SkipSeen \/ MarkMessage \/ MatrixFails
             \/ UNCHANGED vars
    BY <1>6, RoomStays
    DEF Tick, Start, PreflightFails, Crash, SkipSeen, MarkMessage, MatrixFails, vars, world, state
  <1>7. ASSUME NEW c \in Commits, Push(c) PROVE UNCHANGED Room!fwdVars
    <2>1. \A i \in 1 .. room : i # c
      BY ConstantsAssumption DEF TypeOK
    <2>2. \A i \in 1 .. room : i \in overlooked' <=> i \in overlooked
      BY <1>7, <2>1 DEF Push
    <2> QED BY <1>7, <2>2, RoomStays DEF Push, state
  <1>8. CASE GitHubRun
    <2>1. UNCHANGED <<room, since, baseline>>
      BY <1>8
      DEF GitHubRun, StartPoll, ListCommits, PostSummary, MarkSHAs, SavePoll, GitHubFails, world,
          state
    <2>2. \A i \in 1 .. room : i \in overlooked' <=> i \in overlooked
      <3>1. \A i \in 1 .. room : i \notin Pushed
        BY ConstantsAssumption DEF TypeOK, Pushed
      <3> QED
        BY <1>8, <3>1
        DEF GitHubRun, StartPoll, ListCommits, PostSummary, MarkSHAs, SavePoll, GitHubFails
    <2>3. \A i \in 1 .. MaxRoom : posts'[i] = posts[i]
      <3>1. CASE PostSummary
        <4>1. \A i \in 1 .. MaxRoom : i \in Items /\ i \notin new
          BY ConstantsAssumption DEF TypeOK, Pushed, Items
        <4> QED BY <3>1, <4>1, CountTypes DEF PostSummary, TypeOK
      <3> QED
        BY <1>8, <3>1 DEF GitHubRun, StartPoll, ListCommits, MarkSHAs, SavePoll, GitHubFails
    <2> QED BY <2>1, <2>2, <2>3, RoomStays
  <1> QED BY <1>1, <1>2, <1>3, <1>4, <1>5, <1>6, <1>7, <1>8 DEF Next, World, MatrixRun

LEMMA RoomInit == Init => Room!Init
  <1> SUFFICES ASSUME Init PROVE Room!Init
    OBVIOUS
  <1>1. 1 .. room = {}
    BY DEF Init
  <1>2. MessagePosts = [i \in 1 .. MaxRoom |-> 0]
    BY DEF Init, Items, MessagePosts
  <1> QED BY <1>1, <1>2 DEF Room!Init, MessagePosts

----------------------------------------------------------------------------
(* The theorems *)

\* The variables keep to their types and stages: without a baseline no loop runs.
THEOREM IngestorTypes == Spec => []TypeOK
  BY TypeInit, TypeStep, PTL DEF Spec

\* A second note about a commit or a message needs a failure between the post
\* and the mark (runGitHubOnce, runMatrixOnce).
THEOREM RepeatsAreMishaps == Spec => []RepeatsNeedAMishap
  <1>1. RepeatInv => RepeatsNeedAMishap
    BY DEF RepeatInv, RepeatsNeedAMishap, Items
  <1> QED BY <1>1, TypeInit, TypeStep, RepeatInit, RepeatStep, PTL DEF Spec

\* The token that runMatrixOnce saves passes no message that was not posted.
THEOREM NoMessageIsPassed == Spec => []PassedIsPosted
  <1>1. PassInv => PassedIsPosted
    BY DEF PassInv
  <1> QED BY <1>1, TypeInit, TypeStep, PassInit, PassStep, PTL DEF Spec

\* The time that runGitHubOnce saves passes no commit that was not posted.
THEOREM NoCommitIsPassed == Spec => []PolledIsPosted
  <1>1. PollInv => PolledIsPosted
    BY PollImplies
  <1> QED BY <1>1, TypeInit, TypeStep, PollInit, PollStep, PTL DEF Spec

\* The loop on GitHub forwards the commits it is shown: its saved time only moves
\* on, and what that is past is not posted again (runGitHubOnce).
THEOREM BranchForwarded == Spec => BranchIsForwarded
  <1> DEFINE IInv == TypeOK /\ PollInv /\ RepeatInv
  <1>1. Init => IInv
    BY TypeInit, PollInit, RepeatInit
  <1>2. IInv /\ [Next]_vars => IInv'
    BY TypeStep, PollStep, RepeatStep
  <1>3. IInv /\ [Next]_vars => [Branch!Next]_(Branch!fwdVars)
    BY BranchStep
  <1> QED BY <1>1, <1>2, <1>3, BranchInit, PTL DEF Spec, BranchIsForwarded, Branch!Spec

\* The loop on Matrix forwards what others say after the first start: its token
\* only moves on, and what that is past is not posted again (runMatrixOnce).
THEOREM RoomForwarded == Spec => RoomIsForwarded
  <1> DEFINE IInv == TypeOK /\ PassInv /\ RoomInv
  <1>1. Init => IInv
    BY TypeInit, PassInit, RoomInvInit
  <1>2. IInv /\ [Next]_vars => IInv'
    BY TypeStep, PassStep, RoomInvStep
  <1>3. IInv /\ [Next]_vars => [Room!Next]_(Room!fwdVars)
    BY RoomStep
  <1> QED BY <1>1, <1>2, <1>3, RoomInit, PTL DEF Spec, RoomIsForwarded, Room!Spec
=============================================================================
