----------------------- MODULE RepostPipeline_proofs -----------------------
(***************************************************************************)
(* The relay and nr-server together keep what each promises alone: every   *)
(* step of the pipeline is a step of either component's own model, or      *)
(* leaves it where it is, so the theorems about the two carry over.        *)
(***************************************************************************)
EXTENDS RepostPipeline, FiniteSetTheorems, SequenceTheorems, TLAPS

(* The theorems about the components, with the pipeline's constants and      *)
(* variables in the place of theirs.                                         *)
Srv == INSTANCE RepostServer_proofs WITH
    queue    <- Queue,
    MaxQueue <- MaxLines

Ing == INSTANCE RelayIngest_proofs WITH
    Events        <- Notes \cup Pings \cup Others \cup Server!Copies,
    AcceptedKinds <- AcceptedItems \cup Server!Copies

(* Both are instances of the modules the pipeline is made of.                *)
LEMMA ServerAssumed == Srv!ConstantsAssumption /\ Srv!DistinctAssumption
  BY PipelineAssumption
  DEF Server!ConstantsAssumption, Server!DistinctAssumption, Server!Items, Server!Copies,
      Srv!ConstantsAssumption, Srv!DistinctAssumption, Srv!Items, Srv!Copies

LEMMA SameServerInit == Server!Init => Srv!Init
  BY DEF Server!Init, Srv!Init

LEMMA SameServerStep == Server!ServerStep => Srv!ServerStep
  BY DEF Server!ServerStep, Server!Consume, Server!ConsumeFails, Server!Deliver, Server!QueryProfile,
         Server!Repost, Server!FailNip5, Server!Refuse, Server!Pong, Server!Rest,
         Server!Ack, Server!Throw, Server!Goto, Server!Current, Server!events, Server!relay,
         Srv!ServerStep, Srv!Consume, Srv!ConsumeFails, Srv!Deliver, Srv!QueryProfile,
         Srv!Repost, Srv!FailNip5, Srv!Refuse, Srv!Pong, Srv!Rest,
         Srv!Ack, Srv!Throw, Srv!Goto, Srv!Current, Srv!events, Srv!relay

LEMMA SameServerNext == [Server!Next]_(Server!vars) => [Srv!Next]_(Srv!vars)
  <1>1. Server!Disconnect \/ Server!Restart \/ Server!Crash =>
            Srv!Disconnect \/ Srv!Restart \/ Srv!Crash
    BY DEF Server!Disconnect, Server!Restart, Server!Crash, Server!Die, Server!Goto,
           Server!events, Server!relay,
           Srv!Disconnect, Srv!Restart, Srv!Crash, Srv!Die, Srv!Goto, Srv!events, Srv!relay
  <1>2. Server!RelayAnswer => Srv!RelayAnswer
    BY DEF Server!RelayAnswer, Server!Land, Server!Bounce, Server!MayReplace, Server!MayStay,
           Server!PlaceOfCopy, Server!Die, Server!Goto, Server!events,
           Srv!RelayAnswer, Srv!Land, Srv!Bounce, Srv!MayReplace, Srv!MayStay,
           Srv!PlaceOfCopy, Srv!Die, Srv!Goto, Srv!events
  <1>3. Server!Environment => Srv!Environment
    BY DEF Server!Environment, Server!Arrive, Server!Publish, Server!Assign, Server!Tick,
           Server!Items, Server!relay,
           Srv!Environment, Srv!Arrive, Srv!Publish, Srv!Assign, Srv!Tick, Srv!Items, Srv!relay
  <1>4. UNCHANGED Server!vars => UNCHANGED Srv!vars
    BY DEF Server!vars, Server!events, Server!relay, Srv!vars, Srv!events, Srv!relay
  <1>5. QED
    BY <1>1, <1>2, <1>3, <1>4, SameServerStep DEF Server!Next, Srv!Next

LEMMA SameIngest ==
    /\ Ingest!Init => Ing!Init
    /\ [Ingest!Next]_(Ingest!ingestVars) => [Ing!Next]_(Ing!ingestVars)
  BY DEF Ingest!Init, Ingest!Next, Ingest!ingestVars, Ingest!Submit, Ingest!Read,
         Ingest!Handler, Ingest!RefuseKind, Ingest!Publish, Ingest!PublishFails,
         Ingest!Answer, Ingest!GiveUp, Ingest!Waiting,
         Ing!Init, Ing!Next, Ing!ingestVars, Ing!Submit, Ing!Read,
         Ing!Handler, Ing!RefuseKind, Ing!Publish, Ing!PublishFails,
         Ing!Answer, Ing!GiveUp, Ing!Waiting

----------------------------------------------------------------------------
(* The server's queue is a view of the exchange's log *)

(* The lines published to the exchange are lines the relay was sent.         *)
LEMMA LoggedLines ==
    ASSUME Ing!IngestInv
    PROVE  /\ Len(log) \in Nat /\ Len(posts) \in Nat /\ Len(submitted) \in Nat
           /\ DOMAIN log = 1 .. Len(log)
           /\ \A k \in 1 .. Len(log) : log[k] \in 1 .. Len(submitted)
  <1>1. /\ submitted \in Seq(Notes \cup Pings \cup Others \cup Server!Copies)
        /\ posts \in Seq(Ing!Posts) /\ log \in Seq(Nat)
        /\ \A k \in 1 .. Len(log) : log[k] \in 1 .. Len(posts)
        /\ Len(posts) <= Len(submitted)
    BY DEF Ing!IngestInv, Ing!TypeInv
  <1>2. QED
    BY <1>1, LenProperties

(* Whatever the line, the server finds something in it that it knows.        *)
LEMMA ItemKnown == \A event : ItemOf(event) \in Server!Items
  BY PipelineAssumption DEF ItemOf, Server!Items

LEMMA QueueTyped ==
    ASSUME Ing!IngestInv
    PROVE  Queue \in Seq(Server!Items) /\ Len(Queue) = Len(log) /\ DOMAIN Queue = 1 .. Len(log)
  <1>1. Queue = [k \in 1 .. Len(log) |-> ItemOf(submitted[log[k]])] /\ Len(log) \in Nat
    BY LoggedLines DEF Queue
  <1>2. Queue \in Seq(Server!Items)
    <2> DEFINE item(k) == ItemOf(submitted[log[k]])
    <2>1. \A k \in 1 .. Len(log) : item(k) \in Server!Items
      BY ItemKnown
    <2> HIDE DEF item
    <2>2. [k \in 1 .. Len(log) |-> item(k)] \in Seq(Server!Items)
      BY <1>1, <2>1, IsASeq
    <2>3. QED
      BY <1>1, <2>2 DEF item
  <1>3. QED
    BY <1>1, <1>2, LenProperties

(* Lines added at the end of what the relay was sent change nothing in it.   *)
LEMMA QueueStays ==
    ASSUME Ing!IngestInv, UNCHANGED log,
           \A i \in 1 .. Len(submitted) : submitted'[i] = submitted[i]
    PROVE  Queue' = Queue
  BY LoggedLines DEF Queue

LEMMA UpTo ==
    ASSUME NEW n \in Nat
    PROVE  IsFiniteSet(1 .. n) /\ Cardinality(1 .. n) = n
  <1>1. 1 \in Int /\ n \in Int
    OBVIOUS
  <1>2. IsFiniteSet(1 .. n) /\ Cardinality(1 .. n) = IF 1 > n THEN 0 ELSE n - 1 + 1
    BY <1>1, FS_Interval, Zenon
  <1>3. QED
    BY <1>2

(* Each line is published once, so that no more are than may be submitted.   *)
LEMMA RoomToPublish ==
    ASSUME Ing!IngestInv, NEW i \in DOMAIN posts, Ingest!Publish(i)
    PROVE  Len(log) < Len(posts)
  <1>1. /\ posts \in Seq(Ing!Posts) /\ DOMAIN posts = 1 .. Len(posts)
        /\ Len(log) \in Nat /\ Len(posts) \in Nat
    BY LoggedLines, LenProperties DEF Ing!IngestInv, Ing!TypeInv
  <1>2. /\ \A k \in 1 .. Len(log) : log[k] \in 1 .. Len(posts)
        /\ \A j, k \in 1 .. Len(log) : log[j] = log[k] => j = k
        /\ \A k \in 1 .. Len(log) : posts[log[k]] = "published"
    BY DEF Ing!IngestInv, Ing!TypeInv, Ing!PublishedOnce
  <1>3. \A k \in 1 .. Len(log) : log[k] # i
    BY <1>2 DEF Ingest!Publish
  <1> DEFINE others == (1 .. Len(posts)) \ {i}
             line == [k \in 1 .. Len(log) |-> log[k]]
  <1>4. /\ IsFiniteSet(1 .. Len(log)) /\ Cardinality(1 .. Len(log)) = Len(log)
        /\ IsFiniteSet(others) /\ Cardinality(others) = Len(posts) - 1
    <2>1. /\ IsFiniteSet(1 .. Len(log)) /\ Cardinality(1 .. Len(log)) = Len(log)
          /\ IsFiniteSet(1 .. Len(posts)) /\ Cardinality(1 .. Len(posts)) = Len(posts)
      BY <1>1, UpTo
    <2>2. i \in 1 .. Len(posts)
      BY <1>1
    <2>3. IsFiniteSet(others) /\ Cardinality(others) = Cardinality(1 .. Len(posts)) - 1
      BY <2>1, <2>2, FS_RemoveElement, Zenon
    <2>4. QED
      BY <2>1, <2>3
  <1>5. line \in [1 .. Len(log) -> others]
    BY <1>2, <1>3
  <1>6. SUFFICES ASSUME Len(log) >= Len(posts) PROVE FALSE
    BY <1>1
  <1>7. Cardinality(others) < Cardinality(1 .. Len(log))
    BY <1>1, <1>4, <1>6
  <1> HIDE DEF others
  <1>8. \E j, k \in 1 .. Len(log) : j # k /\ line[j] = line[k]
    <2> HIDE DEF line
    <2>1. QED
      BY <1>4, <1>5, <1>7, FS_PigeonHole, Zenon
  <1>9. QED
    BY <1>2, <1>8

(* To the server, what is published to the exchange arrives in its queue.    *)
LEMMA PublishedArrives ==
    ASSUME Ing!IngestInv, Len(submitted) <= MaxLines, NEW i \in DOMAIN posts,
           Ingest!Publish(i), UNCHANGED serverVars
    PROVE  Server!Arrive(ItemOf(submitted[i]))
  <1>1. /\ log \in Seq(Nat) /\ i \in Nat /\ log' = Append(log, i)
        /\ UNCHANGED submitted /\ Len(posts) <= Len(submitted)
    BY LenProperties DEF Ing!IngestInv, Ing!TypeInv, Ingest!Publish
  <1>2. /\ DOMAIN log' = 1 .. Len(log) + 1 /\ log'[Len(log) + 1] = i
        /\ \A k \in 1 .. Len(log) : log'[k] = log[k]
    BY <1>1, AppendProperties, LenProperties
  <1> DEFINE item == ItemOf(submitted[i])
  <1>3. Queue \in Seq(Server!Items) /\ Len(Queue) = Len(log) /\ item \in Server!Items
        /\ Len(log) \in Nat
    BY QueueTyped, ItemKnown, LoggedLines
  <1>4. Queue' = Append(Queue, item)
    <2>1. Queue' = [k \in 1 .. Len(log) + 1 |-> ItemOf(submitted[log'[k]])]
      BY <1>1, <1>2 DEF Queue, ItemOf
    <2>2. \A k \in 1 .. Len(log) : Queue'[k] = Queue[k]
      <3> SUFFICES ASSUME NEW k \in 1 .. Len(log) PROVE Queue'[k] = Queue[k]
        OBVIOUS
      <3>1. Queue'[k] = ItemOf(submitted[log'[k]]) /\ log'[k] = log[k]
        BY <1>2, <1>3, <2>1
      <3>2. Queue[k] = ItemOf(submitted[log[k]])
        BY LoggedLines DEF Queue
      <3>3. QED
        BY <3>1, <3>2
    <2>3. Queue'[Len(log) + 1] = item
      BY <1>2, <1>3, <2>1
    <2>4. \A k \in 1 .. Len(log) + 1 : Queue'[k] = Append(Queue, item)[k]
      BY <1>3, <2>2, <2>3, AppendProperties
    <2>5. Queue' \in Seq(Server!Items) /\ Len(Queue') = Len(log) + 1
      <3>1. \A k \in 1 .. Len(log) + 1 : ItemOf(submitted[log'[k]]) \in Server!Items
        BY ItemKnown
      <3> DEFINE next(k) == ItemOf(submitted[log'[k]])
      <3> HIDE DEF next
      <3>2. [k \in 1 .. Len(log) + 1 |-> next(k)] \in Seq(Server!Items)
        BY <1>3, <3>1, IsASeq DEF next
      <3>3. QED
        BY <1>3, <2>1, <3>2, LenProperties DEF next
    <2>6. Append(Queue, item) \in Seq(Server!Items) /\ Len(Append(Queue, item)) = Len(log) + 1
      BY <1>3, AppendProperties
    <2>7. QED
      BY <2>4, <2>5, <2>6, SeqEqual
  <1>5. Len(Queue) < MaxLines
    BY <1>1, <1>3, RoomToPublish, LoggedLines, ServerAssumed DEF Srv!ConstantsAssumption
  <1>6. QED
    BY <1>4, <1>5 DEF Server!Arrive, Server!relay, serverVars

----------------------------------------------------------------------------
(* Each component sees its own steps *)

(* What both components know in every state of the pipeline: the relay's     *)
(* lines are events of the two, because what is on the server's wire are     *)
(* copies, and no more lines are submitted than the server's queue takes.    *)
PipelineInv ==
    /\ Ing!IngestInv
    /\ Srv!TypeInv
    /\ Len(submitted) <= MaxLines

LEMMA QueueUntouched ==
    ASSUME Ing!IngestInv, UNCHANGED <<submitted, log, serverVars>>
    PROVE  UNCHANGED Server!vars
  BY QueueStays DEF serverVars, Server!vars, Server!events, Server!relay

(* An event reaches strfry: the server sees nothing of it yet.               *)
LEMMA SubmitSeen ==
    ASSUME PipelineInv, Submit
    PROVE  Ingest!Next /\ UNCHANGED Server!vars /\ Len(submitted') <= MaxLines
  <1> DEFINE Published == Notes \cup Pings \cup Others \cup Server!Copies
  <1>1. wire \subseteq Server!Copies
    BY DEF PipelineInv, Srv!TypeInv, Srv!TypeOK, Srv!Copies, Server!Copies
  <1>2. PICK event \in Published : Ingest!Submit(event)
    BY <1>1 DEF Submit
  <1>3. /\ submitted \in Seq(Published) /\ submitted' = Append(submitted, event)
        /\ UNCHANGED log /\ Len(submitted) < MaxLines
    BY <1>2 DEF Ingest!Submit, PipelineInv, Ing!IngestInv, Ing!TypeInv
  <1> HIDE DEF Published
  <1>4. /\ Len(submitted') = Len(submitted) + 1 /\ Len(submitted) \in Nat
        /\ \A i \in 1 .. Len(submitted) : submitted'[i] = submitted[i]
    BY <1>3, AppendProperties, LenProperties
  <1>5. Queue' = Queue
    BY <1>3, <1>4, QueueStays DEF PipelineInv
  <1>6. UNCHANGED Server!vars
    BY <1>5 DEF Submit, serverVars, Server!vars, Server!events, Server!relay
  <1>7. Len(submitted') <= MaxLines
    BY <1>3, <1>4, ServerAssumed DEF Srv!ConstantsAssumption
  <1>8. QED
    BY <1>2, <1>6, <1>7 DEF Ingest!Next, Published

(* The plugin or a handler moves: a line that is published arrives.          *)
LEMMA IngestStepSeen ==
    ASSUME PipelineInv, IngestStep
    PROVE  Ingest!Next /\ [Server!Next]_(Server!vars) /\ UNCHANGED submitted
  <1>1. UNCHANGED serverVars
    BY DEF IngestStep
  <1>2. CASE Ingest!Read
    BY <1>1, <1>2, QueueUntouched DEF Ingest!Read, Ingest!Next, PipelineInv
  <1>3. ASSUME NEW i \in DOMAIN posts, Ingest!RefuseKind(i) \/ Ingest!PublishFails(i)
        PROVE  Ingest!Next /\ UNCHANGED <<submitted, Server!vars>>
    BY <1>1, <1>3, QueueUntouched
    DEF Ingest!RefuseKind, Ingest!PublishFails, Ingest!Handler, Ingest!Next, PipelineInv
  <1>4. ASSUME NEW i \in DOMAIN posts, Ingest!Publish(i)
        PROVE  Ingest!Next /\ Server!Next /\ UNCHANGED submitted
    <2>1. Server!Arrive(ItemOf(submitted[i]))
      BY <1>1, <1>4, PublishedArrives DEF PipelineInv
    <2>2. QED
      BY <1>4, <2>1, ItemKnown
      DEF Ingest!Publish, Ingest!Handler, Ingest!Next, Server!Environment, Server!Next
  <1>5. QED
    BY <1>2, <1>3, <1>4 DEF IngestStep, Ingest!Handler

(* A verdict is given: to the server, the relay's answer if it sent the line. *)
LEMMA VerdictSeen ==
    ASSUME PipelineInv, Verdict
    PROVE  Ingest!Next /\ [Server!Next]_(Server!vars) /\ UNCHANGED submitted
  <1>1. Ingest!Next /\ UNCHANGED <<submitted, log>>
    BY DEF Verdict, Ingest!Answer, Ingest!GiveUp, Ingest!Next
  <1>2. CASE UNCHANGED serverVars
    BY <1>1, <1>2, QueueUntouched DEF PipelineInv
  <1>3. CASE \E copy \in wire : Server!Land(copy) \/ Server!Bounce(copy)
    BY <1>1, <1>3 DEF Server!RelayAnswer, Server!Next
  <1>4. QED
    BY <1>2, <1>3 DEF Verdict

(* The server and the world around it leave the relay's lines alone.         *)
LEMMA ServerSeen ==
    ASSUME PipelineInv, ServerStep \/ World
    PROVE  UNCHANGED ingestVars /\ Server!Next
  BY DEF ServerStep, World, Server!Environment, Server!Next

LEMMA ComponentSteps ==
    ASSUME PipelineInv, [Next]_vars
    PROVE  /\ [Ingest!Next]_(Ingest!ingestVars) /\ [Server!Next]_(Server!vars)
           /\ Len(submitted') <= MaxLines
  <1>1. CASE Submit
    BY <1>1, SubmitSeen
  <1>2. CASE IngestStep
    BY <1>2, IngestStepSeen DEF PipelineInv
  <1>3. CASE Verdict
    BY <1>3, VerdictSeen DEF PipelineInv
  <1>4. CASE ServerStep \/ World
    BY <1>4, ServerSeen DEF PipelineInv, ingestVars, Ingest!ingestVars
  <1>5. CASE UNCHANGED vars
    BY <1>5, QueueUntouched DEF PipelineInv, vars, ingestVars, Ingest!ingestVars
  <1>6. QED
    BY <1>1, <1>2, <1>3, <1>4, <1>5 DEF Next

LEMMA PipelineInvariant == Spec => []PipelineInv
  <1>1. Init => PipelineInv
    <2> SUFFICES ASSUME Init PROVE PipelineInv
      OBVIOUS
    <2>1. Ing!IngestInv
      BY SameIngest, Ing!InitIngestInv DEF Init
    <2>2. Srv!TypeInv
      BY SameServerInit, ServerAssumed, Srv!InitTypeInv DEF Init
    <2>3. Len(submitted) = 0 /\ MaxLines \in Nat
      BY ServerAssumed DEF Init, Ingest!Init, Srv!ConstantsAssumption
    <2>4. QED
      BY <2>1, <2>2, <2>3 DEF PipelineInv
  <1>2. PipelineInv /\ [Next]_vars => PipelineInv'
    <2> SUFFICES ASSUME PipelineInv, [Next]_vars PROVE PipelineInv'
      OBVIOUS
    <2>1. Ing!IngestInv'
      BY ComponentSteps, SameIngest, Ing!NextIngestInv DEF PipelineInv
    <2>2. Srv!TypeInv'
      BY ComponentSteps, SameServerNext, ServerAssumed, Srv!NextTypeInv DEF PipelineInv
    <2>3. QED
      BY <2>1, <2>2, ComponentSteps DEF PipelineInv
  <1>3. QED
    BY <1>1, <1>2, PTL DEF Spec

(* The pipeline behaves as each component's own model says.                  *)
LEMMA ServerBehaves == Spec => Srv!Spec
  <1>1. Init => Srv!Init
    BY SameServerInit DEF Init
  <1>2. PipelineInv /\ [Next]_vars => [Srv!Next]_(Srv!vars)
    BY ComponentSteps, SameServerNext
  <1>3. QED
    BY <1>1, <1>2, PipelineInvariant, PTL DEF Spec, Srv!Spec

LEMMA IngestBehaves == Spec => Ing!Spec
  <1>1. Init => Ing!Init
    BY SameIngest DEF Init
  <1>2. PipelineInv /\ [Next]_vars => [Ing!Next]_(Ing!ingestVars)
    BY ComponentSteps, SameIngest
  <1>3. QED
    BY <1>1, <1>2, PipelineInvariant, PTL DEF Spec, Ing!Spec

----------------------------------------------------------------------------
(* The theorems *)

\* The relay's write policy and the queue in front of nr-server, together, are
\* an environment that the server's model allows: whatever the plugin times out
\* on, copies arrive, land and bounce only as RepostServer says.
THEOREM PipelineIsServer == Spec => ServerView
  <1>1. Init => Server!Init
    BY DEF Init
  <1>2. PipelineInv /\ [Next]_vars => [Server!Next]_(Server!vars)
    BY ComponentSteps
  <1>3. QED
    BY <1>1, <1>2, PipelineInvariant, PTL DEF Spec, ServerView, Server!Spec

\* From the relay's yes to the server's decision no accepted note gets lost,
\* for any number of lines, late handlers, timeouts and crashes of nr-server.
THEOREM AcceptedAreKept == Spec => []AcceptedNotesAreKept
  <1>1. Spec => []Ing!AcceptedIsPublished
    BY IngestBehaves, Ing!AcceptedPublished, PTL
  <1>2. Spec => []Srv!AckedIsDecided
    BY ServerBehaves, ServerAssumed, Srv!NothingUndecided, PTL
  <1>3. Ing!AcceptedIsPublished /\ Srv!AckedIsDecided => AcceptedNotesAreKept
    BY DEF AcceptedNotesAreKept, Ing!AcceptedIsPublished, Ingest!AcceptedIsPublished,
           Srv!AckedIsDecided, Server!AckedIsDecided
  <1>4. QED
    BY <1>1, <1>2, <1>3, PTL

\* What the relay shows when nr-server's copies pass through its own write
\* policy: of each place the note nr-server processed last of those whose copy it
\* took, or one of the same second, which of notes that came in the order of their
\* dates is the newest.
THEOREM PipelineShowsLast == Spec => [](Server!LastProcessedWins /\ Server!NewestWinsInOrder)
  <1>1. Spec => []Srv!LastProcessedWins /\ []Srv!NewestWinsInOrder
    BY ServerBehaves, ServerAssumed, Srv!LastProcessedIsShown, Srv!NewestInOrderIsShown, PTL
  <1>2. Srv!LastProcessedWins => Server!LastProcessedWins
    BY DEF Srv!LastProcessedWins, Server!LastProcessedWins, Srv!PlaceOfCopy, Server!PlaceOfCopy
  <1>3. Srv!NewestWinsInOrder => Server!NewestWinsInOrder
    BY DEF Srv!NewestWinsInOrder, Server!NewestWinsInOrder, Srv!PlaceOfCopy, Server!PlaceOfCopy,
           Srv!InOrder, Server!InOrder
  <1>4. QED
    BY <1>1, <1>2, <1>3, PTL

\* The layer the app reads stays vetted behind the relay: a copy it shows is of
\* a note whose author claimed a name that Trustroots gave to that author.
THEOREM PipelineIsVetted == Spec => Server!CopiesAreVetted
  <1>1. Spec => Srv!CopiesAreVetted
    BY ServerBehaves, ServerAssumed, Srv!LayerIsVetted, PTL
  <1>2. Srv!Layer!Init => Server!Layer!Init
    BY DEF Srv!Layer!Init, Server!Layer!Init
  <1>3. [Srv!Layer!Next]_(Srv!Layer!layerVars) => [Server!Layer!Next]_(Server!Layer!layerVars)
    BY DEF Srv!Layer!Next, Server!Layer!Next, Srv!Layer!layerVars, Server!Layer!layerVars,
           Srv!Layer!Claim, Server!Layer!Claim, Srv!Layer!Assign, Server!Layer!Assign,
           Srv!Layer!Vet, Server!Layer!Vet, Srv!Layer!Show, Server!Layer!Show
  <1>4. QED
    BY <1>1, <1>2, <1>3, PTL
    DEF Srv!CopiesAreVetted, Server!CopiesAreVetted, Srv!Layer!Spec, Server!Layer!Spec
=============================================================================
