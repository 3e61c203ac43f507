------------------------ MODULE RepostServer_proofs ------------------------
(* The theorems about RepostServer and their proofs. *)
EXTENDS RepostServer, SequenceTheorems, TLAPS

(* What each stage of processQueueItem knows of the delivery it handles. *)
StageOK ==
    /\ server \in {"profile", "nip5", "refuse", "pong", "resting", "ack"} =>
           acked + 1 \in 1 .. Len(queue)
    /\ server \in {"profile", "nip5", "refuse", "resting"} => Current \in Notes
    /\ server = "nip5" => username \in Usernames

\* Type correctness strengthened to be inductive.
TypeInv == TypeOK /\ StageOK

(* The queue is a log: what is in it stays where it is. *)
QueueKept ==
    /\ queue \in Seq(Items) /\ queue' \in Seq(Items)
    /\ Len(queue) \in Nat /\ Len(queue') \in Nat /\ Len(queue') >= Len(queue)
    /\ \A i \in 1 .. Len(queue) : i \in 1 .. Len(queue') /\ queue'[i] = queue[i]

LEMMA ArriveKeepsQueue ==
    ASSUME queue \in Seq(Items), NEW item \in Items, queue' = Append(queue, item)
    PROVE  QueueKept
  <1>1. Len(queue) \in Nat
    BY LenProperties
  <1>2. QED
    BY <1>1, AppendProperties DEF QueueKept

LEMMA QueueStaysKept ==
    ASSUME queue \in Seq(Items), UNCHANGED queue
    PROVE  QueueKept
  BY LenProperties DEF QueueKept

LEMMA NextKeepsQueue == TypeInv /\ [Next]_vars => QueueKept
  <1> SUFFICES ASSUME TypeInv, [Next]_vars PROVE QueueKept
    OBVIOUS
  <1>1. queue \in Seq(Items)
    BY DEF TypeInv, TypeOK
  <1>2. CASE \E item \in Items : Arrive(item)
    BY <1>1, <1>2, ArriveKeepsQueue DEF Arrive
  <1>3. CASE UNCHANGED queue
    BY <1>1, <1>3, QueueStaysKept
  <1>4. QED
    BY <1>2, <1>3
    DEF Next, ServerStep, Consume, ConsumeFails, Disconnect, Deliver, QueryProfile, Repost,
        FailNip5, Refuse, Pong, Rest, Ack, Throw, Restart, Crash, RelayAnswer, Land, Bounce, Environment, Tick,
        Publish, Assign, events, vars

----------------------------------------------------------------------------
(* Type correctness *)

(* A copy made for the note being processed is well typed. *)
LEMMA CopyTyped ==
    ASSUME TypeInv, server = "nip5"
    PROVE  [pos |-> acked + 1, stamp |-> now, original |-> CreatedAt[Current]] \in Copies
  <1>1. Current \in Notes /\ acked + 1 \in Nat \ {0} /\ now \in Nat
    BY LenProperties DEF TypeInv, TypeOK, StageOK
  <1>2. CreatedAt[Current] \in Nat
    BY <1>1, ConstantsAssumption
  <1>3. QED
    BY <1>1, <1>2 DEF Copies

LEMMA ServerStepTypeInv ==
    ASSUME TypeInv, ServerStep \/ Disconnect \/ Restart
    PROVE  TypeInv'
  <1> USE DEF TypeInv, TypeOK, events, relay
  <1>1. Len(queue) \in Nat /\ acked \in Nat /\ acked <= Len(queue)
    BY LenProperties
  <1>2. CASE Restart \/ Consume
    BY <1>2 DEF Restart, Consume, Goto, Stages, StageOK
  <1>3. CASE Deliver
    <2>1. Current \in Items /\ acked + 1 \in 1 .. Len(queue)
      BY <1>1, <1>3, ElementOfSeq DEF Deliver, Current
    <2>2. server' \in {"profile", "pong", "ack"} /\ (server' = "profile" => Current \in Notes)
      BY <1>3, <2>1, DistinctAssumption DEF Deliver, Goto, Items
    <2>3. QED
      BY <1>3, <2>1, <2>2 DEF Deliver, Stages, StageOK, Current
  <1>4. CASE QueryProfile
    BY <1>4 DEF QueryProfile, Goto, Stages, StageOK, Current
  <1>5. CASE Repost
    <2> DEFINE copy == [pos |-> acked + 1, stamp |-> now, original |-> CreatedAt[Current]]
    <2>1. copy \in Copies
      BY <1>5, CopyTyped DEF Repost
    <2>2. /\ made' = made \cup {copy} /\ wire' = wire \cup {copy}
          /\ awaited' = awaited \cup {copy}
      BY <1>5 DEF Repost
    <2> HIDE DEF copy
    <2>3. QED
      BY <1>5, <2>1, <2>2 DEF Repost, Goto, Stages, StageOK, Current
  <1>6. CASE FailNip5
    BY <1>6 DEF FailNip5, Goto, Stages, StageOK, Current
  <1>7. CASE Refuse
    BY <1>7 DEF Refuse, Goto, Stages, StageOK, Current
  <1>8. CASE Pong \/ Rest
    BY <1>8 DEF Pong, Rest, Goto, Stages, StageOK, Current
  <1>9. CASE Ack
    BY <1>1, <1>9 DEF Ack, Goto, Stages, StageOK
  <1>10. CASE Throw \/ ConsumeFails \/ Disconnect
    <2>1. throws' \in 0 .. MaxThrows
      BY <1>10, ConstantsAssumption DEF Throw, ConsumeFails, Disconnect
    <2>2. QED
      BY <1>10, <2>1 DEF Throw, ConsumeFails, Disconnect, Goto, Stages, StageOK
  <1>11. QED
    BY <1>2, <1>3, <1>4, <1>5, <1>6, <1>7, <1>8, <1>9, <1>10 DEF ServerStep

LEMMA CrashTypeInv ==
    ASSUME TypeInv, Crash
    PROVE  TypeInv'
  <1>1. wire' \subseteq wire /\ Die
    BY DEF Crash
  <1>2. crashes' \in 0 .. MaxCrashes
    BY ConstantsAssumption DEF Crash, TypeInv, TypeOK
  <1>3. QED
    BY <1>1, <1>2 DEF Crash, Die, Goto, TypeInv, TypeOK, StageOK, events, Stages

LEMMA AnswerTypeInv ==
    ASSUME TypeInv, NEW copy \in wire, Land(copy) \/ Bounce(copy)
    PROVE  TypeInv'
  <1> USE DEF TypeInv, TypeOK, events
  <1>1. copy \in Copies
    OBVIOUS
  <1>2. CASE Land(copy)
    <2>1. copies' \in [Places -> Copies \cup {None}]
      BY <1>1, <1>2 DEF Land
    <2>2. QED
      BY <1>2, <2>1 DEF Land, StageOK, Current
  <1>3. CASE Bounce(copy) /\ Die
    <2>1. wire' \subseteq wire
      BY <1>3 DEF Bounce
    <2>2. QED
      BY <1>3, <2>1 DEF Bounce, Die, Goto, StageOK, Stages
  <1>4. CASE Bounce(copy) /\ ~Die
    BY <1>4 DEF Bounce, StageOK, Current
  <1>5. QED
    BY <1>2, <1>3, <1>4

LEMMA EnvironmentTypeInv ==
    ASSUME TypeInv, Environment
    PROVE  TypeInv'
  <1> USE DEF TypeInv, TypeOK, relay
  <1>1. ASSUME NEW item \in Items, Arrive(item) PROVE TypeInv'
    <2>1. QueueKept /\ acked \in Nat /\ acked <= Len(queue)
      BY <1>1, ArriveKeepsQueue, LenProperties DEF Arrive
    <2>2. acked' \in 0 .. Len(queue')
      BY <1>1, <2>1 DEF Arrive, QueueKept
    <2>3. refused' \subseteq 1 .. Len(queue')
      BY <1>1, <2>1 DEF Arrive, QueueKept
    <2>4. StageOK'
      BY <1>1, <2>1 DEF Arrive, QueueKept, StageOK, Current
    <2>5. QED
      BY <1>1, <2>1, <2>2, <2>3, <2>4 DEF Arrive, QueueKept
  <1>2. CASE Tick
    BY <1>2 DEF Tick, StageOK, Current
  <1>3. ASSUME NEW a \in Authors, NEW name \in Usernames \cup {NoName}, Publish(a, name)
        PROVE  TypeInv'
    <2>1. profile' \in [Authors -> Claims] /\ meta' \in [Authors -> Claims]
      BY <1>3 DEF Publish, Claims
    <2>2. claimed' \subseteq Authors \X Usernames
      BY <1>3 DEF Publish
    <2>3. QED
      BY <1>3, <2>1, <2>2 DEF Publish, StageOK, Current
  <1>4. ASSUME NEW u \in Usernames, NEW k \in Pubkeys \cup {None}, Assign(u, k)
        PROVE  TypeInv'
    BY <1>4 DEF Assign, StageOK, Current
  <1>5. QED
    BY <1>1, <1>2, <1>3, <1>4 DEF Environment

LEMMA InitTypeInv == Init => TypeInv
  <1> SUFFICES ASSUME Init PROVE TypeInv
    OBVIOUS
  <1>1. queue \in Seq(Items) /\ Len(queue) = 0
    BY DEF Init
  <1>2. QED
    BY <1>1, ConstantsAssumption DEF Init, TypeInv, TypeOK, StageOK, Stages, Claims

LEMMA NextTypeInv == TypeInv /\ [Next]_vars => TypeInv'
  <1> SUFFICES ASSUME TypeInv, [Next]_vars PROVE TypeInv'
    OBVIOUS
  <1>1. CASE UNCHANGED vars
    BY <1>1 DEF vars, events, relay, TypeInv, TypeOK, StageOK, Current
  <1>2. QED
    BY <1>1, ServerStepTypeInv, CrashTypeInv, AnswerTypeInv, EnvironmentTypeInv
    DEF Next, RelayAnswer

LEMMA TypeInvariant == Spec => []TypeInv
  BY InitTypeInv, NextTypeInv, PTL DEF Spec

\* The queue's cursor, the copies under way and the server's stage keep their
\* types through crashes and redeliveries (consume.ts, repost.ts).
THEOREM ServerTypeCorrect == Spec => []TypeOK
  BY TypeInvariant, PTL DEF TypeInv

----------------------------------------------------------------------------
(* Nothing leaves the queue undecided *)

DecidedAt(i) == i \in refused \/ \E copy \in made : copy.pos = i

(* The note being acknowledged is decided before the cursor passes it. *)
Decided ==
    /\ AckedIsDecided
    /\ server = "resting" => DecidedAt(acked + 1)
    /\ server = "ack" /\ Current \in Notes => DecidedAt(acked + 1)
    /\ server = "pong" => Current \notin Notes

(* A step that decides nothing and comes to no stage that acknowledges. *)
LEMMA DecidedFrame ==
    ASSUME TypeInv, QueueKept, Decided, UNCHANGED <<acked, made, refused>>,
           server' = server \/ server' \notin {"pong", "resting", "ack"}
    PROVE  Decided'
  <1>1. /\ acked \in Nat /\ acked <= Len(queue) /\ refused \subseteq 1 .. Len(queue)
        /\ server \in {"pong", "resting", "ack"} => acked + 1 \in 1 .. Len(queue)
    BY LenProperties DEF TypeInv, TypeOK, StageOK
  <1>2. \A i \in 1 .. acked : i \in 1 .. Len(queue) /\ queue'[i] = queue[i]
    BY <1>1 DEF QueueKept
  <1>3. \A copy \in made : /\ copy.pos \in 1 .. Len(queue') /\ queue'[copy.pos] \in Notes
    BY DEF Decided, AckedIsDecided, QueueKept
  <1>4. \A i \in refused : queue'[i] \in Notes
    BY <1>1 DEF Decided, AckedIsDecided, QueueKept
  <1>5. AckedIsDecided'
    BY <1>2, <1>3, <1>4 DEF Decided, AckedIsDecided
  <1>6. server \in {"pong", "resting", "ack"} => Current' = Current
    BY <1>1 DEF QueueKept, Current
  <1>7. QED
    BY <1>5, <1>6 DEF Decided, DecidedAt

LEMMA DecidingStep ==
    ASSUME TypeInv, Decided,
           Deliver \/ Repost \/ Refuse \/ Pong \/ Rest \/ Ack
    PROVE  Decided'
  <1> USE DEF Decided, AckedIsDecided, DecidedAt
  <1>1. /\ acked \in Nat /\ acked <= Len(queue) /\ Len(queue) \in Nat
        /\ server # "waiting" /\ server # "down" /\ server # "starting" /\ server # "stalled" =>
               acked + 1 \in 1 .. Len(queue)
    BY LenProperties DEF TypeInv, TypeOK, StageOK, Stages
  <1>2. CASE Deliver
    <2>1. UNCHANGED <<queue, acked, made, refused>>
      BY <1>2 DEF Deliver, events
    <2>2. Current \in Items
      BY <1>1, <1>2, ElementOfSeq DEF Deliver, Current, TypeInv, TypeOK
    <2>3. /\ server' # "resting"
          /\ server' \in {"pong", "ack"} => Current \notin Notes
      BY <1>2, <2>2, DistinctAssumption DEF Deliver, Goto, Items
    <2>4. QED
      BY <2>1, <2>3 DEF Current
  <1>3. CASE Repost
    <2> DEFINE copy == [pos |-> acked + 1, stamp |-> now, original |-> CreatedAt[Current]]
    <2>1. made' = made \cup {copy} /\ copy.pos = acked + 1 /\ server' = "resting"
          /\ UNCHANGED <<queue, acked, refused>>
      BY <1>3 DEF Repost, Goto, events
    <2>2. queue[acked + 1] \in Notes /\ acked + 1 \in 1 .. Len(queue)
      BY <1>1, <1>3 DEF TypeInv, StageOK, Repost, Current
    <2> HIDE DEF copy
    <2>3. QED
      BY <1>1, <2>1, <2>2
  <1>4. CASE Refuse
    <2>1. refused' = refused \cup {acked + 1} /\ server' = "ack"
          /\ UNCHANGED <<queue, acked, made>>
      BY <1>4 DEF Refuse, Goto, events
    <2>2. queue[acked + 1] \in Notes
      BY <1>4 DEF TypeInv, StageOK, Refuse, Current
    <2>3. QED
      BY <1>1, <2>1, <2>2
  <1>5. CASE Pong \/ Rest
    <2>1. server' = "ack" /\ UNCHANGED <<queue, acked, made, refused>>
      BY <1>5 DEF Pong, Rest, Goto, events
    <2>2. QED
      BY <1>5, <2>1 DEF Pong, Rest, Current
  <1>6. CASE Ack
    <2>1. acked' = acked + 1 /\ server' = "waiting" /\ UNCHANGED <<queue, made, refused>>
      BY <1>6 DEF Ack, Goto, events
    <2>2. \A i \in 1 .. acked' : i \in 1 .. acked \/ i = acked + 1
      BY <1>1, <2>1
    <2>3. QED
      BY <1>6, <2>1, <2>2 DEF Ack, Current
  <1>7. QED
    BY <1>2, <1>3, <1>4, <1>5, <1>6

LEMMA NextDecided == TypeInv /\ Decided /\ [Next]_vars => Decided'
  <1> SUFFICES ASSUME TypeInv, Decided, [Next]_vars PROVE Decided'
    OBVIOUS
  <1>1. QueueKept
    BY NextKeepsQueue
  <1>2. CASE Deliver \/ Repost \/ Refuse \/ Pong \/ Rest \/ Ack
    BY <1>2, DecidingStep
  <1>3. CASE \/ Restart \/ Consume \/ ConsumeFails \/ Disconnect \/ QueryProfile
             \/ FailNip5 \/ Throw \/ Crash
    BY <1>1, <1>3, DecidedFrame
    DEF Restart, Consume, ConsumeFails, Disconnect, QueryProfile, FailNip5, Throw, Crash, Die, Goto
  <1>4. CASE RelayAnswer \/ Environment \/ UNCHANGED vars
    BY <1>1, <1>4, DecidedFrame
    DEF RelayAnswer, Land, Bounce, Die, Goto, Environment, Arrive, Tick, Publish, Assign, vars
  <1>5. QED
    BY <1>2, <1>3, <1>4 DEF Next, ServerStep

LEMMA DecidedInvariant == Spec => []Decided
  <1>1. Init => Decided
    BY DEF Init, Decided, AckedIsDecided
  <1>2. QED
    BY <1>1, TypeInvariant, NextDecided, PTL DEF Spec

\* consume.ts acknowledges a note only when repost.ts has published its copy or
\* a refusal, whatever crashes, thrown errors and redeliveries come between.
THEOREM NothingUndecided == Spec => []AckedIsDecided
  BY DecidedInvariant, PTL DEF Decided

----------------------------------------------------------------------------
(* The note processed last wins, and so the newest of those that came in order *)

(* Copies are stamped in the order of their notes in the queue. *)
StampsGrow ==
    /\ \A x \in made : x.stamp <= now /\ x.pos <= acked + 1
    /\ \A x \in made : \A y \in made : x.pos < y.pos => x.stamp <= y.stamp

(* The relay shows a copy it took, and of each place the newest it took. *)
NewestShown ==
    /\ \A p \in Places : copies[p] # None => copies[p] \in landed
    /\ \A x \in landed : LET current == copies[PlaceOfCopy(x)] IN
           current # None /\ current.stamp >= x.stamp

Ordered == StampsGrow /\ NewestShown

(* Every copy keeps the place of its note. *)
LEMMA PlacesKept ==
    ASSUME TypeInv, Decided, QueueKept
    PROVE  /\ \A copy \in made : PlaceOfCopy(copy)' = PlaceOfCopy(copy)
           /\ \A copy \in made : PlaceOfCopy(copy) \in Places
  <1>1. \A copy \in made : copy.pos \in 1 .. Len(queue) /\ queue[copy.pos] \in Notes
    BY DEF Decided, AckedIsDecided
  <1>2. QED
    BY <1>1, ConstantsAssumption DEF PlaceOfCopy, QueueKept

LEMMA OrderedFrame ==
    ASSUME TypeInv, TypeInv', Decided, Ordered, QueueKept,
           UNCHANGED <<made, copies, landed>>, now <= now', acked <= acked'
    PROVE  Ordered'
  <1>1. /\ \A x \in made : x.stamp \in Nat /\ x.pos \in Nat
        /\ acked \in Nat /\ acked' \in Nat /\ now \in Nat /\ now' \in Nat
    BY DEF TypeInv, TypeOK, Copies
  <1>2. StampsGrow'
    BY <1>1 DEF Ordered, StampsGrow
  <1>3. \A x \in landed : PlaceOfCopy(x)' = PlaceOfCopy(x)
    BY PlacesKept DEF TypeInv, TypeOK
  <1>4. NewestShown'
    BY <1>3 DEF Ordered, NewestShown
  <1>5. QED
    BY <1>2, <1>4 DEF Ordered

LEMMA RepostOrdered ==
    ASSUME TypeInv, Decided, Ordered, QueueKept, Repost
    PROVE  Ordered'
  <1> PICK copy \in Copies : /\ made' = made \cup {copy}
                             /\ copy.pos = acked + 1 /\ copy.stamp = now
    BY CopyTyped DEF Repost
  <1>1. /\ \A x \in made : x.stamp \in Nat /\ x.pos \in Nat
        /\ acked \in Nat /\ now \in Nat
        /\ UNCHANGED <<acked, now, queue, copies, landed>>
    BY DEF TypeInv, TypeOK, Copies, Repost, events
  <1>2. \A x \in made : x.stamp <= copy.stamp /\ x.pos <= copy.pos
    BY <1>1 DEF Ordered, StampsGrow
  <1>3. StampsGrow'
    <2>1. \A x \in made' : x.stamp <= now /\ x.pos <= acked + 1
      BY <1>1, <1>2 DEF Ordered, StampsGrow
    <2>2. ASSUME NEW x \in made', NEW y \in made', x.pos < y.pos
          PROVE  x.stamp <= y.stamp
      <3>1. x = copy => y.pos <= x.pos /\ y.pos \in Nat /\ x.pos \in Nat
        BY <1>1, <1>2
      <3>2. x \in made
        BY <1>1, <2>2, <3>1
      <3>3. QED
        BY <1>2, <2>2, <3>2 DEF Ordered, StampsGrow
    <2>3. QED
      BY <1>1, <2>1, <2>2 DEF StampsGrow
  <1>4. NewestShown'
    BY <1>1 DEF Ordered, NewestShown, PlaceOfCopy
  <1>5. QED
    BY <1>3, <1>4 DEF Ordered

LEMMA LandOrdered ==
    ASSUME TypeInv, Decided, Ordered, QueueKept, NEW copy \in wire, Land(copy)
    PROVE  Ordered'
  <1> PICK p \in Places : p = PlaceOfCopy(copy)
    BY PlacesKept DEF TypeInv, TypeOK
  <1>1. /\ landed' = landed \cup {copy} /\ UNCHANGED <<made, acked, now, queue>>
        /\ \/ MayReplace(copy, copies[p]) /\ copies' = [copies EXCEPT ![p] = copy]
           \/ MayStay(copies[p], copy) /\ UNCHANGED copies
    BY DEF Land, events
  <1>2. StampsGrow'
    BY <1>1 DEF Ordered, StampsGrow
  <1>3. /\ copy \in Copies /\ copy # None /\ copy.stamp \in Nat
        /\ copies \in [Places -> Copies \cup {None}]
        /\ \A q \in Places : copies[q] # None => copies[q].stamp \in Nat
        /\ \A x \in landed : x.stamp \in Nat /\ PlaceOfCopy(x) \in Places
    BY PlacesKept, DistinctAssumption DEF TypeInv, TypeOK, Copies
  <1>4. /\ copies'[p] # None /\ copies'[p].stamp >= copy.stamp
        /\ copies[p] # None => copies'[p].stamp >= copies[p].stamp
        /\ copies'[p] \in landed'
        /\ \A q \in Places \ {p} : copies'[q] = copies[q]
    <2>1. CASE MayReplace(copy, copies[p]) /\ copies' = [copies EXCEPT ![p] = copy]
      BY <1>1, <1>3, <2>1 DEF MayReplace
    <2>2. CASE MayStay(copies[p], copy) /\ UNCHANGED copies
      BY <1>1, <1>3, <2>2 DEF MayStay, Ordered, NewestShown
    <2>3. QED
      BY <1>1, <2>1, <2>2
  <1>5. \A q \in Places : copies'[q] # None => copies'[q] \in landed' /\ copies'[q].stamp \in Nat
    <2>1. copies'[p].stamp \in Nat
      BY <1>1, <1>3, <1>4 DEF MayStay
    <2>2. QED
      BY <1>1, <1>3, <1>4, <2>1 DEF Ordered, NewestShown
  <1>6. \A x \in landed' : /\ copies'[PlaceOfCopy(x)] # None
                           /\ copies'[PlaceOfCopy(x)].stamp >= x.stamp
    <2> SUFFICES ASSUME NEW x \in landed
                 PROVE  /\ copies'[PlaceOfCopy(x)] # None
                        /\ copies'[PlaceOfCopy(x)].stamp >= x.stamp
      BY <1>1, <1>4
    <2> PICK q \in Places : q = PlaceOfCopy(x)
      BY <1>3
    <2>1. copies[q] # None /\ copies[q].stamp >= x.stamp
      BY DEF Ordered, NewestShown
    <2>2. CASE q = p
      BY <1>3, <1>4, <1>5, <2>1, <2>2
    <2>3. CASE q # p
      BY <1>4, <2>1, <2>3
    <2>4. QED
      BY <2>2, <2>3
  <1>7. \A x : PlaceOfCopy(x)' = PlaceOfCopy(x)
    BY <1>1 DEF PlaceOfCopy
  <1>8. NewestShown'
    BY <1>5, <1>6, <1>7 DEF NewestShown
  <1>9. QED
    BY <1>2, <1>8 DEF Ordered

LEMMA NextOrdered == TypeInv /\ TypeInv' /\ Decided /\ Ordered /\ [Next]_vars => Ordered'
  <1> SUFFICES ASSUME TypeInv, TypeInv', Decided, Ordered, [Next]_vars PROVE Ordered'
    OBVIOUS
  <1>1. QueueKept
    BY NextKeepsQueue
  <1>2. CASE Repost
    BY <1>1, <1>2, RepostOrdered
  <1>3. CASE \E copy \in wire : Land(copy)
    BY <1>1, <1>3, LandOrdered
  <1>4. CASE \E copy \in wire : Bounce(copy)
    <2>1. UNCHANGED <<made, copies, landed, now, acked>>
      BY <1>4 DEF Bounce, events
    <2>2. QED
      BY <1>1, <2>1, OrderedFrame DEF TypeInv, TypeOK
  <1>5. CASE Environment
    <2>1. UNCHANGED <<made, copies, landed, acked>> /\ now <= now'
      BY <1>5 DEF Environment, Arrive, Tick, Publish, Assign, relay, TypeInv, TypeOK
    <2>2. QED
      BY <1>1, <2>1, OrderedFrame DEF TypeInv, TypeOK
  <1>6. CASE Ack
    <2>1. UNCHANGED <<made, copies, landed, now>> /\ acked <= acked'
      BY <1>6 DEF Ack, events, relay, TypeInv, TypeOK
    <2>2. QED
      BY <1>1, <2>1, OrderedFrame DEF TypeInv, TypeOK
  <1>7. CASE \/ Restart \/ Consume \/ ConsumeFails \/ Disconnect \/ Deliver \/ QueryProfile
             \/ FailNip5 \/ Refuse \/ Pong \/ Rest \/ Throw \/ Crash \/ UNCHANGED vars
    <2>1. UNCHANGED <<made, copies, landed, now, acked>>
      BY <1>7 DEF Restart, Consume, ConsumeFails, Disconnect, Deliver, QueryProfile, FailNip5,
                  Refuse, Pong, Rest, Throw, Crash, events, relay, vars
    <2>2. QED
      BY <1>1, <2>1, OrderedFrame DEF TypeInv, TypeOK
  <1>8. QED
    BY <1>2, <1>3, <1>4, <1>5, <1>6, <1>7 DEF Next, ServerStep, RelayAnswer

LEMMA OrderedInvariant == Spec => [](TypeInv /\ Decided /\ Ordered)
  <1>1. Init => Ordered
    BY DEF Init, Ordered, StampsGrow, NewestShown
  <1>2. QED
    BY <1>1, TypeInvariant, DecidedInvariant, NextOrdered, PTL DEF Spec

\* repost.ts stamps a copy with the time it is made and does not wait for the
\* relay: of the copies the relay took it still shows that of the note processed
\* last, or one stamped in the same second, in any order of arrival.
THEOREM LastProcessedIsShown == Spec => []LastProcessedWins
  <1>1. TypeInv /\ Decided /\ Ordered => LastProcessedWins
    <2> SUFFICES ASSUME TypeInv, Decided, Ordered, NEW copy \in landed
                 PROVE  LET current == copies[PlaceOfCopy(copy)] IN
                            /\ current # None
                            /\ current.pos >= copy.pos \/ current.stamp = copy.stamp
      BY DEF LastProcessedWins
    <2> PICK p \in Places : p = PlaceOfCopy(copy)
      <3>1. queue[copy.pos] \in Notes
        BY DEF TypeInv, TypeOK, Decided, AckedIsDecided
      <3>2. QED
        BY <3>1, ConstantsAssumption DEF PlaceOfCopy
    <2> DEFINE current == copies[p]
    <2>1. current # None /\ current \in landed /\ current.stamp >= copy.stamp
      BY DEF Ordered, NewestShown
    <2>2. current \in made /\ copy \in made /\ current \in Copies /\ copy \in Copies
      BY <2>1 DEF TypeInv, TypeOK
    <2>3. current.pos < copy.pos => current.stamp <= copy.stamp
      BY <2>2 DEF Ordered, StampsGrow
    <2>4. QED
      BY <2>1, <2>2, <2>3 DEF Copies
  <1>2. QED
    BY <1>1, OrderedInvariant, PTL

(* A copy carries its note's date, and stands at its note's place. *)
Faithful ==
    /\ \A x \in made : x.original = CreatedAt[queue[x.pos]]
    /\ \A p \in Places : copies[p] # None =>
           copies[p] \in landed /\ PlaceOfCopy(copies[p]) = p

LEMMA FaithfulFrame ==
    ASSUME TypeInv, Decided, Faithful, QueueKept, UNCHANGED <<made, copies, landed>>
    PROVE  Faithful'
  <1>1. \A x \in made : queue'[x.pos] = queue[x.pos]
    BY DEF Decided, AckedIsDecided, QueueKept
  <1>2. landed \subseteq made
    BY DEF TypeInv, TypeOK
  <1>3. QED
    BY <1>1, <1>2 DEF Faithful, PlaceOfCopy

LEMMA NextFaithful == TypeInv /\ Decided /\ Faithful /\ [Next]_vars => Faithful'
  <1> SUFFICES ASSUME TypeInv, Decided, Faithful, [Next]_vars PROVE Faithful'
    OBVIOUS
  <1>1. CASE Repost
    <2> PICK copy \in Copies : /\ made' = made \cup {copy} /\ copy.pos = acked + 1
                               /\ copy.original = CreatedAt[queue[acked + 1]]
      BY <1>1, CopyTyped DEF Repost, Current
    <2>1. UNCHANGED <<queue, copies, landed>>
      BY <1>1 DEF Repost, events
    <2>2. QED
      BY <2>1 DEF Faithful, PlaceOfCopy
  <1>2. ASSUME NEW copy \in wire, Land(copy) PROVE Faithful'
    <2>1. UNCHANGED <<queue, made>> /\ landed' = landed \cup {copy}
      BY <1>2 DEF Land, events
    <2>2. copies \in [Places -> Copies \cup {None}]
      BY DEF TypeInv, TypeOK
    <2>3. \A p \in Places : copies'[p] = copies[p] \/ (copies'[p] = copy /\ p = PlaceOfCopy(copy))
      BY <1>2, <2>2 DEF Land
    <2>4. QED
      BY <2>1, <2>3 DEF Faithful, PlaceOfCopy
  <1>3. CASE UNCHANGED <<made, copies, landed>>
    BY <1>3, NextKeepsQueue, FaithfulFrame
  <1>4. QED
    BY <1>1, <1>2, <1>3
    DEF Next, ServerStep, Consume, ConsumeFails, Disconnect, Deliver, QueryProfile, FailNip5,
        Refuse, Pong, Rest, Ack, Throw, Restart, Crash, RelayAnswer, Bounce, Environment,
        Arrive, Tick, Publish, Assign, relay, vars

\* Where the notes of a place came in the order of their created_at, the relay
\* shows the newest whose copy it took, or one stamped in the same second: neither
\* an unawaited publication nor a crash nor a redelivery brings an older one back.
THEOREM NewestInOrderIsShown == Spec => []NewestWinsInOrder
  <1>1. Init => Faithful
    BY DEF Init, Faithful
  <1>2. TypeInv /\ Decided /\ Faithful /\ LastProcessedWins => NewestWinsInOrder
    <2> SUFFICES ASSUME TypeInv, Decided, Faithful, LastProcessedWins, NEW copy \in landed,
                        InOrder(PlaceOfCopy(copy))
                 PROVE  LET current == copies[PlaceOfCopy(copy)] IN
                            current.original >= copy.original \/ current.stamp = copy.stamp
      BY DEF NewestWinsInOrder
    <2>1. /\ copy \in made /\ copy \in Copies /\ copy.pos \in 1 .. Len(queue)
          /\ queue[copy.pos] \in Notes
      BY DEF TypeInv, TypeOK, Decided, AckedIsDecided
    <2> PICK p \in Places : p = PlaceOfCopy(copy)
      BY <2>1, ConstantsAssumption DEF PlaceOfCopy
    <2> DEFINE current == copies[p]
    <2>2. /\ current # None
          /\ current.pos >= copy.pos \/ current.stamp = copy.stamp
      BY DEF LastProcessedWins
    <2>3. /\ current \in made /\ current \in Copies /\ PlaceOfCopy(current) = p
          /\ current.pos \in 1 .. Len(queue) /\ queue[current.pos] \in Notes
      BY <2>2 DEF Faithful, TypeInv, TypeOK, Decided, AckedIsDecided
    <2>4. /\ current.original = CreatedAt[queue[current.pos]]
          /\ copy.original = CreatedAt[queue[copy.pos]]
      BY <2>1, <2>3 DEF Faithful
    <2> HIDE DEF current
    <2>5. CASE current.pos > copy.pos
      <3>1. DOMAIN queue = 1 .. Len(queue)
        BY LenProperties DEF TypeInv, TypeOK
      <3>2. CreatedAt[queue[copy.pos]] <= CreatedAt[queue[current.pos]]
        BY <2>1, <2>3, <2>5, <3>1 DEF InOrder, PlaceOfCopy
      <3>3. QED
        BY <2>1, <2>3, <2>4, <3>2 DEF Copies, current
    <2>6. CASE current.pos = copy.pos
      BY <2>1, <2>4, <2>6 DEF Copies, current
    <2>7. QED
      BY <2>1, <2>2, <2>3, <2>5, <2>6 DEF Copies, current
  <1>3. Spec => []Faithful
    BY <1>1, TypeInvariant, DecidedInvariant, NextFaithful, PTL DEF Spec
  <1>4. QED
    BY <1>2, <1>3, TypeInvariant, DecidedInvariant, LastProcessedIsShown, PTL

----------------------------------------------------------------------------
(* The server keeps VettedLayer's promise *)

(* What the relay and the server know of names was claimed. *)
NamesAreClaimed ==
    /\ \A a \in Authors : profile[a] \in Usernames => <<a, profile[a]>> \in claimed
    /\ \A a \in Authors : meta[a] \in Usernames => <<a, meta[a]>> \in claimed
    /\ server = "nip5" => <<AuthorOf[Current], username>> \in claimed

LEMMA QueryFindsClaim ==
    ASSUME TypeInv, NamesAreClaimed, QueryProfile
    PROVE  NamesAreClaimed'
  <1> PICK a \in Authors : a = AuthorOf[Current]
    BY ConstantsAssumption DEF TypeInv, StageOK, QueryProfile
  <1>1. UNCHANGED <<queue, acked, profile, meta, claimed>>
    BY DEF QueryProfile, events
  <1>2. ASSUME server' = "nip5" PROVE <<a, username'>> \in claimed
    <2>1. username' \in Usernames /\ username' \in {profile[a], meta[a]}
      BY <1>2, DistinctAssumption DEF QueryProfile, Goto
    <2>2. QED
      BY <2>1 DEF NamesAreClaimed
  <1>3. QED
    BY <1>1, <1>2 DEF NamesAreClaimed, Current

LEMMA PublishClaims ==
    ASSUME TypeInv, NamesAreClaimed, NEW a \in Authors, NEW name \in Usernames \cup {NoName},
           Publish(a, name)
    PROVE  NamesAreClaimed'
  <1>1. /\ claimed \subseteq claimed'
        /\ name \in Usernames => <<a, name>> \in claimed'
        /\ UNCHANGED <<server, username, queue, acked>>
    BY DEF Publish
  <1>2. \A b \in Authors : /\ profile'[b] = profile[b] \/ (b = a /\ profile'[b] = name)
                           /\ meta'[b] = meta[b] \/ (b = a /\ meta'[b] = name)
    BY DEF Publish, TypeInv, TypeOK
  <1>3. QED
    BY <1>1, <1>2 DEF NamesAreClaimed, Current

LEMMA NextNamesAreClaimed == TypeInv /\ NamesAreClaimed /\ [Next]_vars => NamesAreClaimed'
  <1> SUFFICES ASSUME TypeInv, NamesAreClaimed, [Next]_vars PROVE NamesAreClaimed'
    OBVIOUS
  <1>1. CASE QueryProfile
    BY <1>1, QueryFindsClaim
  <1>2. CASE \E a \in Authors, name \in Usernames \cup {NoName} : Publish(a, name)
    BY <1>2, PublishClaims
  <1>3. ASSUME UNCHANGED <<profile, meta, claimed>>,
               server' # "nip5" \/ UNCHANGED <<server, username, acked>>
        PROVE  NamesAreClaimed'
    <2>1. server = "nip5" => acked + 1 \in 1 .. Len(queue)
      BY DEF TypeInv, StageOK
    <2>2. QueueKept
      BY NextKeepsQueue
    <2>3. server = "nip5" => Current' = Current \/ server' # "nip5"
      BY <1>3, <2>1, <2>2 DEF QueueKept, Current
    <2>4. QED
      BY <1>3, <2>3 DEF NamesAreClaimed
  <1>4. CASE Environment /\ UNCHANGED <<profile, meta>>
    BY <1>2, <1>3, <1>4 DEF Environment, Arrive, Tick, Assign
  <1>5. CASE Deliver
    <2>1. server' # "nip5"
      <3>1. acked + 1 \in 1 .. Len(queue)
        BY <1>5, LenProperties DEF Deliver, TypeInv, TypeOK
      <3>2. Current \in Items
        BY <3>1, ElementOfSeq DEF Current, TypeInv, TypeOK
      <3>3. QED
        BY <1>5, <3>2 DEF Deliver, Goto, Items
    <2>2. QED
      BY <1>3, <1>5, <2>1 DEF Deliver, events
  <1>6. CASE \/ Restart \/ Consume \/ ConsumeFails \/ Disconnect \/ Repost \/ FailNip5
             \/ Refuse \/ Pong \/ Rest \/ Ack \/ Throw \/ Crash \/ RelayAnswer \/ UNCHANGED vars
    BY <1>3, <1>6 DEF Restart, Consume, ConsumeFails, Disconnect, Repost, FailNip5, Refuse,
                      Pong, Rest, Ack, Throw, Crash, Die, Goto, RelayAnswer, Land, Bounce,
                      events, vars
  <1>7. QED
    BY <1>1, <1>2, <1>4, <1>5, <1>6 DEF Next, ServerStep, Environment, Arrive, Tick, Assign

(* The mapping, named. *)
Vetted == {queue[copy.pos] : copy \in made}

ShownAt(p) == IF copies[p] = None THEN None ELSE queue[copies[p].pos]

Shown == [p \in Places |-> ShownAt(p)]

(* What is vetted and shown does not move when the queue grows. *)
LEMMA LayerKept ==
    ASSUME TypeInv, Decided, QueueKept
    PROVE  /\ UNCHANGED made => Vetted' = Vetted
           /\ UNCHANGED <<made, copies>> /\ Ordered => Shown' = Shown
  <1>1. \A copy \in made : copy.pos \in 1 .. Len(queue) /\ queue'[copy.pos] = queue[copy.pos]
    BY DEF Decided, AckedIsDecided, QueueKept
  <1>2. UNCHANGED made => Vetted' = Vetted
    BY <1>1 DEF Vetted
  <1>3. ASSUME UNCHANGED <<made, copies>>, Ordered PROVE Shown' = Shown
    <2>1. \A p \in Places : copies[p] # None => copies[p] \in made
      BY <1>3 DEF Ordered, NewestShown, TypeInv, TypeOK
    <2>2. QED
      BY <1>1, <1>3, <2>1 DEF Shown, ShownAt
  <1>4. QED
    BY <1>2, <1>3

LEMMA LayerInit == Init => Layer!Init
  BY DEF Init, Layer!Init

LEMMA LayerStutters ==
    ASSUME TypeInv, Decided, Ordered, QueueKept, UNCHANGED <<made, copies, nip5, claimed>>
    PROVE  UNCHANGED Layer!layerVars
  BY LayerKept DEF Layer!layerVars, Vetted, Shown, ShownAt

LEMMA RepostVets ==
    ASSUME TypeInv, Decided, Ordered, NamesAreClaimed, QueueKept, Repost
    PROVE  \E n \in Notes : Layer!Vet(n)
  <1> PICK n \in Notes : n = Current
    BY DEF TypeInv, StageOK, Repost
  <1> PICK u \in Usernames : u = username
    BY DEF TypeInv, StageOK, Repost
  <1> PICK copy \in Copies : made' = made \cup {copy} /\ copy.pos = acked + 1
    BY CopyTyped DEF Repost
  <1>1. <<AuthorOf[n], u>> \in claimed /\ nip5[u] = AuthorOf[n]
    BY DEF NamesAreClaimed, Repost
  <1>2. UNCHANGED <<claimed, nip5, copies, queue>>
    BY DEF Repost, events
  <1>3. Vetted' = Vetted \cup {n}
    BY <1>2 DEF Vetted, Current
  <1>4. Shown' = Shown
    BY <1>2 DEF Shown, ShownAt
  <1>5. Layer!Vet(n)
    BY <1>1, <1>2, <1>3, <1>4 DEF Layer!Vet, Vetted, Shown, ShownAt
  <1>6. QED
    BY <1>5

LEMMA LandShows ==
    ASSUME TypeInv, Decided, Ordered, QueueKept, NEW copy \in wire, Land(copy)
    PROVE  [Layer!Next]_(Layer!layerVars)
  <1>1. UNCHANGED <<made, nip5, claimed, queue>>
    BY DEF Land, events
  <1>2. CASE UNCHANGED copies
    BY <1>1, <1>2, LayerStutters
  <1>3. CASE copies' = [copies EXCEPT ![PlaceOfCopy(copy)] = copy]
    <2> PICK n \in Notes : n = queue[copy.pos]
      BY DEF TypeInv, TypeOK, Decided, AckedIsDecided
    <2>1. n \in Vetted /\ PlaceOfCopy(copy) = PlaceOf[n] /\ PlaceOf[n] \in Places
      BY ConstantsAssumption DEF Vetted, PlaceOfCopy, TypeInv, TypeOK
    <2>2. copy # None /\ copies \in [Places -> Copies \cup {None}]
      BY DistinctAssumption DEF TypeInv, TypeOK
    <2>3. Shown' = [Shown EXCEPT ![PlaceOf[n]] = n]
      <3>1. ShownAt(PlaceOf[n])' = n
        BY <1>1, <1>3, <2>1, <2>2 DEF ShownAt
      <3>2. \A p \in Places \ {PlaceOf[n]} : ShownAt(p)' = ShownAt(p)
        BY <1>1, <1>3, <2>1, <2>2 DEF ShownAt
      <3>3. QED
        BY <2>1, <3>1, <3>2 DEF Shown
    <2>4. Vetted' = Vetted
      BY <1>1 DEF Vetted
    <2>5. Layer!Show(n)
      BY <1>1, <2>1, <2>3, <2>4 DEF Layer!Show, Vetted, Shown, ShownAt
    <2>6. QED
      BY <2>5 DEF Layer!Next
  <1>4. QED
    BY <1>2, <1>3 DEF Land

LEMMA PublishIsClaim ==
    ASSUME TypeInv, Decided, Ordered, QueueKept, NEW a \in Authors,
           NEW name \in Usernames \cup {NoName}, Publish(a, name)
    PROVE  [Layer!Next]_(Layer!layerVars)
  <1>1. UNCHANGED <<made, copies, nip5, queue>>
    BY DEF Publish, relay
  <1>2. Vetted' = Vetted /\ Shown' = Shown
    BY <1>1 DEF Vetted, Shown, ShownAt
  <1>3. CASE name \in Usernames
    <2>1. claimed' = claimed \cup {<<a, name>>}
      BY <1>3 DEF Publish
    <2>2. Layer!Claim(a, name)
      BY <1>1, <1>2, <2>1 DEF Layer!Claim, Vetted, Shown, ShownAt
    <2>3. QED
      BY <1>3, <2>2 DEF Layer!Next
  <1>4. CASE name \notin Usernames
    <2>1. claimed' = claimed
      BY <1>4 DEF Publish
    <2>2. QED
      BY <1>1, <2>1, LayerStutters
  <1>5. QED
    BY <1>3, <1>4

LEMMA LayerStep ==
    TypeInv /\ Decided /\ Ordered /\ NamesAreClaimed /\ [Next]_vars
        => [Layer!Next]_(Layer!layerVars)
  <1> SUFFICES ASSUME TypeInv, Decided, Ordered, NamesAreClaimed, [Next]_vars
               PROVE  [Layer!Next]_(Layer!layerVars)
    OBVIOUS
  <1>1. QueueKept
    BY NextKeepsQueue
  <1>2. CASE Repost
    BY <1>1, <1>2, RepostVets DEF Layer!Next
  <1>3. CASE \E copy \in wire : Land(copy)
    BY <1>1, <1>3, LandShows
  <1>4. CASE \E a \in Authors, name \in Usernames \cup {NoName} : Publish(a, name)
    BY <1>1, <1>4, PublishIsClaim
  <1>5. ASSUME NEW u \in Usernames, NEW k \in Pubkeys \cup {None}, Assign(u, k)
        PROVE  [Layer!Next]_(Layer!layerVars)
    <2>1. Layer!Assign(u, k)
      BY <1>5 DEF Assign, relay, Layer!Assign
    <2>2. QED
      BY <2>1 DEF Layer!Next
  <1>6. CASE \/ Restart \/ Consume \/ ConsumeFails \/ Disconnect \/ Deliver \/ QueryProfile
             \/ FailNip5 \/ Refuse \/ Pong \/ Rest \/ Ack \/ Throw \/ Crash \/ (\E copy \in wire : Bounce(copy))
             \/ (\E item \in Items : Arrive(item)) \/ Tick \/ UNCHANGED vars
    <2>1. UNCHANGED <<made, copies, nip5, claimed>>
      BY <1>6 DEF Restart, Consume, ConsumeFails, Disconnect, Deliver, QueryProfile, FailNip5,
                  Refuse, Pong, Rest, Ack, Throw, Crash, Bounce, Arrive, Tick, events, relay, vars
    <2>2. QED
      BY <1>1, <2>1, LayerStutters
  <1>7. QED
    BY <1>2, <1>3, <1>4, <1>5, <1>6 DEF Next, ServerStep, RelayAnswer, Environment

\* nr-server implements VettedLayer: whatever it crashes in, however profiles
\* and links change meanwhile, the relay shows a copy only of a note whose
\* author claimed a username that Trustroots gave to that author when asked.
THEOREM LayerIsVetted == Spec => CopiesAreVetted
  <1>1. Init => NamesAreClaimed
    BY DistinctAssumption DEF Init, NamesAreClaimed
  <1>2. Spec => []NamesAreClaimed
    BY <1>1, TypeInvariant, NextNamesAreClaimed, PTL DEF Spec
  <1>3. QED
    BY <1>2, OrderedInvariant, LayerInit, LayerStep, PTL DEF Spec, CopiesAreVetted, Layer!Spec

============================================================================
