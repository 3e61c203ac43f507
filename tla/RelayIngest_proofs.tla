------------------------- MODULE RelayIngest_proofs -------------------------
(* The theorems about RelayIngest and their proofs. *)
EXTENDS RelayIngest, SequenceTheorems, TLAPS

Posts == {"received", "published", "refused"}

(* TypeOK with log's bound stated of its elements. *)
TypeInv ==
    /\ submitted \in Seq(Events) /\ posts \in Seq(Posts)
    /\ verdicts \in Seq(BOOLEAN) /\ log \in Seq(Nat)
    /\ \A k \in 1 .. Len(log) : log[k] \in 1 .. Len(posts)
    /\ Len(verdicts) <= Len(posts) /\ Len(posts) <= Len(verdicts) + 1
    /\ Len(posts) <= Len(submitted)

(* A handler that says "published" has published, once, and a verdict that    *)
(* accepts was given after it said so.                                        *)
PublishedOnce ==
    /\ \A i \in 1 .. Len(posts) :
           posts[i] = "published" <=> \E k \in 1 .. Len(log) : log[k] = i
    /\ \A j, k \in 1 .. Len(log) : log[j] = log[k] => j = k
    /\ \A k \in 1 .. Len(log) : submitted[log[k]] \in AcceptedKinds
    /\ \A i \in 1 .. Len(verdicts) : verdicts[i] => posts[i] = "published"

IngestInv == TypeInv /\ PublishedOnce

(* The four sequences only grow, at the end. *)
LEMMA Extended ==
    ASSUME NEW S, NEW s \in Seq(S), NEW e \in S
    PROVE  /\ Append(s, e) \in Seq(S) /\ Len(Append(s, e)) = Len(s) + 1 /\ Len(s) \in Nat
           /\ Append(s, e)[Len(s) + 1] = e
           /\ \A i \in 1 .. Len(s) : Append(s, e)[i] = s[i]
           /\ \A i \in 1 .. Len(s) + 1 : i \in 1 .. Len(s) \/ i = Len(s) + 1
  <1>1. Len(s) \in Nat
    BY LenProperties
  <1>2. QED
    BY <1>1, AppendProperties

LEMMA SubmitStep ==
    ASSUME IngestInv, NEW event \in Events, Submit(event)
    PROVE  IngestInv'
  <1>1. submitted \in Seq(Events) /\ submitted' = Append(submitted, event)
        /\ UNCHANGED <<posts, verdicts, log>>
    BY DEF Submit, IngestInv, TypeInv
  <1>2. /\ submitted' \in Seq(Events) /\ Len(submitted') = Len(submitted) + 1
        /\ \A i \in 1 .. Len(submitted) : submitted'[i] = submitted[i]
        /\ Len(submitted) \in Nat /\ Len(posts) \in Nat
    BY <1>1, Extended, LenProperties DEF IngestInv, TypeInv
  <1>3. TypeInv'
    BY <1>1, <1>2 DEF IngestInv, TypeInv
  <1>4. \A k \in 1 .. Len(log) : log[k] \in 1 .. Len(submitted)
    <2> SUFFICES ASSUME NEW k \in 1 .. Len(log) PROVE log[k] \in 1 .. Len(submitted)
      OBVIOUS
    <2>1. log[k] \in 1 .. Len(posts) /\ Len(posts) <= Len(submitted)
      BY DEF IngestInv, TypeInv
    <2>2. QED
      BY <1>2, <2>1
  <1>5. PublishedOnce'
    BY <1>1, <1>2, <1>4 DEF IngestInv, PublishedOnce
  <1>6. QED
    BY <1>3, <1>5 DEF IngestInv

LEMMA ReadStep ==
    ASSUME IngestInv, Read
    PROVE  IngestInv'
  <1>1. /\ posts \in Seq(Posts) /\ posts' = Append(posts, "received") /\ "received" \in Posts
        /\ UNCHANGED <<submitted, verdicts, log>>
        /\ ~(Len(verdicts) < Len(posts)) /\ Len(posts) < Len(submitted)
    BY DEF Read, Waiting, IngestInv, TypeInv, Posts
  <1>2. /\ posts' \in Seq(Posts) /\ Len(posts') = Len(posts) + 1 /\ Len(posts) \in Nat
        /\ posts'[Len(posts) + 1] = "received"
        /\ \A i \in 1 .. Len(posts) : posts'[i] = posts[i]
        /\ \A i \in 1 .. Len(posts) + 1 : i \in 1 .. Len(posts) \/ i = Len(posts) + 1
    BY <1>1, Extended
  <1>3. Len(submitted) \in Nat /\ Len(verdicts) \in Nat
    BY LenProperties DEF IngestInv, TypeInv
  <1>4. TypeInv'
    BY <1>1, <1>2, <1>3 DEF IngestInv, TypeInv
  <1>5. \A k \in 1 .. Len(log) : log[k] # Len(posts) + 1
    BY <1>2 DEF IngestInv, TypeInv
  <1>6. \A i \in 1 .. Len(verdicts) : i \in 1 .. Len(posts)
    BY <1>2, <1>3 DEF IngestInv, TypeInv
  <1>7. PublishedOnce'
    BY <1>1, <1>2, <1>5, <1>6 DEF IngestInv, PublishedOnce
  <1>8. QED
    BY <1>4, <1>7 DEF IngestInv

(* The handler ends without publishing. *)
LEMMA RefuseStep ==
    ASSUME IngestInv, NEW i \in DOMAIN posts, RefuseKind(i) \/ PublishFails(i)
    PROVE  IngestInv'
  <1>1. /\ posts[i] = "received" /\ posts' = [posts EXCEPT ![i] = "refused"]
        /\ UNCHANGED <<submitted, verdicts, log>> /\ posts \in Seq(Posts)
    BY DEF RefuseKind, PublishFails, IngestInv, TypeInv
  <1>2. /\ posts' \in Seq(Posts) /\ Len(posts') = Len(posts) /\ i \in 1 .. Len(posts)
        /\ posts'[i] = "refused" /\ \A j \in 1 .. Len(posts) \ {i} : posts'[j] = posts[j]
    BY <1>1, ExceptSeq, LenProperties DEF Posts
  <1>3. TypeInv'
    BY <1>1, <1>2 DEF IngestInv, TypeInv
  <1>4. ~\E k \in 1 .. Len(log) : log[k] = i
    BY <1>1, <1>2 DEF IngestInv, PublishedOnce
  <1>5. \A j \in 1 .. Len(verdicts) : verdicts[j] => posts'[j] = "published"
    <2>1. Len(verdicts) \in Nat /\ Len(posts) \in Nat
      BY LenProperties DEF IngestInv, TypeInv
    <2>2. QED
      BY <1>1, <1>2, <2>1 DEF IngestInv, TypeInv, PublishedOnce
  <1>6. PublishedOnce'
    BY <1>1, <1>2, <1>4, <1>5 DEF IngestInv, PublishedOnce
  <1>7. QED
    BY <1>3, <1>6 DEF IngestInv

LEMMA PublishStep ==
    ASSUME IngestInv, NEW i \in DOMAIN posts, Publish(i)
    PROVE  IngestInv'
  <1>1. /\ posts[i] = "received" /\ posts' = [posts EXCEPT ![i] = "published"]
        /\ log' = Append(log, i) /\ submitted[i] \in AcceptedKinds
        /\ UNCHANGED <<submitted, verdicts>> /\ posts \in Seq(Posts) /\ log \in Seq(Nat)
    BY DEF Publish, IngestInv, TypeInv
  <1>2. /\ posts' \in Seq(Posts) /\ Len(posts') = Len(posts) /\ i \in 1 .. Len(posts)
        /\ posts'[i] = "published" /\ \A j \in 1 .. Len(posts) \ {i} : posts'[j] = posts[j]
    BY <1>1, ExceptSeq, LenProperties DEF Posts
  <1>3. i \in Nat
    BY <1>2
  <1>4. /\ log' \in Seq(Nat) /\ Len(log') = Len(log) + 1 /\ Len(log) \in Nat
        /\ log'[Len(log) + 1] = i
        /\ \A k \in 1 .. Len(log) : log'[k] = log[k]
        /\ \A k \in 1 .. Len(log) + 1 : k \in 1 .. Len(log) \/ k = Len(log) + 1
    BY <1>1, <1>3, Extended
  <1>5. TypeInv'
    BY <1>1, <1>2, <1>4 DEF IngestInv, TypeInv
  <1>6. \A k \in 1 .. Len(log) : log[k] # i
    BY <1>1, <1>2 DEF IngestInv, PublishedOnce
  <1>7. \A j \in 1 .. Len(posts) :
            posts'[j] = "published" <=> \E k \in 1 .. Len(log') : log'[k] = j
    <2>1. \A j \in 1 .. Len(posts) :
              (\E k \in 1 .. Len(log') : log'[k] = j) <=> j = i \/ \E k \in 1 .. Len(log) : log[k] = j
      BY <1>4
    <2>2. QED
      BY <1>2, <2>1 DEF IngestInv, PublishedOnce
  <1>8. \A j, k \in 1 .. Len(log') : log'[j] = log'[k] => j = k
    BY <1>4, <1>6 DEF IngestInv, PublishedOnce
  <1>9. \A k \in 1 .. Len(log') : submitted[log'[k]] \in AcceptedKinds
    BY <1>1, <1>4 DEF IngestInv, PublishedOnce
  <1>10. \A j \in 1 .. Len(verdicts) : verdicts[j] => posts'[j] = "published"
    <2>1. Len(verdicts) \in Nat /\ Len(posts) \in Nat
      BY LenProperties DEF IngestInv, TypeInv
    <2>2. QED
      BY <1>1, <1>2, <2>1 DEF IngestInv, TypeInv, PublishedOnce
  <1>11. PublishedOnce'
    BY <1>1, <1>2, <1>7, <1>8, <1>9, <1>10 DEF PublishedOnce
  <1>12. QED
    BY <1>5, <1>11 DEF IngestInv

(* The plugin answers from the handler's response, or gives up waiting. *)
LEMMA VerdictStep ==
    ASSUME IngestInv, NEW v \in BOOLEAN, Waiting, verdicts' = Append(verdicts, v),
           v => posts[Len(posts)] = "published", UNCHANGED <<submitted, posts, log>>
    PROVE  IngestInv'
  <1>1. /\ verdicts \in Seq(BOOLEAN) /\ Len(posts) \in Nat
        /\ Len(verdicts) < Len(posts) /\ Len(posts) <= Len(verdicts) + 1
    BY LenProperties DEF Waiting, IngestInv, TypeInv
  <1>2. /\ verdicts' \in Seq(BOOLEAN) /\ Len(verdicts') = Len(verdicts) + 1
        /\ Len(verdicts) \in Nat /\ verdicts'[Len(verdicts) + 1] = v
        /\ \A j \in 1 .. Len(verdicts) : verdicts'[j] = verdicts[j]
        /\ \A j \in 1 .. Len(verdicts) + 1 : j \in 1 .. Len(verdicts) \/ j = Len(verdicts) + 1
    BY <1>1, Extended
  <1>3. Len(posts) = Len(verdicts) + 1
    BY <1>1, <1>2
  <1>4. TypeInv'
    BY <1>2, <1>3 DEF IngestInv, TypeInv
  <1>5. PublishedOnce'
    BY <1>2, <1>3 DEF IngestInv, PublishedOnce
  <1>6. QED
    BY <1>4, <1>5 DEF IngestInv

LEMMA InitIngestInv == Init => IngestInv
  BY DEF Init, IngestInv, TypeInv, PublishedOnce

LEMMA NextIngestInv == IngestInv /\ [Next]_ingestVars => IngestInv'
  <1> SUFFICES ASSUME IngestInv, [Next]_ingestVars PROVE IngestInv'
    OBVIOUS
  <1>1. CASE \E event \in Events : Submit(event)
    BY <1>1, SubmitStep
  <1>2. CASE Read
    BY <1>2, ReadStep
  <1>3. CASE Handler
    BY <1>3, RefuseStep, PublishStep DEF Handler
  <1>4. CASE Answer
    <2>1. (posts[Len(posts)] = "published") \in BOOLEAN
      OBVIOUS
    <2>2. QED
      BY <1>4, <2>1, VerdictStep DEF Answer
  <1>5. CASE GiveUp
    BY <1>5, VerdictStep DEF GiveUp
  <1>6. CASE UNCHANGED ingestVars
    BY <1>6 DEF ingestVars, IngestInv, TypeInv, PublishedOnce
  <1>7. QED
    BY <1>1, <1>2, <1>3, <1>4, <1>5, <1>6 DEF Next

LEMMA IngestInvariant == Spec => []IngestInv
  BY InitIngestInv, NextIngestInv, PTL DEF Spec

\* Lines, posts, verdicts and the exchange stay in step, one post at a time,
\* also while handlers the plugin gave up on are still running.
THEOREM IngestTypeCorrect == Spec => []TypeOK
  <1>1. IngestInv => TypeOK
    <2> SUFFICES ASSUME IngestInv PROVE TypeOK
      OBVIOUS
    <2>1. log \in Seq(1 .. Len(posts))
      <3>1. log \in Seq(Nat) /\ \A k \in 1 .. Len(log) : log[k] \in 1 .. Len(posts)
        BY DEF IngestInv, TypeInv
      <3>2. QED
        BY <3>1, LenProperties
    <2>2. QED
      BY <2>1 DEF IngestInv, TypeInv, TypeOK, Posts
  <1>2. QED
    BY <1>1, IngestInvariant, PTL

\* The plugin (nr-relay) accepts an event only after nr-relay-to-rabbit has
\* published it, and no event is published twice, however late handlers end.
THEOREM AcceptedPublished == Spec => []AcceptedIsPublished
  <1>1. IngestInv => AcceptedIsPublished
    <2> SUFFICES ASSUME IngestInv PROVE AcceptedIsPublished
      OBVIOUS
    <2>1. /\ DOMAIN verdicts = 1 .. Len(verdicts) /\ DOMAIN log = 1 .. Len(log)
          /\ Len(verdicts) \in Nat /\ Len(posts) \in Nat
      BY LenProperties DEF IngestInv, TypeInv
    <2>2. \A i \in 1 .. Len(verdicts) : i \in 1 .. Len(posts)
      BY <2>1 DEF IngestInv, TypeInv
    <2>3. QED
      BY <2>1, <2>2 DEF IngestInv, PublishedOnce, AcceptedIsPublished
  <1>2. QED
    BY <1>1, IngestInvariant, PTL

=============================================================================
