------------------------ MODULE BrowserBridge_proofs ------------------------
(***************************************************************************)
(* The invariants of the app's browser bridge, for any number of requests, *)
(* sites, methods and calls of allowPrompt under way.                      *)
(***************************************************************************)
EXTENDS BrowserBridge, TLAPS

TapTypes ==
    /\ tap \in [Taps -> {"idle", "reading", "writing", "sending"}]
    /\ about \in [Taps -> Keys \cup {None}]
    /\ list \in [Taps -> SUBSET Keys] /\ sends \in [Taps -> SUBSET Requests]
    /\ \A t \in Taps : tap[t] \in {"reading", "writing"} => about[t] \in Keys

\* What allowPrompts took from the Map is released, to one of them.
SendsOK ==
    \A t \in Taps :
       /\ tap[t] = "sending" <=> sends[t] # {}
       /\ \A r \in sends[t] : stage[r] = "released"
       /\ \A u \in Taps \ {t} : sends[t] \cap sends[u] = {}

RequestTypes ==
    /\ stage \in [Requests -> Stages] /\ answers \in [Requests -> Nat]
    /\ key \in [Requests -> Keys \cup {None}]
    /\ \A r \in Requests : stage[r] # "unsent" => key[r] \in Keys

WebViewTypes ==
    /\ {site, url} \subseteq Sites /\ loads \in Nat /\ loading \in BOOLEAN
    /\ hidden \in SUBSET Requests /\ overtaken \in SUBSET Keys

StoredTypes ==
    /\ {prompt, shown, promptRef} \subseteq Keys \cup {None}
    /\ remembered \in SUBSET Keys /\ granted \in SUBSET Keys
    /\ revoke \in [key : Keys, list : SUBSET Keys] \cup {None}

LEMMA TypeParts == TypeOK <=> RequestTypes /\ TapTypes /\ SendsOK /\ WebViewTypes /\ StoredTypes
  BY DEF TypeOK, RequestTypes, TapTypes, SendsOK, WebViewTypes, StoredTypes

LEMMA TypePartsNext ==
  ASSUME RequestTypes', TapTypes', SendsOK', WebViewTypes', StoredTypes'
  PROVE  TypeOK'
  BY DEF TypeOK, RequestTypes, TapTypes, SendsOK, WebViewTypes, StoredTypes

LEMMA TypeInit == Init => TypeOK
  <1> SUFFICES ASSUME Init PROVE TypeOK
    OBVIOUS
  <1>1. RequestTypes
    BY DEF Init, RequestTypes, Stages
  <1>2. TapTypes /\ SendsOK
    BY DEF Init, TapTypes, SendsOK
  <1>3. WebViewTypes /\ StoredTypes
    BY ConstantsAssumption DEF Init, WebViewTypes, StoredTypes
  <1> QED BY <1>1, <1>2, <1>3, TypeParts

LEMMA DenyTypes ==
  ASSUME TypeOK, NEW R \in SUBSET Waiting, Deny(R)
  PROVE  /\ stage' \in [Requests -> Stages] /\ answers' \in [Requests -> Nat]
         /\ \A r \in Requests : stage[r] # "pending" => stage'[r] = stage[r]
  <1>1. R \subseteq Requests /\ \A r \in R : stage[r] = "pending"
    BY DEF Waiting
  <1> QED BY <1>1 DEF Deny, Answered, TypeOK, Stages

LEMMA ShowNextTypes ==
  ASSUME TypeOK, NEW R \in SUBSET Waiting, ShowNext(R)
  PROVE  prompt' \in Keys \cup {None}
  BY DEF TypeOK, ShowNext, Waiting

LEMMA ReleaseTypes ==
  ASSUME TypeOK, NEW t \in Taps, tap[t] # "sending", NEW k, Release(t, k)
  PROVE  /\ stage' \in [Requests -> Stages] /\ prompt' \in Keys \cup {None}
         /\ tap' \in [Taps -> {"idle", "reading", "writing", "sending"}]
         /\ about' \in [Taps -> Keys \cup {None}]
         /\ list' \in [Taps -> SUBSET Keys] /\ sends' \in [Taps -> SUBSET Requests]
         /\ \A u \in Taps :
              /\ tap'[u] \in {"reading", "writing"} => about'[u] \in Keys
              /\ tap'[u] = "sending" <=> sends'[u] # {}
              /\ \A r \in sends'[u] : stage'[r] = "released"
              /\ \A v \in Taps \ {u} : sends'[u] \cap sends'[v] = {}
  <1> DEFINE R == {r \in Waiting : key[r] = k}
  <1>1. R \subseteq Requests /\ \A r \in R : stage[r] = "pending"
    BY DEF Waiting
  <1>2. /\ stage' = [r \in Requests |-> IF r \in R THEN "released" ELSE stage[r]]
        /\ sends' = [sends EXCEPT ![t] = R]
        /\ list' = [list EXCEPT ![t] = {}] /\ about' = [about EXCEPT ![t] = None]
        /\ \/ R = {} /\ ShowNext(Waiting) /\ tap' = [tap EXCEPT ![t] = "idle"]
           \/ R # {} /\ prompt' = None /\ tap' = [tap EXCEPT ![t] = "sending"]
    BY DEF Release
  <1>3. prompt' \in Keys \cup {None}
    BY <1>2, ShowNextTypes
  <1>4. stage' \in [Requests -> Stages]
    BY <1>2 DEF TypeOK, Stages
  <1>5. \A u \in Taps : \A r \in sends[u] : r \notin R
    BY <1>1 DEF TypeOK
  <1> HIDE DEF R
  <1>6. \A u \in Taps : sends'[u] = (IF u = t THEN R ELSE sends[u])
    BY <1>2 DEF TypeOK
  <1>7. \A u \in Taps : tap'[u] = (IF u = t THEN (IF R = {} THEN "idle" ELSE "sending") ELSE tap[u])
    BY <1>2 DEF TypeOK
  <1>8. \A u \in Taps : tap'[u] = "sending" <=> sends'[u] # {}
    BY <1>6, <1>7 DEF TypeOK
  <1>9. \A u \in Taps : \A r \in sends'[u] : stage'[r] = "released"
    BY <1>1, <1>2, <1>5, <1>6 DEF TypeOK
  <1>10. \A u \in Taps : \A v \in Taps \ {u} : sends'[u] \cap sends'[v] = {}
    BY <1>5, <1>6 DEF TypeOK
  <1>11. /\ tap' \in [Taps -> {"idle", "reading", "writing", "sending"}]
         /\ about' \in [Taps -> Keys \cup {None}]
         /\ list' \in [Taps -> SUBSET Keys] /\ sends' \in [Taps -> SUBSET Requests]
    BY <1>1, <1>2 DEF TypeOK
  <1>12. \A u \in Taps : tap'[u] \in {"reading", "writing"} => about'[u] \in Keys
    BY <1>2, <1>7 DEF TypeOK
  <1> QED BY <1>3, <1>4, <1>8, <1>9, <1>10, <1>11, <1>12
LEMMA KeysAreRecords ==
  ASSUME NEW k \in Keys
  PROVE  k.site \in Sites /\ k # None
  BY NoneAssumption DEF Keys

\* Whatever is denied was waiting, so nothing that is being sent changes.
LEMMA DenyKeeps ==
  ASSUME TypeOK, NEW R \in SUBSET Waiting, Deny(R), UNCHANGED <<key, tapping>>
  PROVE  RequestTypes' /\ TapTypes' /\ SendsOK'
  <1>1. /\ stage' \in [Requests -> Stages] /\ answers' \in [Requests -> Nat]
        /\ \A r \in Requests : stage[r] # "pending" => stage'[r] = stage[r]
    BY DenyTypes
  <1>2. \A r \in Requests : stage'[r] # "unsent" => stage[r] # "unsent"
    BY DEF Deny, Waiting, TypeOK
  <1>3. RequestTypes'
    BY <1>1, <1>2 DEF TypeOK, RequestTypes
  <1>4. TapTypes'
    BY DEF TypeOK, TapTypes, tapping
  <1>5. SendsOK'
    <2>1. \A t \in Taps : \A r \in sends[t] : r \in Requests /\ stage'[r] = "released"
      BY <1>1 DEF TypeOK
    <2> QED BY <2>1 DEF TypeOK, SendsOK, tapping
  <1> QED BY <1>3, <1>4, <1>5

LEMMA NavigateTypes ==
  ASSUME TypeOK, NEW s \in Sites, Navigate(s), UNCHANGED <<key, react, tapping, stored, granted>>
  PROVE  RequestTypes' /\ TapTypes' /\ SendsOK' /\ StoredTypes' /\ url' \in Sites
         /\ hidden' \in SUBSET Requests /\ overtaken' \in SUBSET Keys
  <1>1. url' \in Sites
    BY DEF Navigate
  <1>2. hidden' \in SUBSET Requests /\ overtaken' \in SUBSET Keys /\ StoredTypes'
    BY DEF Navigate, Waiting, TypeOK, StoredTypes, stored, react, missed
  <1>3. CASE url = s
    BY <1>1, <1>2, <1>3 DEF Navigate, TypeOK, RequestTypes, TapTypes, SendsOK, tapping
  <1>4. CASE url # s
    <2> DEFINE left == {r \in Waiting : key[r].site = s}
    <2>1. Deny(Waiting \ left)
      BY <1>4 DEF Navigate
    <2>2. Waiting \ left \in SUBSET Waiting
      OBVIOUS
    <2> HIDE DEF left
    <2>3. RequestTypes' /\ TapTypes' /\ SendsOK'
      BY <2>1, <2>2, DenyKeeps
    <2> QED BY <1>1, <1>2, <2>3
  <1> QED BY <1>3, <1>4

\* A step that moves one request, which nobody is sending.
LEMMA MoveKeeps ==
  ASSUME TypeOK, NEW r \in Requests, NEW to \in Stages,
         stage[r] \notin {"unsent", "released"}, to # "unsent",
         stage' = [stage EXCEPT ![r] = to],
         UNCHANGED <<key, tapping>>
  PROVE  /\ stage' \in [Requests -> Stages] /\ key' \in [Requests -> Keys \cup {None}]
         /\ \A q \in Requests : stage'[q] # "unsent" => key'[q] \in Keys
         /\ TapTypes' /\ SendsOK'
  <1>1. \A q \in Requests : stage'[q] = (IF q = r THEN to ELSE stage[q])
    BY DEF TypeOK
  <1>2. \A t \in Taps : \A q \in sends[t] : q \in Requests /\ q # r
    BY DEF TypeOK
  <1>3. SendsOK'
    BY <1>1, <1>2 DEF TypeOK, SendsOK, tapping
  <1>4. TapTypes'
    BY DEF TypeOK, TapTypes, tapping
  <1> QED BY <1>1, <1>3, <1>4 DEF TypeOK

\* A step of one allowPrompt that neither takes nor answers a request.
LEMMA TapKeeps ==
  ASSUME TypeOK, NEW t \in Taps, NEW to \in {"idle", "reading", "writing"},
         tap[t] # "sending", tap' = [tap EXCEPT ![t] = to],
         UNCHANGED <<stage, sends>>
  PROVE  SendsOK' /\ tap' \in [Taps -> {"idle", "reading", "writing", "sending"}]
  <1>1. \A u \in Taps : tap'[u] = (IF u = t THEN to ELSE tap[u])
    BY DEF TypeOK
  <1> QED BY <1>1 DEF TypeOK, SendsOK

\* Every action keeps the types.
LEMMA TypeStep == TypeOK /\ [Next]_vars => TypeOK'
  <1> SUFFICES ASSUME TypeOK, [Next]_vars PROVE TypeOK'
    OBVIOUS
  <1>1. ASSUME NEW r \in Requests, NEW m \in Methods, Send(r, m) PROVE TypeOK'
    <2>1. \A origin \in {site, url} : [site |-> origin, method |-> m] \in Keys
      BY DEF TypeOK, Keys
    <2>2. RequestTypes'
      BY <1>1, <2>1 DEF Send, TypeOK, RequestTypes, Stages
    <2>3. \A t \in Taps : \A q \in sends[t] : q \in Requests /\ q # r
      BY <1>1 DEF Send, TypeOK
    <2>4. SendsOK'
      BY <1>1, <2>3 DEF Send, TypeOK, SendsOK, tapping
    <2>5. TapTypes' /\ WebViewTypes' /\ StoredTypes'
      BY <1>1 DEF Send, TypeOK, TapTypes, WebViewTypes, StoredTypes, tapping, webview, stored, react,
             missed
    <2> QED BY <2>2, <2>4, <2>5, TypePartsNext
  <1>2. ASSUME NEW r \in Requests, Serve(r) \/ CheckFails(r) PROVE TypeOK'
    <2>1. RequestTypes' /\ TapTypes' /\ SendsOK'
      BY <1>2, MoveKeeps DEF Serve, CheckFails, TypeOK, RequestTypes, Stages
    <2>2. WebViewTypes' /\ StoredTypes'
      BY <1>2 DEF Serve, CheckFails, TypeOK, WebViewTypes, StoredTypes, webview, stored, react, missed
    <2> QED BY <2>1, <2>2, TypePartsNext
  <1>3. ASSUME NEW r \in Requests, Enqueue(r) PROVE TypeOK'
    <2>1. RequestTypes' /\ TapTypes' /\ SendsOK'
      BY <1>3, MoveKeeps DEF Enqueue, TypeOK, RequestTypes, Stages
    <2>2. WebViewTypes' /\ StoredTypes'
      BY <1>3 DEF Enqueue, TypeOK, WebViewTypes, StoredTypes, webview, stored, react, missed
    <2> QED BY <2>1, <2>2, TypePartsNext
  <1>4. ASSUME NEW r \in Requests, Answer(r) PROVE TypeOK'
    <2>1. /\ stage' \in [Requests -> Stages] /\ key' \in [Requests -> Keys \cup {None}]
          /\ \A q \in Requests : stage'[q] # "unsent" => key'[q] \in Keys
          /\ TapTypes' /\ SendsOK'
      BY <1>4, MoveKeeps DEF Answer, Stages
    <2>3. answers' \in [Requests -> Nat]
      BY <1>4 DEF Answer, Answered, TypeOK
    <2>4. RequestTypes'
      BY <2>1, <2>3 DEF RequestTypes
    <2>2. WebViewTypes' /\ StoredTypes'
      BY <1>4 DEF Answer, TypeOK, WebViewTypes, StoredTypes, webview, stored, react, missed
    <2> QED BY <2>1, <2>2, <2>4, TypePartsNext
  <1>5. ASSUME NEW t \in Taps, AllowOnce(t) PROVE TypeOK'
    <2>1. shown \in Keys
      BY <1>5 DEF AllowOnce, TypeOK
    <2>2. TapTypes' /\ SendsOK' /\ stage' \in [Requests -> Stages] /\ prompt' \in Keys \cup {None}
      BY <1>5, ReleaseTypes DEF AllowOnce, TapTypes, SendsOK
    <2>3. \A r \in Requests : stage'[r] # "unsent" => stage[r] # "unsent"
      BY <1>5 DEF AllowOnce, Release, Waiting, TypeOK
    <2>4. RequestTypes' /\ WebViewTypes' /\ StoredTypes'
      BY <1>5, <2>1, <2>2, <2>3
      DEF AllowOnce, TypeOK, RequestTypes, WebViewTypes, StoredTypes, webview, stored, react, missed
    <2> QED BY <2>2, <2>4, TypePartsNext
  <1>6. ASSUME NEW t \in Taps, AllowAlways(t) PROVE TypeOK'
    <2>1. SendsOK' /\ TapTypes'
      BY <1>6, TapKeeps DEF AllowAlways, TypeOK, TapTypes
    <2>2. RequestTypes' /\ WebViewTypes' /\ StoredTypes'
      BY <1>6 DEF AllowAlways, TypeOK, RequestTypes, WebViewTypes, StoredTypes, webview, stored, react, missed
    <2> QED BY <2>1, <2>2, TypePartsNext
  <1>7. ASSUME NEW t \in Taps, ReadList(t) PROVE TypeOK'
    <2>1. SendsOK' /\ TapTypes'
      BY <1>7, TapKeeps DEF ReadList, TypeOK, TapTypes
    <2>2. RequestTypes' /\ WebViewTypes' /\ StoredTypes'
      BY <1>7 DEF ReadList, TypeOK, RequestTypes, WebViewTypes, StoredTypes, webview, stored, react, missed
    <2> QED BY <2>1, <2>2, TypePartsNext
  <1>8. ASSUME NEW t \in Taps, RememberFails(t) PROVE TypeOK'
    <2>1. SendsOK' /\ TapTypes'
      BY <1>8, TapKeeps DEF RememberFails, TypeOK, TapTypes
    <2>2. RequestTypes' /\ WebViewTypes' /\ StoredTypes'
      BY <1>8 DEF RememberFails, TypeOK, RequestTypes, WebViewTypes, StoredTypes, webview, stored, react, missed
    <2> QED BY <2>1, <2>2, TypePartsNext
  <1>9. ASSUME NEW t \in Taps, WriteList(t) PROVE TypeOK'
    <2>1. tap[t] # "sending" /\ about[t] \in Keys
      BY <1>9 DEF WriteList, TypeOK
    <2>2. TapTypes' /\ SendsOK' /\ stage' \in [Requests -> Stages] /\ prompt' \in Keys \cup {None}
      BY <1>9, <2>1, ReleaseTypes DEF WriteList, TapTypes, SendsOK
    <2>3. \A r \in Requests : stage'[r] # "unsent" => stage[r] # "unsent"
      BY <1>9 DEF WriteList, Release, Waiting, TypeOK
    <2>4. RequestTypes' /\ WebViewTypes' /\ StoredTypes'
      BY <1>9, <2>2, <2>3
      DEF WriteList, TypeOK, RequestTypes, WebViewTypes, StoredTypes, webview, react, missed
    <2> QED BY <2>2, <2>4, TypePartsNext
  <1>10. ASSUME NEW t \in Taps, NEW r \in Requests, AnswerAllowed(t, r) PROVE TypeOK'
    <2>1. stage[r] = "released"
      BY <1>10 DEF AnswerAllowed, TypeOK
    <2>2. /\ \A q \in Requests : stage'[q] = (IF q = r THEN "signed" ELSE stage[q])
          /\ \A u \in Taps : sends'[u] = (IF u = t THEN sends[t] \ {r} ELSE sends[u])
      BY <1>10 DEF AnswerAllowed, TypeOK
    <2>3. /\ prompt' \in Keys \cup {None}
          /\ tap' = (IF sends[t] = {r} THEN [tap EXCEPT ![t] = "idle"] ELSE tap)
      BY <1>10, ShowNextTypes DEF AnswerAllowed, TypeOK
    <2>4. /\ tap' \in [Taps -> {"idle", "reading", "writing", "sending"}]
          /\ \A u \in Taps : tap'[u] = (IF u = t /\ sends[t] = {r} THEN "idle" ELSE tap[u])
      BY <2>3 DEF TypeOK
    <2>5. TapTypes'
      <3>1. sends' \in [Taps -> SUBSET Requests] /\ about' = about /\ list' = list
        BY <1>10 DEF AnswerAllowed, TypeOK
      <3> QED BY <2>4, <3>1 DEF TypeOK, TapTypes
    <2>6. SendsOK'
      <3>1. \A u \in Taps : tap'[u] = "sending" <=> sends'[u] # {}
        BY <1>10, <2>2, <2>4 DEF AnswerAllowed, TypeOK
      <3>2. \A u \in Taps : \A q \in sends'[u] : stage'[q] = "released"
        BY <1>10, <2>2 DEF AnswerAllowed, TypeOK
      <3>3. \A u \in Taps : \A v \in Taps \ {u} : sends'[u] \cap sends'[v] = {}
        BY <2>2 DEF TypeOK
      <3> QED BY <3>1, <3>2, <3>3 DEF SendsOK
    <2>7. RequestTypes'
      <3>1. stage' \in [Requests -> Stages] /\ key' = key
        BY <1>10 DEF AnswerAllowed, TypeOK, Stages
      <3>2. answers' \in [Requests -> Nat]
        BY <1>10 DEF AnswerAllowed, Answered, TypeOK
      <3>3. \A q \in Requests : stage'[q] # "unsent" => key'[q] \in Keys
        BY <2>1, <2>2, <3>1 DEF TypeOK
      <3> QED BY <3>1, <3>2, <3>3 DEF TypeOK, RequestTypes
    <2>8. WebViewTypes' /\ StoredTypes'
      BY <1>10, <2>3 DEF AnswerAllowed, TypeOK, WebViewTypes, StoredTypes, webview, stored, react, missed
    <2> QED BY <2>5, <2>6, <2>7, <2>8, TypePartsNext
  <1>11. CASE DenyPrompt
    <2> DEFINE R == {r \in Waiting : key[r] = shown}
    <2>1. Deny(R) /\ ShowNext(Waiting \ R) /\ R \in SUBSET Waiting
      BY <1>11 DEF DenyPrompt
    <2> HIDE DEF R
    <2>2. RequestTypes' /\ TapTypes' /\ SendsOK'
      BY <1>11, <2>1, DenyKeeps DEF DenyPrompt
    <2>3. prompt' \in Keys \cup {None}
      BY <2>1, ShowNextTypes
    <2>4. WebViewTypes' /\ StoredTypes'
      BY <1>11, <2>3 DEF DenyPrompt, TypeOK, WebViewTypes, StoredTypes, webview, stored, react, missed
    <2> QED BY <2>2, <2>4, TypePartsNext
  <1>12. ASSUME NEW s \in Sites, StartLoad(s) PROVE TypeOK'
    <2>1. /\ RequestTypes' /\ TapTypes' /\ SendsOK' /\ StoredTypes' /\ url' \in Sites
          /\ hidden' \in SUBSET Requests /\ overtaken' \in SUBSET Keys
      BY <1>12, NavigateTypes DEF StartLoad
    <2>2. WebViewTypes'
      BY <1>12, <2>1 DEF StartLoad, TypeOK, WebViewTypes
    <2> QED BY <2>1, <2>2, TypePartsNext
  <1>13. CASE StopLoad
    <2>1. /\ RequestTypes' /\ TapTypes' /\ SendsOK' /\ StoredTypes' /\ url' \in Sites
          /\ hidden' \in SUBSET Requests /\ overtaken' \in SUBSET Keys
      BY <1>13, NavigateTypes DEF StopLoad, TypeOK
    <2>2. WebViewTypes'
      <3>1. loading' \in BOOLEAN
        BY <1>13 DEF StopLoad
      <3>2. site' \in Sites /\ loads' \in Nat
        BY <1>13 DEF StopLoad, TypeOK
      <3> QED BY <2>1, <3>1, <3>2 DEF WebViewTypes
    <2> QED BY <2>1, <2>2, TypePartsNext
  <1>14. CASE CommitPage \/ Settings \/ UNCHANGED vars
    <2>1. UNCHANGED <<stage, key, answers, prompt, react, tapping, missed, granted, url>>
      BY <1>14 DEF CommitPage, Settings, StartRevoke, EndRevoke, Clear, vars, webview
    <2>2. RequestTypes' /\ TapTypes' /\ SendsOK'
      BY <2>1 DEF TypeOK, RequestTypes, TapTypes, SendsOK, tapping
    <2>3. WebViewTypes'
      <3>1. loading' \in BOOLEAN
        BY <1>14
        DEF CommitPage, Settings, StartRevoke, EndRevoke, Clear, vars, webview, TypeOK
      <3>2. site' \in Sites /\ loads' \in Nat
        BY <1>14
        DEF CommitPage, Settings, StartRevoke, EndRevoke, Clear, vars, webview, TypeOK
      <3> QED BY <2>1, <3>1, <3>2 DEF TypeOK, WebViewTypes, missed
    <2>4. remembered' \in SUBSET Keys /\ revoke' \in [key : Keys, list : SUBSET Keys] \cup {None}
      <3>1. ASSUME NEW k \in Keys, StartRevoke(k)
            PROVE  remembered' = remembered /\ revoke' \in [key : Keys, list : SUBSET Keys]
        BY <3>1 DEF StartRevoke, TypeOK
      <3>2. CASE EndRevoke
        <4>1. revoke.list \in SUBSET Keys
          BY <3>2 DEF EndRevoke, TypeOK
        <4> QED BY <3>2, <4>1 DEF EndRevoke
      <3>3. CASE CommitPage \/ Clear \/ UNCHANGED vars
        BY <3>3 DEF CommitPage, Clear, vars, stored, TypeOK
      <3> QED BY <1>14, <3>1, <3>2, <3>3 DEF Settings, TypeOK
    <2>5. StoredTypes'
      BY <2>1, <2>4 DEF TypeOK, StoredTypes, react
    <2> QED BY <2>2, <2>3, <2>5, TypePartsNext
  <1>15. CASE Render \/ KeepPrompt
    <2>1. RequestTypes' /\ TapTypes' /\ SendsOK'
      BY <1>15 DEF Render, KeepPrompt, TypeOK, RequestTypes, TapTypes, SendsOK, tapping
    <2>2. WebViewTypes' /\ StoredTypes'
      BY <1>15 DEF Render, KeepPrompt, TypeOK, WebViewTypes, StoredTypes, webview, stored, missed
    <2> QED BY <2>1, <2>2, TypePartsNext
  <1> QED
    BY <1>1, <1>2, <1>3, <1>4, <1>5, <1>6, <1>7, <1>8, <1>9, <1>10, <1>11, <1>12, <1>13, <1>14,
       <1>15
    DEF Next, Message, Allow, Loads
----------------------------------------------------------------------------
(* What happens to the stages *)

\* A navigation or a rejection denies requests that wait, and answers them.
Denies == \E R \in SUBSET Waiting : Deny(R)

\* allowPrompt takes requests that wait from the Map, and answers none.
Takes ==
    /\ UNCHANGED answers
    /\ \A r \in Requests : 
          \/ stage'[r] = stage[r]
          \/ stage[r] = "pending" /\ stage'[r] = "released"

\* One request goes on, without an answer.
Moves(r, to) ==
    stage[r] \notin {"signed", "denied"} /\ stage' = [stage EXCEPT ![r] = to] /\ UNCHANGED answers

LEMMA NavigateDenies ==
  ASSUME NEW s, Navigate(s)
  PROVE  Denies \/ UNCHANGED <<stage, answers>>
  <1>1. CASE url = s
    BY <1>1 DEF Navigate
  <1>2. CASE url # s
    <2> DEFINE left == {r \in Waiting : key[r].site = s}
    <2>1. Deny(Waiting \ left)
      BY <1>2 DEF Navigate
    <2> HIDE DEF left
    <2> QED BY <2>1 DEF Denies
  <1> QED BY <1>1, <1>2

LEMMA ReleaseTakes ==
  ASSUME TypeOK, NEW t, NEW k, Release(t, k), UNCHANGED answers
  PROVE  Takes
  <1> DEFINE R == {r \in Waiting : key[r] = k}
  <1>1. stage' = [r \in Requests |-> IF r \in R THEN "released" ELSE stage[r]]
    BY DEF Release
  <1>2. \A r \in R : stage[r] = "pending"
    BY DEF Waiting
  <1> HIDE DEF R
  <1>3. \A r \in Requests : stage'[r] = (IF r \in R THEN "released" ELSE stage[r])
    BY <1>1
  <1> QED BY <1>2, <1>3 DEF Takes

LEMMA StageStep ==
  ASSUME TypeOK, [Next]_vars
  PROVE  \/ UNCHANGED <<stage, answers>>
         \/ Denies \/ Takes
         \/ \E r \in Requests, to \in {"checking", "signing", "pending", "lost"} : Moves(r, to)
         \/ \E r \in Requests :
               /\ stage[r] \in {"signing", "released"}
               /\ stage' = [stage EXCEPT ![r] = "signed"] /\ Answered({r})
  <1>1. ASSUME NEW r \in Requests, NEW m \in Methods, Send(r, m)
        PROVE  Moves(r, "checking")
    BY <1>1 DEF Send, Moves
  <1>2. ASSUME NEW r \in Requests, Serve(r) PROVE Moves(r, "signing")
    BY <1>2 DEF Serve, Moves
  <1>3. ASSUME NEW r \in Requests, Enqueue(r) PROVE Moves(r, "pending")
    BY <1>3 DEF Enqueue, Moves
  <1>4. ASSUME NEW r \in Requests, CheckFails(r) PROVE Moves(r, "lost")
    BY <1>4 DEF CheckFails, Moves
  <1>5. ASSUME NEW r \in Requests, Answer(r)
        PROVE  /\ stage[r] \in {"signing", "released"}
               /\ stage' = [stage EXCEPT ![r] = "signed"] /\ Answered({r})
    BY <1>5 DEF Answer
  <1>6. ASSUME NEW t \in Taps, NEW r \in Requests, AnswerAllowed(t, r)
        PROVE  /\ stage[r] \in {"signing", "released"}
               /\ stage' = [stage EXCEPT ![r] = "signed"] /\ Answered({r})
    BY <1>6 DEF AnswerAllowed, TypeOK
  <1>7. ASSUME NEW t \in Taps, AllowOnce(t) \/ WriteList(t) PROVE Takes
    BY <1>7, ReleaseTakes DEF AllowOnce, WriteList
  <1>8. ASSUME NEW t \in Taps, AllowAlways(t) \/ ReadList(t) \/ RememberFails(t)
        PROVE  UNCHANGED <<stage, answers>>
    BY <1>8 DEF AllowAlways, ReadList, RememberFails
  <1>9. CASE DenyPrompt
    <2> DEFINE R == {r \in Waiting : key[r] = shown}
    <2>1. Deny(R)
      BY <1>9 DEF DenyPrompt
    <2> HIDE DEF R
    <2>2. R \subseteq Waiting
      BY DEF R
    <2> QED BY <2>1, <2>2 DEF Denies
  <1>10. CASE Loads
    BY <1>10, NavigateDenies DEF Loads, CommitPage, StopLoad, StartLoad
  <1>11. CASE Render \/ KeepPrompt \/ Settings \/ UNCHANGED vars
    BY <1>11 DEF Render, KeepPrompt, Settings, StartRevoke, EndRevoke, Clear, vars
  <1> QED
    BY <1>1, <1>2, <1>3, <1>4, <1>5, <1>6, <1>7, <1>8, <1>9, <1>10, <1>11
    DEF Next, Message, Allow

----------------------------------------------------------------------------
(* Answers *)

LEMMA AnsweredStep == TypeOK /\ AnsweredOnce /\ [Next]_vars => AnsweredOnce'
  <1> SUFFICES ASSUME TypeOK, AnsweredOnce, [Next]_vars PROVE AnsweredOnce'
    OBVIOUS
  <1>1. CASE UNCHANGED <<stage, answers>>
    BY <1>1 DEF AnsweredOnce
  <1>2. CASE Denies
    BY <1>2 DEF Denies, Deny, Answered, Waiting, AnsweredOnce, TypeOK
  <1>3. CASE Takes
    BY <1>3 DEF Takes, AnsweredOnce, TypeOK
  <1>4. ASSUME NEW r \in Requests, NEW to \in {"checking", "signing", "pending", "lost"},
               Moves(r, to)
        PROVE  AnsweredOnce'
    BY <1>4 DEF Moves, AnsweredOnce, TypeOK
  <1>5. ASSUME NEW r \in Requests, stage[r] \in {"signing", "released"},
               stage' = [stage EXCEPT ![r] = "signed"], Answered({r})
        PROVE  AnsweredOnce'
    BY <1>5 DEF Answered, AnsweredOnce, TypeOK
  <1> QED BY StageStep, <1>1, <1>2, <1>3, <1>4, <1>5

----------------------------------------------------------------------------
(* Consent *)

\* What is remembered, and every copy of the list under way, was granted.
ListsGranted ==
    /\ remembered \subseteq granted
    /\ \A t \in Taps : list[t] \subseteq granted
    /\ \A t \in Taps : tap[t] \in {"reading", "writing"} => about[t] \in granted
    /\ revoke # None => revoke.list \subseteq granted

ConsentInv == ConsentCoversSigning /\ ListsGranted

LEMMA ReleaseLists ==
  ASSUME TypeOK, ListsGranted, NEW t \in Taps, NEW k, Release(t, k)
  PROVE  /\ \A u \in Taps : list'[u] \subseteq granted
         /\ \A u \in Taps : tap'[u] \in {"reading", "writing"} => about'[u] \in granted
  <1>1. /\ list' = [list EXCEPT ![t] = {}] /\ about' = [about EXCEPT ![t] = None]
        /\ tap' = [tap EXCEPT ![t] = "idle"] \/ tap' = [tap EXCEPT ![t] = "sending"]
    BY DEF Release
  <1> QED BY <1>1 DEF TypeOK, ListsGranted

LEMMA ListsStep == TypeOK /\ ListsGranted /\ [Next]_vars => ListsGranted'
  <1> SUFFICES ASSUME TypeOK, ListsGranted, [Next]_vars PROVE ListsGranted'
    OBVIOUS
  <1>1. ASSUME UNCHANGED <<tapping, stored, granted>> PROVE ListsGranted'
    BY <1>1 DEF ListsGranted, tapping, stored
  <1>2. ASSUME NEW r \in Requests, NEW m \in Methods, Send(r, m) PROVE ListsGranted'
    BY <1>1, <1>2 DEF Send
  <1>3. ASSUME NEW r \in Requests, Message(r) PROVE ListsGranted'
    BY <1>1, <1>3 DEF Message, Serve, Enqueue, CheckFails, Answer
  <1>4. CASE DenyPrompt \/ Render \/ KeepPrompt \/ Loads \/ UNCHANGED vars
    BY <1>1, <1>4 DEF DenyPrompt, Render, KeepPrompt, Loads, CommitPage, StopLoad, StartLoad, vars
  <1>5. ASSUME NEW t \in Taps, AllowOnce(t) PROVE ListsGranted'
    <2>1. granted \subseteq granted' /\ UNCHANGED stored
      BY <1>5 DEF AllowOnce
    <2> QED BY <1>5, <2>1, ReleaseLists DEF AllowOnce, ListsGranted, stored
  <1>6. ASSUME NEW t \in Taps, AllowAlways(t) PROVE ListsGranted'
    BY <1>6 DEF AllowAlways, ListsGranted, TypeOK, stored
  <1>7. ASSUME NEW t \in Taps, ReadList(t) PROVE ListsGranted'
    BY <1>7 DEF ReadList, ListsGranted, TypeOK, stored
  <1>8. ASSUME NEW t \in Taps, WriteList(t) PROVE ListsGranted'
    <2>1. remembered' \subseteq granted
      BY <1>8 DEF WriteList, ListsGranted
    <2> QED BY <1>8, <2>1, ReleaseLists DEF WriteList, ListsGranted
  <1>9. ASSUME NEW t \in Taps, RememberFails(t) PROVE ListsGranted'
    BY <1>9 DEF RememberFails, ListsGranted, TypeOK, stored
  <1>10. ASSUME NEW t \in Taps, NEW r \in Requests, AnswerAllowed(t, r) PROVE ListsGranted'
    <2>1. tap' = tap \/ tap' = [tap EXCEPT ![t] = "idle"]
      BY <1>10 DEF AnswerAllowed
    <2> QED BY <1>10, <2>1 DEF AnswerAllowed, ListsGranted, TypeOK, stored
  <1>11. CASE Settings
    <2>1. ASSUME NEW k \in Keys, StartRevoke(k) PROVE ListsGranted'
      BY <2>1 DEF StartRevoke, ListsGranted, tapping
    <2>2. CASE EndRevoke
      BY <2>2 DEF EndRevoke, ListsGranted, tapping
    <2>3. CASE Clear
      BY <2>3 DEF Clear, ListsGranted, tapping
    <2> QED BY <1>11, <2>1, <2>2, <2>3 DEF Settings
  <1> QED
    BY <1>2, <1>3, <1>4, <1>5, <1>6, <1>7, <1>8, <1>9, <1>10, <1>11 DEF Next, Allow

\* A request is released under what its allowPrompt was about.
LEMMA ReleaseConsent ==
  ASSUME TypeOK, ConsentCoversSigning, NEW t \in Taps, NEW k, Release(t, k),
         k \in granted', granted \subseteq granted', UNCHANGED key
  PROVE  ConsentCoversSigning'
  <1> DEFINE R == {r \in Waiting : key[r] = k}
  <1>1. stage' = [r \in Requests |-> IF r \in R THEN "released" ELSE stage[r]]
    BY DEF Release
  <1>2. \A r \in R : key[r] = k
    OBVIOUS
  <1> HIDE DEF R
  <1> QED BY <1>1, <1>2 DEF ConsentCoversSigning

LEMMA ConsentStep == TypeOK /\ ConsentInv /\ [Next]_vars => ConsentInv'
  <1> SUFFICES ASSUME TypeOK, ConsentInv, [Next]_vars PROVE ConsentInv'
    OBVIOUS
  <1> USE DEF ConsentInv
  <1>1. ListsGranted'
    BY ListsStep
  <1>2. ASSUME UNCHANGED <<stage, key>>, granted \subseteq granted' PROVE ConsentCoversSigning'
    BY <1>2 DEF ConsentCoversSigning
  <1>3. ASSUME Denies \/ UNCHANGED <<stage, answers>>, UNCHANGED <<key, granted>>
        PROVE  ConsentCoversSigning'
    BY <1>3 DEF Denies, Deny, Waiting, ConsentCoversSigning
  <1>4. ASSUME NEW r \in Requests, NEW m \in Methods, Send(r, m) PROVE ConsentCoversSigning'
    BY <1>4 DEF Send, ConsentCoversSigning, TypeOK
  <1>5. ASSUME NEW r \in Requests, Message(r) PROVE ConsentCoversSigning'
    BY <1>5
    DEF Message, Serve, Enqueue, CheckFails, Answer, ConsentCoversSigning, ListsGranted, TypeOK
  <1>6. ASSUME NEW t \in Taps, AllowOnce(t) PROVE ConsentCoversSigning'
    BY <1>6, ReleaseConsent DEF AllowOnce
  <1>7. ASSUME NEW t \in Taps, WriteList(t) PROVE ConsentCoversSigning'
    BY <1>7, ReleaseConsent DEF WriteList, ListsGranted
  <1>8. ASSUME NEW t \in Taps, AllowAlways(t) \/ ReadList(t) \/ RememberFails(t)
        PROVE  ConsentCoversSigning'
    BY <1>2, <1>8 DEF AllowAlways, ReadList, RememberFails
  <1>9. ASSUME NEW t \in Taps, NEW r \in Requests, AnswerAllowed(t, r)
        PROVE  ConsentCoversSigning'
    BY <1>9 DEF AnswerAllowed, ConsentCoversSigning, TypeOK
  <1>10. CASE DenyPrompt
    <2> DEFINE R == {r \in Waiting : key[r] = shown}
    <2>1. Deny(R) /\ R \in SUBSET Waiting
      BY <1>10 DEF DenyPrompt
    <2> HIDE DEF R
    <2>2. Denies
      BY <2>1 DEF Denies
    <2>3. UNCHANGED <<key, granted>>
      BY <1>10 DEF DenyPrompt
    <2> QED BY <1>1, <1>3, <2>2, <2>3
  <1>11. CASE Loads
    <2>1. UNCHANGED <<key, granted>>
      BY <1>11 DEF Loads, CommitPage, StopLoad, StartLoad
    <2>2. Denies \/ UNCHANGED <<stage, answers>>
      BY <1>11, NavigateDenies DEF Loads, CommitPage, StopLoad, StartLoad
    <2> QED BY <1>1, <1>3, <2>1, <2>2
  <1>12. CASE Render \/ KeepPrompt \/ Settings \/ UNCHANGED vars
    <2>1. UNCHANGED <<stage, key, granted>>
      BY <1>12 DEF Render, KeepPrompt, Settings, StartRevoke, EndRevoke, Clear, vars
    <2> QED BY <1>1, <1>2, <2>1
  <1> QED
    BY <1>1, <1>4, <1>5, <1>6, <1>7, <1>8, <1>9, <1>10, <1>11, <1>12 DEF Next, Allow

----------------------------------------------------------------------------
(* Prompts *)

LEMMA ShowNextPrompts ==
  ASSUME TypeOK, NEW S \in SUBSET Requests, \A r \in S : stage[r] = "pending",
         ShowNext(S), UNCHANGED key, \A r \in S : stage'[r] = "pending"
  PROVE  PromptsAreAboutRequests' /\ (S # {} => prompt' # None)
  BY KeysAreRecords DEF ShowNext, PromptsAreAboutRequests, Waiting, TypeOK

\* A prompt that stays is still about what it was about.
LEMMA PromptKept ==
  ASSUME TypeOK, PromptsAreAboutRequests, UNCHANGED <<prompt, key, overtaken>>,
         \A r \in Requests : stage[r] = "pending" /\ key[r] = prompt => stage'[r] = "pending"
  PROVE  PromptsAreAboutRequests'
  BY DEF PromptsAreAboutRequests, Waiting

LEMMA ReleasePrompts ==
  ASSUME TypeOK, NEW t \in Taps, NEW k, Release(t, k), UNCHANGED key
  PROVE  PromptsAreAboutRequests'
  <1> DEFINE R == {r \in Waiting : key[r] = k}
  <1>1. /\ stage' = [r \in Requests |-> IF r \in R THEN "released" ELSE stage[r]]
        /\ \/ R = {} /\ ShowNext(Waiting)
           \/ prompt' = None
    BY DEF Release
  <1> HIDE DEF R
  <1>2. CASE prompt' = None
    BY <1>2 DEF PromptsAreAboutRequests
  <1>3. CASE R = {} /\ ShowNext(Waiting)
    <2>1. \A r \in Waiting : r \in Requests /\ stage[r] = "pending" /\ stage'[r] = "pending"
      BY <1>1, <1>3 DEF Waiting
    <2> QED BY <1>3, <2>1, ShowNextPrompts DEF Waiting
  <1> QED BY <1>1, <1>2, <1>3

LEMMA NavigatePrompts ==
  ASSUME TypeOK, PromptsAreAboutRequests, NEW s, Navigate(s), UNCHANGED key
  PROVE  PromptsAreAboutRequests'
  <1>1. CASE url = s
    BY <1>1, PromptKept DEF Navigate, missed
  <1>2. CASE url # s
    <2> DEFINE left == {r \in Waiting : key[r].site = s}
    <2>1. /\ Deny(Waiting \ left)
          /\ \/ prompt' = None
             \/ /\ prompt' = prompt
                /\ overtaken' = overtaken \cup {k \in {prompt} \ {None} : k.site # s}
      BY <1>2 DEF Navigate
    <2>2. CASE prompt' \in overtaken' \cup {None}
      BY <2>2 DEF PromptsAreAboutRequests
    <2>3. CASE prompt' \notin overtaken' \cup {None}
      <3>4. prompt' = prompt /\ prompt.site = s /\ prompt \notin overtaken \cup {None}
        BY <2>1, <2>3
      <3>1. \A r \in Requests : stage[r] = "pending" /\ key[r] = prompt => r \in left
        BY <3>4 DEF Waiting
      <3>2. \A r \in left : r \in Requests /\ stage[r] = "pending"
        BY DEF Waiting
      <3> HIDE DEF left
      <3>3. \A r \in left : stage'[r] = "pending"
        BY <2>1, <3>2 DEF Deny
      <3> QED BY <3>1, <3>3, <3>4 DEF PromptsAreAboutRequests, Waiting
    <2> QED BY <2>2, <2>3
  <1> QED BY <1>1, <1>2

LEMMA PromptsStep == TypeOK /\ PromptsAreAboutRequests /\ [Next]_vars => PromptsAreAboutRequests'
  <1> SUFFICES ASSUME TypeOK, PromptsAreAboutRequests, [Next]_vars
               PROVE  PromptsAreAboutRequests'
    OBVIOUS
  <1>1. ASSUME NEW r \in Requests, NEW m \in Methods, Send(r, m)
        PROVE  PromptsAreAboutRequests'
    BY <1>1 DEF Send, PromptsAreAboutRequests, Waiting, TypeOK, missed
  <1>2. ASSUME NEW r \in Requests, Serve(r) \/ CheckFails(r) \/ Answer(r)
        PROVE  PromptsAreAboutRequests'
    <2>1. UNCHANGED <<prompt, key, overtaken>>
      BY <1>2 DEF Serve, CheckFails, Answer, missed
    <2>2. \A q \in Requests : stage[q] = "pending" => stage'[q] = "pending"
      BY <1>2 DEF Serve, CheckFails, Answer, TypeOK
    <2> QED BY <2>1, <2>2, PromptKept
  <1>3. ASSUME NEW r \in Requests, Enqueue(r) PROVE PromptsAreAboutRequests'
    <2>1. /\ UNCHANGED <<key, overtaken>> /\ stage'[r] = "pending"
          /\ \A q \in Requests : stage[q] = "pending" => stage'[q] = "pending"
          /\ prompt' = prompt \/ prompt' = key[r]
      BY <1>3 DEF Enqueue, TypeOK, missed
    <2> QED BY <2>1, PromptKept DEF PromptsAreAboutRequests, Waiting
  <1>4. ASSUME NEW t \in Taps, AllowOnce(t) \/ WriteList(t) PROVE PromptsAreAboutRequests'
    BY <1>4, ReleasePrompts DEF AllowOnce, WriteList
  <1>5. ASSUME NEW t \in Taps, AllowAlways(t) \/ ReadList(t) \/ RememberFails(t)
        PROVE  PromptsAreAboutRequests'
    BY <1>5 DEF AllowAlways, ReadList, RememberFails, PromptsAreAboutRequests, Waiting, missed
  <1>6. ASSUME NEW t \in Taps, NEW r \in Requests, AnswerAllowed(t, r)
        PROVE  PromptsAreAboutRequests'
    <2>1. /\ UNCHANGED <<key, overtaken>>
          /\ \A q \in Requests : stage[q] = "pending" => stage'[q] = "pending"
      BY <1>6 DEF AnswerAllowed, TypeOK, missed
    <2>2. CASE ShowNext(Waiting)
      BY <2>1, <2>2, ShowNextPrompts DEF Waiting
    <2>3. CASE UNCHANGED prompt
      BY <2>1, <2>3, PromptKept
    <2> QED BY <1>6, <2>2, <2>3 DEF AnswerAllowed
  <1>7. CASE DenyPrompt
    <2> DEFINE R == {r \in Waiting : key[r] = shown}
    <2>1. Deny(R) /\ ShowNext(Waiting \ R) /\ UNCHANGED key
      BY <1>7 DEF DenyPrompt
    <2> HIDE DEF R
    <2>2. \A r \in Waiting \ R : r \in Requests /\ stage[r] = "pending" /\ stage'[r] = "pending"
      BY <2>1 DEF Deny, Waiting
    <2> QED BY <2>1, <2>2, ShowNextPrompts
  <1>8. CASE Loads
    <2>1. CASE CommitPage
      BY <2>1 DEF CommitPage, PromptsAreAboutRequests, Waiting, missed
    <2>2. ASSUME NEW s, Navigate(s), UNCHANGED key PROVE PromptsAreAboutRequests'
      BY <2>2, NavigatePrompts
    <2> QED BY <1>8, <2>1, <2>2 DEF Loads, StopLoad, StartLoad
  <1>9. CASE Render \/ KeepPrompt \/ Settings \/ UNCHANGED vars
    <2>1. UNCHANGED <<stage, key, prompt, overtaken>>
      BY <1>9 DEF Render, KeepPrompt, Settings, StartRevoke, EndRevoke, Clear, vars, missed
    <2> QED BY <2>1 DEF PromptsAreAboutRequests, Waiting
  <1> QED
    BY <1>1, <1>2, <1>3, <1>4, <1>5, <1>6, <1>7, <1>8, <1>9 DEF Next, Message, Allow

----------------------------------------------------------------------------
(* Nobody is forgotten *)

LEMMA ForgottenKept ==
  ASSUME NobodyIsForgotten, UNCHANGED <<prompt, hidden>>, Waiting' \subseteq Waiting,
         \A t \in Taps : tap[t] = "sending" => tap'[t] = "sending"
  PROVE  NobodyIsForgotten'
  BY DEF NobodyIsForgotten

LEMMA ShownIsNotForgotten ==
  ASSUME prompt' # None \/ Waiting' = {} \/ \E t \in Taps : tap'[t] = "sending"
  PROVE  NobodyIsForgotten'
  BY DEF NobodyIsForgotten

LEMMA ShowNextShows ==
  ASSUME TypeOK, NEW S \in SUBSET Waiting, ShowNext(S)
  PROVE  S = {} \/ prompt' # None
  BY KeysAreRecords DEF ShowNext, Waiting, TypeOK

LEMMA ReleaseForgets ==
  ASSUME TypeOK, NEW t \in Taps, NEW k, Release(t, k)
  PROVE  NobodyIsForgotten'
  <1> DEFINE R == {r \in Waiting : key[r] = k}
  <1>1. /\ stage' = [r \in Requests |-> IF r \in R THEN "released" ELSE stage[r]]
        /\ \/ R = {} /\ ShowNext(Waiting)
           \/ tap' = [tap EXCEPT ![t] = "sending"]
    BY DEF Release
  <1> HIDE DEF R
  <1>2. Waiting' \subseteq Waiting
    BY <1>1 DEF Waiting
  <1>3. CASE ShowNext(Waiting)
    BY <1>2, <1>3, ShowNextShows, ShownIsNotForgotten
  <1>4. CASE tap' = [tap EXCEPT ![t] = "sending"]
    <2>1. tap'[t] = "sending"
      BY <1>4 DEF TypeOK
    <2> QED BY <2>1, ShownIsNotForgotten
  <1> QED BY <1>1, <1>3, <1>4

LEMMA NavigateForgets ==
  ASSUME TypeOK, NobodyIsForgotten, NEW s, Navigate(s), UNCHANGED <<key, tap>>
  PROVE  NobodyIsForgotten'
  <1>1. CASE url = s
    BY <1>1, ForgottenKept DEF Navigate, Waiting, missed
  <1>2. CASE url # s
    <2> DEFINE left == {r \in Waiting : key[r].site = s}
    <2>1. /\ Deny(Waiting \ left) /\ left \subseteq Waiting
          /\ (prompt' = None /\ hidden' = hidden \cup left) \/ UNCHANGED <<prompt, hidden>>
      BY <1>2 DEF Navigate
    <2> HIDE DEF left
    <2>2. Waiting' \subseteq left
      BY <2>1 DEF Deny, Waiting
    <2>3. CASE hidden' = hidden \cup left
      BY <2>2, <2>3 DEF NobodyIsForgotten
    <2>4. CASE UNCHANGED <<prompt, hidden>>
      BY <2>1, <2>2, <2>4, ForgottenKept
    <2> QED BY <2>1, <2>3, <2>4
  <1> QED BY <1>1, <1>2

LEMMA ForgottenStep == TypeOK /\ NobodyIsForgotten /\ [Next]_vars => NobodyIsForgotten'
  <1> SUFFICES ASSUME TypeOK, NobodyIsForgotten, [Next]_vars PROVE NobodyIsForgotten'
    OBVIOUS
  <1>1. ASSUME NEW r \in Requests, NEW m \in Methods, Send(r, m) PROVE NobodyIsForgotten'
    <2>1. Waiting' \subseteq Waiting /\ UNCHANGED <<prompt, hidden, tap>>
      BY <1>1 DEF Send, Waiting, TypeOK, tapping, missed
    <2> QED BY <2>1, ForgottenKept
  <1>2. ASSUME NEW r \in Requests, Serve(r) \/ CheckFails(r) \/ Answer(r)
        PROVE  NobodyIsForgotten'
    <2>1. Waiting' \subseteq Waiting /\ UNCHANGED <<prompt, hidden, tap>>
      BY <1>2 DEF Serve, CheckFails, Answer, Waiting, TypeOK, tapping, missed
    <2> QED BY <2>1, ForgottenKept
  <1>3. ASSUME NEW r \in Requests, Enqueue(r) PROVE NobodyIsForgotten'
    <2>1. prompt' # None
      BY <1>3, KeysAreRecords DEF Enqueue, TypeOK
    <2> QED BY <2>1, ShownIsNotForgotten
  <1>4. ASSUME NEW t \in Taps, AllowOnce(t) \/ WriteList(t) PROVE NobodyIsForgotten'
    BY <1>4, ReleaseForgets DEF AllowOnce, WriteList
  <1>5. ASSUME NEW t \in Taps, AllowAlways(t) \/ ReadList(t) \/ RememberFails(t)
        PROVE  NobodyIsForgotten'
    <2>1. Waiting' = Waiting /\ UNCHANGED <<prompt, hidden>>
      BY <1>5 DEF AllowAlways, ReadList, RememberFails, Waiting, missed
    <2>2. \A u \in Taps : tap[u] = "sending" => tap'[u] = "sending"
      BY <1>5 DEF AllowAlways, ReadList, RememberFails, TypeOK
    <2> QED BY <2>1, <2>2, ForgottenKept
  <1>6. ASSUME NEW t \in Taps, NEW r \in Requests, AnswerAllowed(t, r) PROVE NobodyIsForgotten'
    <2>1. Waiting' \subseteq Waiting /\ UNCHANGED hidden
      BY <1>6 DEF AnswerAllowed, Waiting, TypeOK, missed
    <2>2. CASE ShowNext(Waiting)
      BY <2>1, <2>2, ShowNextShows, ShownIsNotForgotten
    <2>3. CASE UNCHANGED <<prompt, tap>>
      BY <2>1, <2>3, ForgottenKept
    <2> QED BY <1>6, <2>2, <2>3 DEF AnswerAllowed
  <1>7. CASE DenyPrompt
    <2> DEFINE R == {r \in Waiting : key[r] = shown}
    <2>1. Deny(R) /\ ShowNext(Waiting \ R)
      BY <1>7 DEF DenyPrompt
    <2> HIDE DEF R
    <2>2. Waiting' \subseteq Waiting \ R /\ Waiting \ R \in SUBSET Waiting
      BY <2>1 DEF Deny, Waiting
    <2> QED BY <2>1, <2>2, ShowNextShows, ShownIsNotForgotten
  <1>8. CASE Loads
    <2>1. CASE CommitPage
      BY <2>1, ForgottenKept DEF CommitPage, Waiting, tapping, missed
    <2>2. ASSUME NEW s, Navigate(s), UNCHANGED <<key, tap>> PROVE NobodyIsForgotten'
      BY <2>2, NavigateForgets
    <2> QED BY <1>8, <2>1, <2>2 DEF Loads, StopLoad, StartLoad, tapping
  <1>9. CASE Render \/ KeepPrompt \/ Settings \/ UNCHANGED vars
    <2>1. UNCHANGED <<stage, prompt, hidden, tap>>
      BY <1>9 DEF Render, KeepPrompt, Settings, StartRevoke, EndRevoke, Clear, vars, tapping, missed
    <2> QED BY <2>1, ForgottenKept DEF Waiting
  <1> QED
    BY <1>1, <1>2, <1>3, <1>4, <1>5, <1>6, <1>7, <1>8, <1>9 DEF Next, Message, Allow

----------------------------------------------------------------------------
(* The bridge keeps what Permission promises *)

Asking == [r \in Requests |-> IF stage[r] = "unsent" THEN None ELSE key[r]]

Asked == {Asking[r] : r \in Requests} \ {None}

\* A step that leaves what was sent sent, and its site and method.
LEMMA AskedStays ==
  ASSUME UNCHANGED key, \A r \in Requests : stage'[r] = "unsent" <=> stage[r] = "unsent"
  PROVE  Asking' = Asking
  BY DEF Asking

\* A step that changes no verdict, and one that decides the requests of a set.
LEMMA VerdictsDecided ==
  ASSUME NEW R, NEW decision,
         \A r \in Requests : Verdict(r)' = (IF r \in R THEN decision ELSE Verdict(r))
  PROVE  Consent!Decide(R, decision)
  BY DEF Consent!Decide

LEMMA NothingDecided ==
  ASSUME Asking' = Asking, UNCHANGED <<answers, granted>>,
         \A r \in Requests : Verdict(r)' = Verdict(r)
  PROVE  UNCHANGED Consent!permissionVars
  <1>1. [r \in Requests |-> Verdict(r)]' = [r \in Requests |-> Verdict(r)]
    OBVIOUS
  <1> QED BY <1>1 DEF Asking, Consent!permissionVars

LEMMA WaitingIsOpen ==
  ASSUME TypeOK
  PROVE  /\ Waiting \subseteq Consent!Open
         /\ \A r \in Waiting : Asking[r] = key[r]
  <1>1. \A r \in Waiting : /\ r \in Requests /\ stage[r] = "pending"
                           /\ key[r] \in Keys /\ key[r] # None /\ Verdict(r) = "open"
    BY KeysAreRecords DEF Waiting, TypeOK, Verdict
  <1> QED BY <1>1 DEF Consent!Open, Asking

LEMMA SendAsks ==
  ASSUME TypeOK, NEW r \in Requests, NEW m \in Methods, Send(r, m)
  PROVE  \E k \in Keys : Consent!Ask(r, k)
  <1>1. PICK k \in Keys : key' = [key EXCEPT ![r] = k]
    <2>1. \A origin \in {site, url} : [site |-> origin, method |-> m] \in Keys
      BY DEF TypeOK, Keys
    <2> QED BY <2>1 DEF Send
  <1>2. /\ stage[r] = "unsent" /\ stage' = [stage EXCEPT ![r] = "checking"]
        /\ key' = [key EXCEPT ![r] = k] /\ UNCHANGED <<answers, granted>>
    BY <1>1 DEF Send
  <1>3. Asking[r] = None /\ Asking' = [Asking EXCEPT ![r] = k]
    BY <1>2 DEF Asking, TypeOK
  <1>4. Verdict(r) = "open" /\ \A q \in Requests : Verdict(q)' = Verdict(q)
    BY <1>2 DEF Verdict, TypeOK
  <1>5. [q \in Requests |-> Verdict(q)]' = [q \in Requests |-> Verdict(q)]
    BY <1>4
  <1> QED BY <1>1, <1>2, <1>3, <1>4, <1>5 DEF Consent!Ask, Asking

\* What allows the requests of a set, and what it takes.
LEMMA AllowIs ==
  ASSUME TypeOK, NEW R \in SUBSET Consent!Open, NEW K \in SUBSET Asked,
         UNCHANGED <<key, answers>>, granted' = granted \cup K,
         \A r \in Requests : stage'[r] = "unsent" <=> stage[r] = "unsent",
         \A r \in Requests : Verdict(r)' = (IF r \in R THEN "allowed" ELSE Verdict(r)),
         \A r \in R : Asking[r] \in Keys /\ (Asking[r].site \in Trusted \/ Asking[r] \in granted')
  PROVE  Consent!Next
  <1>1. Asking' = Asking
    BY AskedStays
  <1>2. Consent!Decide(R, "allowed")
    BY VerdictsDecided
  <1>3. \A r \in R : Asking[r] \in {k \in Keys : k.site \in Trusted} \cup granted'
    OBVIOUS
  <1>4. Consent!Allow(K, R)
    BY <1>1, <1>2, <1>3 DEF Consent!Allow, Asking
  <1>5. K \in SUBSET ({[q \in Requests |-> IF stage[q] = "unsent" THEN None ELSE key[q]][r] :
                        r \in Requests} \ {None})
    BY DEF Asked, Asking
  <1> QED BY <1>4, <1>5 DEF Consent!Next

LEMMA ServeAllows ==
  ASSUME TypeOK, ListsGranted, NEW r \in Requests, Serve(r)
  PROVE  Consent!Next
  <1>1. /\ stage[r] = "checking" /\ stage' = [stage EXCEPT ![r] = "signing"]
        /\ key[r].site \in Trusted \/ key[r] \in granted
        /\ UNCHANGED <<key, answers, granted>>
    BY DEF Serve, ListsGranted
  <1>2. key[r] \in Keys /\ key[r] # None /\ Asking[r] = key[r]
    BY <1>1, KeysAreRecords DEF TypeOK, Asking
  <1>3. r \in Consent!Open
    BY <1>1, <1>2 DEF Consent!Open, Verdict
  <1>4. \A q \in Requests : /\ stage'[q] = "unsent" <=> stage[q] = "unsent"
                            /\ Verdict(q)' = (IF q \in {r} THEN "allowed" ELSE Verdict(q))
    BY <1>1 DEF Verdict, TypeOK
  <1> DEFINE K == {}
  <1>5. K \in SUBSET Asked /\ granted' = granted \cup K
    BY <1>1
  <1> HIDE DEF K
  <1>6. {r} \in SUBSET Consent!Open
    BY <1>3
  <1> QED BY <1>1, <1>2, <1>4, <1>5, <1>6, AllowIs

LEMMA ReleaseAllows ==
  ASSUME TypeOK, NEW t \in Taps, NEW k \in Keys, Release(t, k),
         NEW K \in SUBSET Asked,
         granted' = granted \cup K, k \in granted', UNCHANGED <<key, answers>>
  PROVE  Consent!Next
  <1> DEFINE R == {r \in Waiting : key[r] = k}
  <1>1. stage' = [r \in Requests |-> IF r \in R THEN "released" ELSE stage[r]]
    BY DEF Release
  <1>2. \A r \in R : r \in Waiting /\ key[r] = k /\ stage[r] = "pending"
    BY DEF Waiting
  <1>3. R \in SUBSET Consent!Open /\ \A r \in R : Asking[r] = k
    BY WaitingIsOpen
  <1> HIDE DEF R
  <1>4. \A r \in Requests : /\ stage'[r] = "unsent" <=> stage[r] = "unsent"
                            /\ Verdict(r)' = (IF r \in R THEN "allowed" ELSE Verdict(r))
    BY <1>1, <1>2 DEF Verdict
  <1> QED BY <1>3, <1>4, AllowIs

\* What is prompted, rendered or kept in the ref is what some request asked.
PromptsAsked == {prompt, shown, promptRef} \subseteq Asked \cup {None}

\* A request that was sent stays sent, with its site and method.
LEMMA SentStays ==
  ASSUME TypeOK, [Next]_vars, NEW r \in Requests, stage[r] # "unsent"
  PROVE  stage'[r] # "unsent" /\ key'[r] = key[r]
  <1>1. stage'[r] # "unsent"
    <2>1. CASE Denies
      BY <2>1 DEF Denies, Deny
    <2>2. CASE Takes
      BY <2>2 DEF Takes
    <2>3. ASSUME NEW q \in Requests, NEW to \in {"checking", "signing", "pending", "lost", "signed"},
                 stage' = [stage EXCEPT ![q] = to]
          PROVE  stage'[r] # "unsent"
      BY <2>3 DEF TypeOK
    <2> QED BY <2>1, <2>2, <2>3, StageStep DEF Moves
  <1>2. ASSUME NEW q \in Requests, NEW m \in Methods, Send(q, m) PROVE key'[r] = key[r]
    BY <1>2 DEF Send, TypeOK
  <1>3. ASSUME UNCHANGED key PROVE key'[r] = key[r]
    BY <1>3
  <1>4. \/ \E q \in Requests, m \in Methods : Send(q, m)
        \/ UNCHANGED key
    BY DEF Next, Message, Serve, Enqueue, CheckFails, Answer, Allow, ReadList, WriteList,
           RememberFails, AnswerAllowed, AllowOnce, AllowAlways, DenyPrompt, Render, KeepPrompt,
           Loads, CommitPage, StopLoad, StartLoad, Settings, StartRevoke, EndRevoke, Clear, vars
  <1> QED BY <1>1, <1>2, <1>3, <1>4

\* What a step prompts, renders or keeps.
LEMMA PromptSources ==
  ASSUME TypeOK, [Next]_vars
  PROVE  /\ {shown', promptRef'} \subseteq {prompt, shown, promptRef}
         /\ prompt' \in {prompt, None} \cup {key[r] : r \in {q \in Requests : stage[q] # "unsent"}}
  <1> DEFINE Sent == {key[r] : r \in {q \in Requests : stage[q] # "unsent"}}
  <1>1. \A r \in Requests : stage[r] # "unsent" => key[r] \in Sent
    OBVIOUS
  <1> HIDE DEF Sent
  <1>2. ASSUME NEW S \in SUBSET Waiting, ShowNext(S) PROVE prompt' \in {None} \cup Sent
    BY <1>1, <1>2 DEF ShowNext, Waiting
  <1>3. ASSUME NEW t, NEW k, Release(t, k) PROVE prompt' \in {None} \cup Sent
    BY <1>2, <1>3 DEF Release
  <1>4. ASSUME NEW s, Navigate(s) PROVE prompt' \in {None, prompt}
    BY <1>4 DEF Navigate
  <1>5. CASE DenyPrompt
    <2> DEFINE R == {r \in Waiting : key[r] = shown}
    <2>1. ShowNext(Waiting \ R) /\ UNCHANGED react
      BY <1>5 DEF DenyPrompt
    <2> HIDE DEF R
    <2> QED BY <1>2, <2>1 DEF react, Sent
  <1>6. ASSUME NEW r \in Requests, NEW m \in Methods, Send(r, m)
        PROVE  UNCHANGED <<react, prompt>>
    BY <1>6 DEF Send
  <1>7. ASSUME NEW r \in Requests, Message(r)
        PROVE  UNCHANGED react /\ prompt' \in {prompt} \cup Sent
    BY <1>1, <1>7 DEF Message, Serve, Enqueue, CheckFails, Answer
  <1>8. ASSUME NEW t \in Taps, Allow(t) \/ AllowOnce(t) \/ AllowAlways(t)
        PROVE  UNCHANGED react /\ prompt' \in {prompt, None} \cup Sent
    BY <1>2, <1>3, <1>8
    DEF Allow, ReadList, WriteList, RememberFails, AnswerAllowed, AllowOnce, AllowAlways
  <1>9. CASE Loads
    BY <1>4, <1>9 DEF Loads, CommitPage, StopLoad, StartLoad, react
  <1>10. CASE Render \/ KeepPrompt \/ Settings \/ UNCHANGED vars
    BY <1>10 DEF Render, KeepPrompt, Settings, StartRevoke, EndRevoke, Clear, vars, react
  <1> QED
    BY <1>5, <1>6, <1>7, <1>8, <1>9, <1>10 DEF Next, react, Sent

LEMMA AskedStep == TypeOK /\ PromptsAsked /\ [Next]_vars => PromptsAsked'
  <1> SUFFICES ASSUME TypeOK, PromptsAsked, [Next]_vars PROVE PromptsAsked'
    OBVIOUS
  <1>1. ASSUME NEW r \in Requests, stage[r] # "unsent"
        PROVE  key[r] \in Asked /\ key[r] \in Asked'
    BY <1>1, KeysAreRecords, SentStays DEF Asked, Asking, TypeOK
  <1>2. Asked \subseteq Asked'
    <2> SUFFICES ASSUME NEW k \in Asked PROVE k \in Asked'
      OBVIOUS
    <2>1. PICK r \in Requests : stage[r] # "unsent" /\ k = key[r]
      BY DEF Asked, Asking
    <2> QED BY <1>1, <2>1
  <1> QED BY <1>1, <1>2, PromptSources DEF PromptsAsked

LEMMA AllowAlwaysAllows ==
  ASSUME TypeOK, PromptsAsked, NEW t \in Taps, AllowAlways(t)
  PROVE  Consent!Next
  <1> DEFINE R == {}
  <1>1. granted' = granted \cup {shown} /\ {shown} \in SUBSET Asked /\ UNCHANGED <<stage, key, answers>>
    BY DEF AllowAlways, PromptsAsked
  <1>2. R \in SUBSET Consent!Open /\ \A r \in Requests : r \notin R
    OBVIOUS
  <1>3. \A r \in R : Asking[r] \in Keys /\ (Asking[r].site \in Trusted \/ Asking[r] \in granted')
    OBVIOUS
  <1> HIDE DEF R
  <1>4. \A r \in Requests : Verdict(r)' = (IF r \in R THEN "allowed" ELSE Verdict(r))
    BY <1>1, <1>2 DEF Verdict
  <1> QED BY <1>1, <1>2, <1>3, <1>4, AllowIs

LEMMA DeniesDenies ==
  ASSUME TypeOK, Denies, UNCHANGED <<key, granted>>
  PROVE  Consent!Next
  <1>1. PICK R \in SUBSET Waiting : Deny(R)
    BY DEF Denies
  <1>2. \A r \in R : r \in Requests /\ stage[r] = "pending"
    BY DEF Waiting
  <1>3. /\ \A r \in Requests : stage'[r] = (IF r \in R THEN "denied" ELSE stage[r])
        /\ answers' = [r \in Requests |-> IF r \in R THEN answers[r] + 1 ELSE answers[r]]
    BY <1>1 DEF Deny, Answered, TypeOK
  <1>4. Asking' = Asking
    BY <1>2, <1>3, AskedStays
  <1>5. \A r \in Requests : Verdict(r)' = (IF r \in R THEN "denied" ELSE Verdict(r))
    BY <1>3 DEF Verdict
  <1>6. Consent!Deny(R)
    BY <1>3, <1>4, <1>5, VerdictsDecided DEF Consent!Deny, Consent!Answer, Asking
  <1>7. R \in SUBSET Consent!Open
    BY WaitingIsOpen
  <1> QED BY <1>6, <1>7 DEF Consent!Next

LEMMA AnswerSigns ==
  ASSUME TypeOK, NEW r \in Requests, stage[r] \in {"signing", "released"},
         stage' = [stage EXCEPT ![r] = "signed"], Answered({r}), UNCHANGED <<key, granted>>
  PROVE  Consent!Next
  <1>1. /\ \A q \in Requests : stage'[q] = (IF q = r THEN "signed" ELSE stage[q])
        /\ answers' = [q \in Requests |-> IF q \in {r} THEN answers[q] + 1 ELSE answers[q]]
    BY DEF Answered, TypeOK
  <1>2. Asking' = Asking
    BY <1>1, AskedStays
  <1>3. /\ Verdict(r) = "allowed"
        /\ \A q \in Requests : Verdict(q)' = (IF q \in {r} THEN "signed" ELSE Verdict(q))
    BY <1>1 DEF Verdict
  <1>4. Consent!Sign(r)
    BY <1>1, <1>2, <1>3, VerdictsDecided DEF Consent!Sign, Consent!Answer, Asking
  <1> QED BY <1>4 DEF Consent!Next

LEMMA PermissionStep ==
  ASSUME TypeOK, ListsGranted, PromptsAsked, [Next]_vars
  PROVE  [Consent!Next]_(Consent!permissionVars)
  <1>1. ASSUME NEW r \in Requests, NEW m \in Methods, Send(r, m) PROVE Consent!Next
    BY <1>1, SendAsks DEF Consent!Next
  <1>2. ASSUME NEW r \in Requests, Serve(r) PROVE Consent!Next
    BY <1>2, ServeAllows
  <1>3. ASSUME NEW r \in Requests, Enqueue(r) \/ CheckFails(r)
        PROVE  UNCHANGED Consent!permissionVars
    <2>1. /\ UNCHANGED <<key, answers, granted>>
          /\ \A q \in Requests : /\ stage'[q] = "unsent" <=> stage[q] = "unsent"
                                 /\ Verdict(q)' = Verdict(q)
      BY <1>3 DEF Enqueue, CheckFails, Verdict, TypeOK
    <2> QED BY <2>1, AskedStays, NothingDecided
  <1>4. ASSUME NEW r \in Requests, Answer(r) PROVE Consent!Next
    BY <1>4, AnswerSigns DEF Answer
  <1>5. ASSUME NEW t \in Taps, NEW r \in Requests, AnswerAllowed(t, r) PROVE Consent!Next
    <2>1. stage[r] \in {"signing", "released"}
      BY <1>5 DEF AnswerAllowed, TypeOK
    <2> QED BY <1>5, <2>1, AnswerSigns DEF AnswerAllowed
  <1>6. ASSUME NEW t \in Taps, AllowOnce(t) PROVE Consent!Next
    <2>1. /\ Release(t, shown) /\ shown # None /\ granted' = granted \cup {shown}
          /\ UNCHANGED <<key, answers>>
      BY <1>6 DEF AllowOnce
    <2>2. shown \in Keys /\ {shown} \in SUBSET Asked
      BY <2>1 DEF TypeOK, PromptsAsked
    <2> QED BY <2>1, <2>2, ReleaseAllows
  <1>7. ASSUME NEW t \in Taps, WriteList(t) PROVE Consent!Next
    <2> DEFINE K == {}
    <2>1. /\ Release(t, about[t]) /\ about[t] \in Keys /\ about[t] \in granted
          /\ UNCHANGED <<key, answers, granted>>
      BY <1>7 DEF WriteList, ListsGranted, TypeOK
    <2>2. K \in SUBSET Asked /\ granted' = granted \cup K
      BY <2>1
    <2> HIDE DEF K
    <2> QED BY <2>1, <2>2, ReleaseAllows
  <1>8. ASSUME NEW t \in Taps, AllowAlways(t) PROVE Consent!Next
    BY <1>8, AllowAlwaysAllows
  <1>9. CASE DenyPrompt
    <2> DEFINE R == {r \in Waiting : key[r] = shown}
    <2>1. Deny(R) /\ R \in SUBSET Waiting /\ UNCHANGED <<key, granted>>
      BY <1>9 DEF DenyPrompt
    <2> HIDE DEF R
    <2> QED BY <2>1, DeniesDenies DEF Denies
  <1>10. ASSUME UNCHANGED <<stage, key, answers, granted>>
         PROVE  UNCHANGED Consent!permissionVars
    BY <1>10 DEF Consent!permissionVars, Verdict
  <1>11. CASE Loads
    <2>1. UNCHANGED <<key, granted>>
      BY <1>11 DEF Loads, CommitPage, StopLoad, StartLoad
    <2>2. Denies \/ UNCHANGED <<stage, answers>>
      BY <1>11, NavigateDenies DEF Loads, CommitPage, StopLoad, StartLoad
    <2> QED BY <1>10, <2>1, <2>2, DeniesDenies
  <1>12. ASSUME NEW t \in Taps, ReadList(t) \/ RememberFails(t)
         PROVE  UNCHANGED Consent!permissionVars
    BY <1>10, <1>12 DEF ReadList, RememberFails
  <1>13. CASE Render \/ KeepPrompt \/ Settings \/ UNCHANGED vars
    BY <1>10, <1>13 DEF Render, KeepPrompt, Settings, StartRevoke, EndRevoke, Clear, vars
  <1> QED
    BY <1>1, <1>2, <1>3, <1>4, <1>5, <1>6, <1>7, <1>8, <1>9, <1>11, <1>12, <1>13
    DEF Next, Message, Allow

LEMMA PermissionInit == Init => Consent!Init
  BY DEF Init, Consent!Init, Verdict

----------------------------------------------------------------------------
(* The theorems *)

\* The types, and that what is being answered belongs to one allowPrompt.
THEOREM TypeCorrect == Spec => []TypeOK
  BY TypeInit, TypeStep, PTL DEF Spec

\* No request is answered twice, whatever is tapped, sent or loaded meanwhile.
THEOREM AnsweredAtMostOnce == Spec => []AnsweredOnce
  <1>1. Init => AnsweredOnce
    BY DEF Init, AnsweredOnce
  <1> QED BY <1>1, TypeInit, TypeStep, AnsweredStep, PTL DEF Spec

\* Nothing is signed that the user did not allow for that site and method.
THEOREM SignedWithConsent == Spec => []ConsentCoversSigning
  <1>1. Init => ConsentInv
    BY DEF Init, ConsentInv, ConsentCoversSigning, ListsGranted
  <1>2. ConsentInv => ConsentCoversSigning
    BY DEF ConsentInv
  <1> QED BY <1>1, <1>2, TypeInit, TypeStep, ConsentStep, PTL DEF Spec

\* A prompt is about a request that waits, unless a navigation that came between
\* setPermissionPrompt and the effect denied its requests and left it.
THEOREM PromptsHaveRequests == Spec => []PromptsAreAboutRequests
  <1>1. Init => PromptsAreAboutRequests
    BY DEF Init, PromptsAreAboutRequests
  <1> QED BY <1>1, TypeInit, TypeStep, PromptsStep, PTL DEF Spec

\* A request waits without a prompt only where a navigation hid it.
THEOREM WaitingIsShown == Spec => []NobodyIsForgotten
  <1>1. Init => NobodyIsForgotten
    BY DEF Init, NobodyIsForgotten, Waiting
  <1> QED BY <1>1, TypeInit, TypeStep, ForgottenStep, PTL DEF Spec

\* Decisions are final, and the user gives no permission that no page asked for,
\* though what he taps on may be an old prompt (useNip7BridgeMessages,
\* permission-store): the bridge implements Permission.
THEOREM ConsentIsKept == Spec => KeepsConsent
  <1> DEFINE IInv == TypeOK /\ ConsentInv /\ PromptsAsked
  <1>1. Init => IInv
    BY TypeInit DEF Init, ConsentInv, ConsentCoversSigning, ListsGranted, PromptsAsked
  <1>2. IInv /\ [Next]_vars => IInv'
    BY TypeStep, ConsentStep, AskedStep
  <1>3. IInv /\ [Next]_vars => [Consent!Next]_(Consent!permissionVars)
    BY PermissionStep DEF ConsentInv
  <1> QED BY <1>1, <1>2, <1>3, PermissionInit, PTL DEF Spec, KeepsConsent, Consent!Spec
=============================================================================
