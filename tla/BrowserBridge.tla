--------------------------- MODULE BrowserBridge ---------------------------
(***************************************************************************)
(* The app's browser (nr-app/src/browser): pages in a WebView ask for the  *)
(* user's key through window.nostr, and useNip7BridgeMessages answers.     *)
(*                                                                         *)
(* A request of a trusted site, or of a site and method the user           *)
(* remembered, is answered at once.  Any other waits, with the requests of *)
(* the same site and method, until the user answers a prompt; one prompt   *)
(* is shown at a time.  Every await is a step of its own, between which    *)
(* other messages, taps and navigations are handled.                       *)
(*                                                                         *)
(* A page lives until the next one is committed, while the WebView reports *)
(* the new address as soon as it starts to load it.  A changed prompt is   *)
(* rendered some time later, and an effect copies what was rendered to the *)
(* ref which navigations read: taps and navigations may see an old prompt. *)
(***************************************************************************)
EXTENDS Integers, FiniteSets

CONSTANTS
    Requests,   \* requests the pages send
    Sites,      \* origins
    Home,       \* the origin of initialUrl
    Trusted,    \* the origins of TRUSTED_NIP7_DOMAINS
    Methods,    \* NIP7_METHODS
    Taps,       \* calls of allowPrompt that can be under way at once
    None,
    MaxLoads, MaxRemembering    \* bounds of a model: loads started, calls of
                                \* rememberOrigin under way at once

ASSUME ConstantsAssumption ==
    /\ Home \in Sites /\ Trusted \subseteq Sites
    /\ {MaxLoads, MaxRemembering} \subseteq Nat

Keys == [site : Sites, method : Methods]

ASSUME NoneAssumption == None \notin Sites \cup Keys

VARIABLES
    site,           \* the origin of the page that is live
    url,            \* the origin of currentUrlRef
    loads,          \* loads started
    loading,        \* the WebView is between two pages
    stage,          \* where each request is
    key,            \* its origin and method
    prompt,         \* React's state: the origin and method asked about
    shown,          \* permissionPrompt as rendered last
    promptRef,      \* permissionPromptRef.current
    tap, about, list, sends,    \* each allowPrompt: its stage, what it allows,
                                \* the list it read, the requests it has to answer
    remembered,     \* the list in AsyncStorage
    revoke,         \* revokeOrigin under way: what it removes, the list it read
    answers,        \* history: how often each request was answered
    granted,        \* history: what the user ever allowed
    hidden,         \* history: requests a navigation left without a prompt
    overtaken       \* history: prompts a navigation left without their requests

webview == <<site, url, loads, loading>>
react   == <<shown, promptRef>>
tapping == <<tap, about, list, sends>>
stored  == <<remembered, revoke>>
missed  == <<hidden, overtaken>>
vars    == <<webview, stage, key, prompt, react, tapping, stored, answers, granted, missed>>

Waiting == {r \in Requests : stage[r] = "pending"}

Init ==
    /\ site = Home /\ url = Home /\ loads = 0 /\ loading = FALSE
    /\ stage = [r \in Requests |-> "unsent"]
    /\ key = [r \in Requests |-> None]
    /\ prompt = None /\ shown = None /\ promptRef = None
    /\ tap = [t \in Taps |-> "idle"] /\ about = [t \in Taps |-> None]
    /\ list = [t \in Taps |-> {}] /\ sends = [t \in Taps |-> {}]
    /\ remembered = {} /\ revoke = None
    /\ answers = [r \in Requests |-> 0]
    /\ granted = {} /\ hidden = {} /\ overtaken = {}

----------------------------------------------------------------------------
(* The pages *)

\* A page calls a method of window.nostr; handleMessage starts on it.  Its
\* origin is that of the address the WebView gives with the message, or, when
\* there is none in it, that of the address reported last.
Send(r, m) ==
    /\ stage[r] = "unsent"
    /\ stage' = [stage EXCEPT ![r] = "checking"]
    /\ \E origin \in {site, url} :
          key' = [key EXCEPT ![r] = [site |-> origin, method |-> m]]
    /\ UNCHANGED <<webview, react, prompt, tapping, stored, answers, granted, missed>>

Answered(R) == answers' = [r \in Requests |-> answers[r] + (IF r \in R THEN 1 ELSE 0)]

\* denyBridgeMessage for each request of R.
Deny(R) ==
    /\ stage' = [r \in Requests |-> IF r \in R THEN "denied" ELSE stage[r]]
    /\ Answered(R)

\* Mutant: the prompt of another site stays.
NavigateUnder(s) ==
    /\ url' = s
    /\ IF url = s THEN UNCHANGED <<stage, prompt, answers, missed>>
       ELSE LET left == {r \in Waiting : key[r].site = s}
            IN  Deny(Waiting \ left) /\ UNCHANGED <<prompt, missed>>

\* handleNavigationUrlChange: another origin denies what other origins asked,
\* and takes the prompt away if the one in the ref is of another origin.
Navigate(s) ==
    /\ url' = s
    /\ IF url = s THEN UNCHANGED <<stage, prompt, answers, missed>>
       ELSE LET left == {r \in Waiting : key[r].site = s}
            IN  /\ Deny(Waiting \ left)
                /\ IF promptRef # None /\ promptRef.site # s
                   THEN prompt' = None /\ hidden' = hidden \cup left /\ UNCHANGED overtaken
                   ELSE /\ overtaken' = overtaken \cup {k \in {prompt} \ {None} : k.site # s}
                        /\ UNCHANGED <<prompt, hidden>>

\* The WebView starts to load a page of a site, or is redirected to one.
StartLoad(s) ==
    /\ loads < MaxLoads
    /\ loads' = loads + 1 /\ loading' = TRUE
    /\ Navigate(s)
    /\ UNCHANGED <<site, key, react, tapping, stored, granted>>

\* The new page replaces the old one.
CommitPage ==
    /\ loading
    /\ site' = url /\ loading' = FALSE
    /\ UNCHANGED <<url, loads, stage, key, prompt, react, tapping, stored, answers, granted, missed>>

\* The load fails or is stopped: the old page stays and its address is reported.
StopLoad ==
    /\ loading
    /\ loading' = FALSE
    /\ Navigate(site)
    /\ UNCHANGED <<site, loads, key, react, tapping, stored, granted>>

----------------------------------------------------------------------------
(* handleMessage *)

\* isTrustedNip7Origin or isRememberedOrigin: the request is served.
Serve(r) ==
    /\ stage[r] = "checking"
    /\ key[r].site \in Trusted \/ key[r] \in remembered
    /\ stage' = [stage EXCEPT ![r] = "signing"]
    /\ UNCHANGED <<webview, react, key, prompt, tapping, stored, answers, granted, missed>>

\* Otherwise it waits, and a prompt is shown unless there is one.
Enqueue(r) ==
    /\ stage[r] = "checking"
    /\ key[r].site \notin Trusted /\ key[r] \notin remembered
    /\ stage' = [stage EXCEPT ![r] = "pending"]
    /\ prompt' = IF prompt = None THEN key[r] ELSE prompt
    /\ UNCHANGED <<webview, react, key, tapping, stored, answers, granted, missed>>

\* AsyncStorage fails: handleMessage throws and nobody answers the page.
CheckFails(r) ==
    /\ stage[r] = "checking"
    /\ stage' = [stage EXCEPT ![r] = "lost"]
    /\ UNCHANGED <<webview, react, key, prompt, tapping, stored, answers, granted, missed>>

\* sendBridgeResponse of a request that was served.
Answer(r) ==
    /\ stage[r] = "signing"
    /\ stage' = [stage EXCEPT ![r] = "signed"]
    /\ Answered({r})
    /\ UNCHANGED <<webview, react, key, prompt, tapping, stored, granted, missed>>

----------------------------------------------------------------------------
(* The prompt *)

\* React renders the prompt as it is now: the sheet and its callbacks have it.
Render ==
    /\ shown # prompt
    /\ shown' = prompt
    /\ UNCHANGED <<webview, promptRef, stage, key, prompt, tapping, stored, answers, granted, missed>>

\* The effect that follows keeps it for handleNavigationUrlChange.
KeepPrompt ==
    /\ promptRef # shown
    /\ promptRef' = shown
    /\ UNCHANGED <<webview, shown, stage, key, prompt, tapping, stored, answers, granted, missed>>

\* showNextPermissionPrompt; the order of the Map is left open.
ShowNext(S) == IF S = {} THEN prompt' = None ELSE \E r \in S : prompt' = key[r]

\* The user rejects: the requests the prompt is about are denied.
DenyPrompt ==
    /\ shown # None
    /\ LET R == {r \in Waiting : key[r] = shown}
       IN  Deny(R) /\ ShowNext(Waiting \ R)
    /\ UNCHANGED <<webview, react, key, tapping, stored, granted, missed>>

\* Mutant: the requests leave the Map only when they are answered.
ReleaseLate(t, k) ==
    LET R == {r \in Waiting : key[r] = k}
    IN  /\ sends' = [sends EXCEPT ![t] = R]
        /\ UNCHANGED stage
        /\ list' = [list EXCEPT ![t] = {}] /\ about' = [about EXCEPT ![t] = None]
        /\ IF R = {} THEN ShowNext(Waiting) /\ tap' = [tap EXCEPT ![t] = "idle"]
           ELSE prompt' = None /\ tap' = [tap EXCEPT ![t] = "sending"]

\* Mutant: every waiting request is released, whatever it asks.
ReleaseAll(t, k) ==
    /\ stage' = [r \in Requests |-> IF r \in Waiting THEN "released" ELSE stage[r]]
    /\ sends' = [sends EXCEPT ![t] = Waiting]
    /\ list' = [list EXCEPT ![t] = {}] /\ about' = [about EXCEPT ![t] = None]
    /\ IF Waiting = {} THEN ShowNext(Waiting) /\ tap' = [tap EXCEPT ![t] = "idle"]
       ELSE prompt' = None /\ tap' = [tap EXCEPT ![t] = "sending"]

\* What allowPrompt does once it may: the requests leave the Map, the prompt
\* goes, and unless there is nothing to answer the next one comes later.
Release(t, k) ==
    LET R == {r \in Waiting : key[r] = k}
    IN  /\ stage' = [r \in Requests |-> IF r \in R THEN "released" ELSE stage[r]]
        /\ sends' = [sends EXCEPT ![t] = R]
        /\ list' = [list EXCEPT ![t] = {}] /\ about' = [about EXCEPT ![t] = None]
        /\ IF R = {} THEN ShowNext(Waiting) /\ tap' = [tap EXCEPT ![t] = "idle"]
           ELSE prompt' = None /\ tap' = [tap EXCEPT ![t] = "sending"]

\* The user allows what the prompt asks, this time.
AllowOnce(t) ==
    /\ shown # None /\ tap[t] = "idle"
    /\ granted' = granted \cup {shown}
    /\ Release(t, shown)
    /\ UNCHANGED <<webview, react, key, stored, answers, missed>>

\* The user allows it for good.  The prompt stays until that is stored.
AllowAlways(t) ==
    /\ shown # None /\ tap[t] = "idle"
    /\ Cardinality({u \in Taps : tap[u] \in {"reading", "writing"}}) < MaxRemembering
    /\ about' = [about EXCEPT ![t] = shown]
    /\ granted' = granted \cup {shown}
    /\ tap' = [tap EXCEPT ![t] = "reading"]
    /\ UNCHANGED <<webview, react, stage, key, prompt, list, sends, stored, answers, missed>>

\* rememberOrigin reads the list ...
ReadList(t) ==
    /\ tap[t] = "reading"
    /\ tap' = [tap EXCEPT ![t] = "writing"]
    /\ list' = [list EXCEPT ![t] = remembered]
    /\ UNCHANGED <<webview, react, stage, key, prompt, about, sends, stored, answers, granted, missed>>

\* ... and writes it with one entry more; then allowPrompt goes on.
WriteList(t) ==
    /\ tap[t] = "writing"
    /\ remembered' = list[t] \cup {about[t]}
    /\ Release(t, about[t])
    /\ UNCHANGED <<webview, react, key, revoke, answers, granted, missed>>

\* AsyncStorage fails: allowPrompt throws, the prompt stays.
RememberFails(t) ==
    /\ tap[t] \in {"reading", "writing"}
    /\ tap' = [tap EXCEPT ![t] = "idle"]
    /\ list' = [list EXCEPT ![t] = {}] /\ about' = [about EXCEPT ![t] = None]
    /\ UNCHANGED <<webview, react, stage, key, prompt, sends, stored, answers, granted, missed>>

\* Mutant: the next prompt is not shown.
AnswerAndStop(t, r) ==
    /\ tap[t] = "sending" /\ r \in sends[t]
    /\ stage' = [stage EXCEPT ![r] = "signed"]
    /\ Answered({r})
    /\ sends' = [sends EXCEPT ![t] = @ \ {r}]
    /\ tap' = IF sends'[t] = {} THEN [tap EXCEPT ![t] = "idle"] ELSE tap
    /\ UNCHANGED <<webview, react, key, prompt, about, list, stored, granted, missed>>

\* sendBridgeResponse of a request that was allowed; after the last one the
\* next prompt is shown.
AnswerAllowed(t, r) ==
    /\ tap[t] = "sending" /\ r \in sends[t]
    /\ stage' = [stage EXCEPT ![r] = "signed"]
    /\ Answered({r})
    /\ sends' = [sends EXCEPT ![t] = @ \ {r}]
    /\ IF sends[t] = {r} THEN ShowNext(Waiting) /\ tap' = [tap EXCEPT ![t] = "idle"]
       ELSE UNCHANGED <<prompt, tap>>
    /\ UNCHANGED <<webview, react, key, about, list, stored, granted, missed>>

----------------------------------------------------------------------------
(* The settings *)

\* revokeOrigin reads the list ...
StartRevoke(k) ==
    /\ revoke = None /\ k \in remembered
    /\ revoke' = [key |-> k, list |-> remembered]
    /\ UNCHANGED <<webview, react, stage, key, prompt, tapping, remembered, answers, granted, missed>>

\* ... and writes it without the entry.
EndRevoke ==
    /\ revoke # None
    /\ remembered' = revoke.list \ {revoke.key}
    /\ revoke' = None
    /\ UNCHANGED <<webview, react, stage, key, prompt, tapping, answers, granted, missed>>

\* clearNip7Permissions.
Clear ==
    /\ remembered # {}
    /\ remembered' = {}
    /\ UNCHANGED <<webview, react, stage, key, prompt, tapping, revoke, answers, granted, missed>>

----------------------------------------------------------------------------

Loads == CommitPage \/ StopLoad \/ \E s \in Sites : StartLoad(s)

Message(r) == Serve(r) \/ Enqueue(r) \/ CheckFails(r) \/ Answer(r)

Allow(t) ==
    \/ ReadList(t) \/ WriteList(t) \/ RememberFails(t)
    \/ \E r \in Requests : AnswerAllowed(t, r)

Settings == EndRevoke \/ Clear \/ \E k \in Keys : StartRevoke(k)

Next ==
    \/ \E r \in Requests, m \in Methods : Send(r, m)
    \/ \E r \in Requests : Message(r)
    \/ \E t \in Taps : Allow(t) \/ AllowOnce(t) \/ AllowAlways(t)
    \/ DenyPrompt \/ Render \/ KeepPrompt \/ Loads \/ Settings

\* The bridge goes on with what it started, React renders and runs its
\* effects, and a user who sees a prompt answers it.
Fairness ==
    /\ \A r \in Requests : WF_vars(Message(r))
    /\ \A t \in Taps : WF_vars(Allow(t))
    /\ WF_vars(Render) /\ WF_vars(KeepPrompt)
    /\ WF_vars(DenyPrompt \/ \E t \in Taps : AllowOnce(t))

Spec == Init /\ [][Next]_vars /\ Fairness

----------------------------------------------------------------------------
(* Properties *)

Stages == {"unsent", "checking", "pending", "signing", "released", "signed", "denied", "lost"}

\* The variables keep to their types; what an allowPrompt took from the
\* Map is released to it alone, and it is in its loop as long as it has a request to answer.
TypeOK ==
    /\ {site, url} \subseteq Sites /\ loads \in Nat /\ loading \in BOOLEAN
    /\ stage \in [Requests -> Stages]
    /\ key \in [Requests -> Keys \cup {None}]
    /\ \A r \in Requests : stage[r] # "unsent" => key[r] \in Keys
    /\ {prompt, shown, promptRef} \subseteq Keys \cup {None}
    /\ tap \in [Taps -> {"idle", "reading", "writing", "sending"}]
    /\ about \in [Taps -> Keys \cup {None}]
    /\ list \in [Taps -> SUBSET Keys] /\ sends \in [Taps -> SUBSET Requests]
    /\ remembered \in SUBSET Keys
    /\ revoke \in [key : Keys, list : SUBSET Keys] \cup {None}
    /\ answers \in [Requests -> Nat]
    /\ granted \in SUBSET Keys /\ hidden \in SUBSET Requests /\ overtaken \in SUBSET Keys
    /\ \A t \in Taps :
          /\ tap[t] \in {"reading", "writing"} => about[t] \in Keys
          /\ tap[t] = "sending" <=> sends[t] # {}
          /\ \A r \in sends[t] : stage[r] = "released"
          /\ \A u \in Taps \ {t} : sends[t] \cap sends[u] = {}

\* Whatever taps, messages and navigations come between two awaits, no request
\* is answered twice: a page's promise is settled by one answer, and what was
\* denied is not signed later.
AnsweredOnce ==
    \A r \in Requests : answers[r] = (IF stage[r] \in {"signed", "denied"} THEN 1 ELSE 0)

\* What is signed, or about to be, was charged to a trusted origin, or the user
\* allowed its method for its origin: an answer to one prompt, given while others
\* wait, another is in the state than on the screen or the page changes, never
\* releases what another asks.
ConsentCoversSigning ==
    \A r \in Requests :
        stage[r] \in {"signing", "released", "signed"} =>
            key[r].site \in Trusted \/ key[r] \in granted

\* A prompt is about requests that wait, and an answer answers somebody, unless
\* a navigation came after the prompt was set and before the effect: it denied
\* the requests and left the prompt.  No other order of taps, answers, messages
\* and navigations asks the user in vain.
PromptsAreAboutRequests ==
    prompt \notin overtaken \cup {None} => \E r \in Waiting : key[r] = prompt

\* While a request waits, a prompt is shown or an allowPrompt is under way that
\* will show one, unless a navigation took the prompt of another site away.
NobodyIsForgotten ==
    Waiting \ hidden # {} => prompt # None \/ \E t \in Taps : tap[t] = "sending"

\* A decision on a request is final, and a permission is given only for what
\* somebody asked, however taps, messages, revocations, navigations, renderings
\* and failures of AsyncStorage come between the awaits of an allowPrompt.
Verdict(r) ==
    CASE stage[r] \in {"signing", "released"} -> "allowed"
      [] stage[r] \in {"signed", "denied"}    -> stage[r]
      [] OTHER                                -> "open"

Consent == INSTANCE Permission WITH
    Trusted <- {k \in Keys : k.site \in Trusted},
    asked   <- [r \in Requests |-> IF stage[r] = "unsent" THEN None ELSE key[r]],
    verdict <- [r \in Requests |-> Verdict(r)]

KeepsConsent == Consent!Spec

\* A request of a page that stays is answered, unless AsyncStorage failed on
\* it or a navigation hid it.
LiveRequestsAreAnswered ==
    \A r \in Requests :
        stage[r] = "checking" ~>
            \/ stage[r] \in {"signed", "denied", "lost"}
            \/ r \in hidden

=============================================================================
