------------------------- MODULE TokenVerification -------------------------
(***************************************************************************)
(* nr-bridge links a Trustroots account to a Nostr public key.  A call of  *)
(* POST /verify_token e-mails the account's owner a code and a token; a    *)
(* call of POST /authenticate that repeats one of them writes the npub     *)
(* into the account.  Calls run concurrently in one Deno process: every    *)
(* await on the key-value store, MongoDB or SMTP is a point where another  *)
(* call may run, so each action below is the code between two awaits.      *)
(*                                                                         *)
(* Deno KV gives every write a new versionstamp and atomic().check(entry)  *)
(* compares it.  Here the entries themselves are compared: no two writes   *)
(* at a key write the same value, because a new request has a new id and   *)
(* every other write increments a counter.                                 *)
(*                                                                         *)
(* Requests refused with 400 or 404 read nothing and write nothing: they   *)
(* are stuttering steps and have no action.                                *)
(***************************************************************************)
EXTENDS Naturals, Sequences

CONSTANTS
    Calls,              \* handler invocations that may be in progress at once
    Users,              \* accounts in MongoDB
    Npubs,              \* public keys a caller may want to link
    Codes,              \* six-digit codes (few, so that two requests may share one)
    Submissions,        \* what a caller may send: a code, a token or both
    None,               \* null / undefined
    MaxVerifyAttempts, MaxVerifyTokenPerWindow,
    MaxVerifyTokenGlobal, MaxVerifyAttemptsGlobal,
    OccRetries, GlobalOccRetries,
    TokenExpiry,        \* life of a token request, in ticks
    WindowLength,       \* length of a rate-limit window, in ticks
    MaxNow              \* the clock stops here: the bound of a model

ASSUME ConstantsAssumption ==
    /\ {MaxVerifyAttempts, MaxVerifyTokenPerWindow, MaxVerifyTokenGlobal,
        MaxVerifyAttemptsGlobal, OccRetries, GlobalOccRetries, TokenExpiry,
        WindowLength} \subseteq Nat \ {0}
    /\ MaxNow \in Nat
    /\ Submissions \subseteq [code : Codes \cup {None}, token : Nat]
    /\ \A s \in Submissions : s.code # None \/ s.token # 0

VARIABLES
    now,        \* Date.now()
    pending,    \* KV ["tokenRequests", username]
    slots,      \* KV rate-limit counters
    npub,       \* users.nostrNpub in MongoDB
    call,       \* the calls in progress: where each stands and its locals
    issued      \* history: the requests ever created, the id is the position

vars == <<now, pending, slots, npub, call, issued>>

----------------------------------------------------------------------------
(* The store *)

Scopes == {"user", "global", "guess"}

WindowOf(t) == t \div WindowLength

Windows == {WindowOf(t) : t \in 0 .. MaxNow}

\* A fixed-window counter's key: ["verifyTokenRate", "user", id, window],
\* ["verifyTokenRate", "global", window] or ["verifyAttemptRate", "global", window].
SlotKeys == [scope : Scopes, user : Users \cup {None}, window : Windows]

SlotKey(scope, u) ==
    [scope |-> scope, user |-> IF scope = "user" THEN u ELSE None,
     window |-> WindowOf(now)]

Limit(scope) ==
    CASE scope = "user"   -> MaxVerifyTokenPerWindow
      [] scope = "global" -> MaxVerifyTokenGlobal
      [] scope = "guess"  -> MaxVerifyAttemptsGlobal

Retries(scope) == IF scope = "user" THEN OccRetries ELSE GlobalOccRetries

\* What a granted reservation stands for: the count it raised the counter to.
Tickets == [key : SlotKeys, count : Nat]

Requests == [id : Nat \ {0}, code : Codes, attempts : 0 .. MaxVerifyAttempts,
             expiresAt : Nat]

\* What is remembered of a request that was created.
Issues == [user : Users, tickets : SUBSET Tickets]

ASSUME NoneAssumption ==
    None \notin Users \cup Npubs \cup Codes \cup SlotKeys \cup Requests
                \cup [id : Nat, attempts : Nat]

\* One reading of "expired" per function: getTokenRequest keeps a request
\* whose last millisecond has come, reserveVerifyAttempt does not.
ExpiredForLookup(r)  == r.expiresAt < now
ExpiredForAttempt(r) == r.expiresAt <= now

----------------------------------------------------------------------------
(* The calls in progress *)

Stages == {"idle", "lookup", "dropExpired", "slotRead", "slotCommit", "create",
           "mail", "attemptRead", "attemptDrop", "attemptCommit", "compare",
           "bind", "cleanup"}

CallStates ==
    [at : Stages, user : Users \cup {None}, npub : Npubs \cup {None},
     code : Codes \cup {None}, token : Nat, key : SlotKeys \cup {None},
     seen : Nat, entry : Requests \cup {None}, tries : Nat, tickets : SUBSET Tickets]

NoCall == [at |-> "idle", user |-> None, npub |-> None, code |-> None, token |-> 0,
           key |-> None, seen |-> 0, entry |-> None, tries |-> 0, tickets |-> {}]

\* The calls that hold a counted submission: reserveVerifyAttempt returned it.
Holding(c) == call[c].at \in {"compare", "bind"}

\* A response ends the call and forgets its locals.
Respond(c) == call' = [call EXCEPT ![c] = NoCall]

\* Entering reserveSlot: the window is computed here, once, before the loop.
EnterSlot(state, scope) ==
    [state EXCEPT !.at = "slotRead", !.key = SlotKey(scope, state.user),
                  !.seen = 0, !.tries = 0]

LeaveSlot(state, stage) ==
    [state EXCEPT !.at = stage, !.key = None, !.seen = 0, !.tries = 0]

----------------------------------------------------------------------------
Init ==
    /\ now = 0
    /\ pending = [u \in Users |-> None]
    /\ slots = [k \in SlotKeys |-> 0]
    /\ npub = [u \in Users |-> None]
    /\ call = [c \in Calls |-> NoCall]
    /\ issued = << >>

----------------------------------------------------------------------------
(* reserveSlot: a bounded loop of read and compare-and-set *)

\* The loop's get: a full window denies the reservation, which answers 429.
SlotRead(c) ==
    LET key == call[c].key IN
    /\ call[c].at = "slotRead"
    /\ \/ /\ slots[key] >= Limit(key.scope)
          /\ Respond(c)
       \/ /\ slots[key] < Limit(key.scope)
          /\ call' = [call EXCEPT ![c].at = "slotCommit", ![c].seen = slots[key]]
    /\ UNCHANGED <<now, pending, slots, npub, issued>>

\* Where a call goes once a reservation of the scope is allowed.
AfterSlot(state) ==
    CASE state.key.scope = "user"   -> EnterSlot(state, "global")
      [] state.key.scope = "global" -> LeaveSlot(state, "create")
      [] state.key.scope = "guess"  -> LeaveSlot(state, "attemptRead")

\* Mutant: the counter is written without comparing it.
SlotCommitUnchecked(c) ==
    LET key    == call[c].key
        ticket == [key |-> key, count |-> call[c].seen + 1]
    IN  /\ call[c].at = "slotCommit"
        /\ slots' = [slots EXCEPT ![key] = call[c].seen + 1]
        /\ call' = [call EXCEPT ![c] =
                        AfterSlot([call[c] EXCEPT !.tickets = @ \cup {ticket}])]
        /\ UNCHANGED <<now, pending, npub, issued>>

\* atomic().check(entry).set(count + 1).commit() finds the entry it read.
SlotCommit(c) ==
    LET key    == call[c].key
        ticket == [key |-> key, count |-> call[c].seen + 1]
    IN  /\ call[c].at = "slotCommit"
        /\ slots[key] = call[c].seen
        /\ slots' = [slots EXCEPT ![key] = call[c].seen + 1]
        /\ call' = [call EXCEPT ![c] =
                        AfterSlot([call[c] EXCEPT !.tickets = @ \cup {ticket}])]
        /\ UNCHANGED <<now, pending, npub, issued>>

\* The commit loses the race: read again, or answer 429 after the last try.
SlotLost(c) ==
    LET key == call[c].key IN
    /\ call[c].at = "slotCommit"
    /\ slots[key] # call[c].seen
    /\ \/ /\ call[c].tries + 1 < Retries(key.scope)
          /\ call' = [call EXCEPT ![c].at = "slotRead", ![c].tries = @ + 1]
       \/ /\ call[c].tries + 1 >= Retries(key.scope)
          /\ Respond(c)
    /\ UNCHANGED <<now, pending, slots, npub, issued>>

----------------------------------------------------------------------------
(* POST /verify_token *)

\* The body parses and findUserByUsername finds the account.
VerifyToken(c, u) ==
    /\ call[c].at = "idle"
    /\ call' = [call EXCEPT ![c].at = "lookup", ![c].user = u]
    /\ UNCHANGED <<now, pending, slots, npub, issued>>

\* getTokenRequest finds an unexpired request: 409.
AnswerPending(c) ==
    /\ call[c].at = "lookup"
    /\ pending[call[c].user] # None
    /\ ~ExpiredForLookup(pending[call[c].user])
    /\ Respond(c)
    /\ UNCHANGED <<now, pending, slots, npub, issued>>

\* getTokenRequest finds nothing, or an expired request it deletes afterwards.
LookupFree(c) ==
    LET r == pending[call[c].user] IN
    /\ call[c].at = "lookup"
    /\ \/ /\ r = None
          /\ call' = [call EXCEPT ![c] = EnterSlot(call[c], "user")]
       \/ /\ r # None
          /\ ExpiredForLookup(r)
          /\ call' = [call EXCEPT ![c].at = "dropExpired"]
    /\ UNCHANGED <<now, pending, slots, npub, issued>>

\* deleteTokenRequest on behalf of getTokenRequest: whatever is there by now.
DropExpired(c) ==
    /\ call[c].at = "dropExpired"
    /\ pending' = [pending EXCEPT ![call[c].user] = None]
    /\ call' = [call EXCEPT ![c] = EnterSlot(call[c], "user")]
    /\ UNCHANGED <<now, slots, npub, issued>>

\* createTokenRequest: an unconditional set.
CreateTokenRequest(c, code) ==
    LET r == [id |-> Len(issued) + 1, code |-> code, attempts |-> 0,
              expiresAt |-> now + TokenExpiry]
    IN  /\ call[c].at = "create"
        /\ pending' = [pending EXCEPT ![call[c].user] = r]
        /\ issued' = Append(issued, [user |-> call[c].user, tickets |-> call[c].tickets])
        /\ call' = [call EXCEPT ![c].at = "mail", ![c].tickets = {}]
        /\ UNCHANGED <<now, slots, npub>>

\* sendEmail succeeds (200) or fails (500): either way the request stays.
SendEmail(c) ==
    /\ call[c].at = "mail"
    /\ Respond(c)
    /\ UNCHANGED <<now, pending, slots, npub, issued>>

----------------------------------------------------------------------------
(* POST /authenticate *)

\* The body carries a code, a token or both; only a code takes a global slot.
\* A token is the id of its request, 0 when the body has none.
Authenticate(c, u, k, s) ==
    LET state == [call[c] EXCEPT !.user = u, !.npub = k, !.code = s.code, !.token = s.token]
    IN  /\ call[c].at = "idle"
        /\ s.token <= Len(issued)
        /\ call' = [call EXCEPT ![c] =
                        IF s.code # None THEN EnterSlot(state, "guess")
                                       ELSE [state EXCEPT !.at = "attemptRead"]]
        /\ UNCHANGED <<now, pending, slots, npub, issued>>

\* Mutant: one attempt too many.
UsedUpLate(r) == ExpiredForAttempt(r) \/ r.attempts > MaxVerifyAttempts

UsedUp(r) == ExpiredForAttempt(r) \/ r.attempts >= MaxVerifyAttempts

\* Mutant: the submission is compared with what was read, before it is counted.
AttemptReadUncounted(c) ==
    LET r == pending[call[c].user] IN
    /\ call[c].at = "attemptRead"
    /\ \/ /\ r = None
          /\ Respond(c)
       \/ /\ r # None
          /\ call' = [call EXCEPT ![c].at = "compare", ![c].entry = r]
    /\ UNCHANGED <<now, pending, slots, npub, issued>>

\* reserveVerifyAttempt's get: nothing there answers 401 at once.
AttemptRead(c) ==
    LET r == pending[call[c].user] IN
    /\ call[c].at = "attemptRead"
    /\ \/ /\ r = None
          /\ Respond(c)
       \/ /\ r # None
          /\ call' = [call EXCEPT
                         ![c].at = IF UsedUp(r) THEN "attemptDrop" ELSE "attemptCommit",
                         ![c].entry = r]
    /\ UNCHANGED <<now, pending, slots, npub, issued>>

\* atomic().check(entry).delete(key).commit(), whose outcome is not looked at: 401.
AttemptDrop(c) ==
    LET u == call[c].user IN
    /\ call[c].at = "attemptDrop"
    /\ pending' = [pending EXCEPT ![u] = IF @ = call[c].entry THEN None ELSE @]
    /\ Respond(c)
    /\ UNCHANGED <<now, slots, npub, issued>>

\* Mutant: the attempt is written without comparing the entry.
AttemptCommitUnchecked(c) ==
    LET reserved == [call[c].entry EXCEPT !.attempts = @ + 1]
    IN  /\ call[c].at = "attemptCommit"
        /\ pending' = [pending EXCEPT ![call[c].user] = reserved]
        /\ call' = [call EXCEPT ![c].at = "compare", ![c].entry = reserved,
                                ![c].tries = 0]
        /\ UNCHANGED <<now, slots, npub, issued>>

\* Mutant: a counted attempt starts the request's life again.
AttemptCommitExtends(c) ==
    LET u        == call[c].user
        reserved == [call[c].entry EXCEPT !.attempts = @ + 1,
                                          !.expiresAt = now + TokenExpiry]
    IN  /\ call[c].at = "attemptCommit"
        /\ pending[u] = call[c].entry
        /\ pending' = [pending EXCEPT ![u] = reserved]
        /\ call' = [call EXCEPT ![c].at = "compare", ![c].entry = reserved,
                                ![c].tries = 0]
        /\ UNCHANGED <<now, slots, npub, issued>>

\* The compare-and-set of attempts + 1 succeeds.
AttemptCommit(c) ==
    LET u        == call[c].user
        reserved == [call[c].entry EXCEPT !.attempts = @ + 1]
    IN  /\ call[c].at = "attemptCommit"
        /\ pending[u] = call[c].entry
        /\ pending' = [pending EXCEPT ![u] = reserved]
        /\ call' = [call EXCEPT ![c].at = "compare", ![c].entry = reserved,
                                ![c].tries = 0]
        /\ UNCHANGED <<now, slots, npub, issued>>

\* The entry changed since it was read: try again, or 401 after the last try.
AttemptLost(c) ==
    /\ call[c].at = "attemptCommit"
    /\ pending[call[c].user] # call[c].entry
    /\ \/ /\ call[c].tries + 1 < OccRetries
          /\ call' = [call EXCEPT ![c].at = "attemptRead", ![c].entry = None,
                                  ![c].tries = @ + 1]
       \/ /\ call[c].tries + 1 >= OccRetries
          /\ Respond(c)
    /\ UNCHANGED <<now, pending, slots, npub, issued>>

Matches(state) ==
    \/ state.code # None /\ state.code = state.entry.code
    \/ state.token = state.entry.id

\* The submission is compared with the request that was counted: 401 unless it matches.
Compare(c) ==
    /\ call[c].at = "compare"
    /\ \/ Matches(call[c]) /\ call' = [call EXCEPT ![c].at = "bind"]
       \/ ~Matches(call[c]) /\ Respond(c)
    /\ UNCHANGED <<now, pending, slots, npub, issued>>

\* setNpubForUsername: 500 when no document was modified.
SetNpub(c) ==
    /\ call[c].at = "bind"
    /\ \/ /\ npub' = [npub EXCEPT ![call[c].user] = call[c].npub]
          /\ call' = [call EXCEPT ![c].at = "cleanup"]
       \/ /\ UNCHANGED npub
          /\ Respond(c)
    /\ UNCHANGED <<now, pending, slots, issued>>

\* deleteTokenRequest after success: whatever is there by now.
Cleanup(c) ==
    /\ call[c].at = "cleanup"
    /\ pending' = [pending EXCEPT ![call[c].user] = None]
    /\ Respond(c)
    /\ UNCHANGED <<now, slots, npub, issued>>

----------------------------------------------------------------------------
(* The environment *)

Tick ==
    /\ now < MaxNow
    /\ now' = now + 1
    /\ UNCHANGED <<pending, slots, npub, call, issued>>

\* Deno KV removes an entry some time after its expireIn has passed.
KvExpire(u) ==
    /\ pending[u] # None
    /\ ExpiredForAttempt(pending[u])
    /\ pending' = [pending EXCEPT ![u] = None]
    /\ UNCHANGED <<now, slots, npub, call, issued>>

\* An await rejects and Hono answers 500; the death of the process is this
\* step for every call, one after the other.
Abort(c) ==
    /\ call[c].at # "idle"
    /\ Respond(c)
    /\ UNCHANGED <<now, pending, slots, npub, issued>>

SlotStep(c) == SlotRead(c) \/ SlotCommit(c) \/ SlotLost(c)

VerifyTokenStep(c) ==
    \/ \E u \in Users : VerifyToken(c, u)
    \/ AnswerPending(c) \/ LookupFree(c) \/ DropExpired(c)
    \/ \E code \in Codes : CreateTokenRequest(c, code)
    \/ SendEmail(c)

AuthenticateStep(c) ==
    \/ \E u \in Users, k \in Npubs, s \in Submissions : Authenticate(c, u, k, s)
    \/ AttemptRead(c) \/ AttemptDrop(c) \/ AttemptCommit(c) \/ AttemptLost(c)
    \/ Compare(c) \/ SetNpub(c) \/ Cleanup(c)

Next ==
    \/ \E c \in Calls :
           SlotStep(c) \/ VerifyTokenStep(c) \/ AuthenticateStep(c) \/ Abort(c)
    \/ \E u \in Users : KvExpire(u)
    \/ Tick

Spec == Init /\ [][Next]_vars

----------------------------------------------------------------------------
(* Properties *)

TypeOK ==
    /\ now \in 0 .. MaxNow
    /\ pending \in [Users -> Requests \cup {None}]
    /\ slots \in [SlotKeys -> Nat]
    /\ npub \in [Users -> Npubs \cup {None}]
    /\ call \in [Calls -> CallStates]
    /\ issued \in Seq(Issues)

\* reserveVerifyAttempt counts before it compares: however the calls
\* interleave, a submission that is compared has an attempt of that request to
\* itself, within the maximum, and one the stored request has counted.
EveryComparisonIsPaidFor ==
    \A c \in Calls : Holding(c) =>
        LET held == call[c].entry
            r    == pending[call[c].user]
        IN  /\ held.attempts \in 1 .. MaxVerifyAttempts
            /\ r # None /\ r.id = held.id => held.attempts <= r.attempts
            /\ \A d \in Calls \ {c} : Holding(d) =>
                   \/ held.id # call[d].entry.id
                   \/ held.attempts # call[d].entry.attempts

\* Every token request, hence every e-mail, was paid for with a slot of its
\* user and a slot of the cap shared by all users, each within its limit, and
\* no two requests were paid for with the same slot.
EmailsArePaidFor ==
    /\ \A i \in DOMAIN issued :
           /\ \E t \in issued[i].tickets : t.key.scope = "user" /\ t.key.user = issued[i].user
           /\ \E t \in issued[i].tickets : t.key.scope = "global"
           /\ \A t \in issued[i].tickets : t.count \in 1 .. Limit(t.key.scope)
    /\ \A i, j \in DOMAIN issued : i # j => issued[i].tickets \cap issued[j].tickets = {}

\* What a step may make of a stored request: a new one, or one attempt more.
CountsOrReplaces ==
    \A u \in Users : pending'[u] \notin {None, pending[u]} =>
        LET r == pending'[u] IN
        \/ r.id = Len(issued') /\ r.id > Len(issued) /\ r.attempts = 0
        \/ /\ pending[u] # None
           /\ r = [pending[u] EXCEPT !.attempts = @ + 1]

\* A request lives once: a submission never extends it or gives back attempts,
\* and one that is gone never comes back, also when a call that read it commits
\* after it was deleted or replaced.
RequestLivesOnce == [][CountsOrReplaces]_vars

\* The calls, in whatever order they interleave, keep LinkLedger's promise.
Ledger == INSTANCE LinkLedger WITH
    MaxAttempts <- MaxVerifyAttempts,
    lastId      <- Len(issued),
    open        <- [u \in Users |-> IF pending[u] = None THEN None
                       ELSE [id |-> pending[u].id, attempts |-> pending[u].attempts]],
    credits     <- {[user |-> call[c].user, id |-> call[c].entry.id,
                     attempt |-> call[c].entry.attempts] : c \in {d \in Calls : Holding(d)}},
    linked      <- npub

\* A link is made only by a counted submission of that account's own request.
KeepsLedger == Ledger!Spec

\* What README.md says of 409: while an unexpired request exists, verify_token
\* does not replace it.
PendingIsNotReplaced ==
    [][\A u \in Users :
          /\ pending[u] # None
          /\ ~ExpiredForLookup(pending[u])
          /\ pending'[u] # None
          => pending'[u].id = pending[u].id]_vars

============================================================================
