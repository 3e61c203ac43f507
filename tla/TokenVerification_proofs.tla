---------------------- MODULE TokenVerification_proofs ----------------------
(* The theorems about TokenVerification and their proofs. *)
EXTENDS TokenVerification, SequenceTheorems, TLAPS

(* What each stage of a call knows of its locals. *)
StageOK(state) ==
    /\ state.at # "idle" => state.user \in Users
    /\ state.at \in {"slotRead", "slotCommit"} => state.key \in SlotKeys
    /\ state.at = "slotCommit" => state.seen < Limit(state.key.scope)
    /\ state.at \in {"attemptDrop", "attemptCommit", "compare", "bind"} =>
           state.entry \in Requests
    /\ state.at = "attemptCommit" => state.entry.attempts < MaxVerifyAttempts
    /\ \/ state.at \in {"attemptRead", "attemptDrop", "attemptCommit", "compare", "bind"}
       \/ state.at \in {"slotRead", "slotCommit"} /\ state.key.scope = "guess"
       => state.npub \in Npubs

\* Type correctness strengthened to be inductive.
TypeInv ==
    /\ TypeOK
    /\ \A c \in Calls : StageOK(call[c])

LEMMA InitTypeInv == Init => TypeInv
  <1> SUFFICES ASSUME Init PROVE TypeInv
    OBVIOUS
  <1>1. NoCall \in CallStates
    BY ConstantsAssumption DEF NoCall, CallStates, Stages
  <1>2. issued \in Seq(Issues)
    BY DEF Init
  <1>3. TypeOK
    BY <1>1, <1>2, ConstantsAssumption DEF Init, TypeOK
  <1>4. \A c \in Calls : StageOK(call[c])
    BY DEF Init, NoCall, StageOK
  <1>5. QED
    BY <1>3, <1>4 DEF TypeInv


(* The counters' keys and limits. *)
LEMMA SlotFacts ==
    ASSUME now \in 0 .. MaxNow
    PROVE  /\ \A scope \in Scopes : Limit(scope) \in Nat \ {0}
           /\ \A scope \in Scopes, u \in Users : SlotKey(scope, u) \in SlotKeys
  BY ConstantsAssumption DEF Scopes, Limit, SlotKey, SlotKeys, Windows

(* Entering and leaving reserveSlot keeps a call well formed. *)
LEMMA SlotMoves ==
    ASSUME now \in 0 .. MaxNow, NEW state \in CallStates, state.user \in Users
    PROVE  /\ \A scope \in Scopes : EnterSlot(state, scope) \in CallStates
           /\ \A scope \in {"user", "global"} : StageOK(EnterSlot(state, scope))
           /\ \A stage \in {"create", "attemptRead"} : LeaveSlot(state, stage) \in CallStates
           /\ StageOK(LeaveSlot(state, "create"))
           /\ state.npub \in Npubs => /\ StageOK(EnterSlot(state, "guess"))
                                     /\ StageOK(LeaveSlot(state, "attemptRead"))
  <1>1. \A scope \in Scopes : /\ SlotKey(scope, state.user) \in SlotKeys
                              /\ SlotKey(scope, state.user).scope = scope
    BY SlotFacts DEF SlotKey
  <1>2. \A scope \in Scopes : EnterSlot(state, scope) \in CallStates
    BY <1>1 DEF EnterSlot, CallStates, Stages
  <1>3. \A scope \in Scopes : scope # "guess" \/ state.npub \in Npubs =>
                                 StageOK(EnterSlot(state, scope))
    BY <1>1 DEF EnterSlot, CallStates, StageOK
  <1>4. \A stage \in {"create", "attemptRead"} : LeaveSlot(state, stage) \in CallStates
    BY DEF LeaveSlot, CallStates, Stages
  <1>5. \A stage \in {"create", "attemptRead"} :
            stage # "attemptRead" \/ state.npub \in Npubs => StageOK(LeaveSlot(state, stage))
    BY DEF LeaveSlot, CallStates, StageOK
  <1>6. QED
    BY <1>2, <1>3, <1>4, <1>5 DEF Scopes

(* After a granted reservation: AfterSlot on a call whose key is known. *)
LEMMA AfterSlotMoves ==
    ASSUME now \in 0 .. MaxNow, NEW state \in CallStates, state.user \in Users,
           state.key \in SlotKeys, state.key.scope = "guess" => state.npub \in Npubs
    PROVE  AfterSlot(state) \in CallStates /\ StageOK(AfterSlot(state))
  <1>1. state.key.scope \in {"user", "global", "guess"}
    BY DEF SlotKeys, Scopes
  <1>2. CASE state.key.scope = "user"
    BY <1>2, SlotMoves DEF AfterSlot, Scopes
  <1>3. CASE state.key.scope = "global"
    BY <1>3, SlotMoves DEF AfterSlot, Scopes
  <1>4. CASE state.key.scope = "guess"
    BY <1>4, SlotMoves DEF AfterSlot
  <1>5. QED
    BY <1>1, <1>2, <1>3, <1>4

LEMMA NoCallOK == NoCall \in CallStates /\ StageOK(NoCall) /\ StageOK(NoCall)'
  BY DEF NoCall, CallStates, Stages, StageOK

(* A response ends one call; nothing else about the calls changes. *)
LEMMA RespondKeeps ==
    ASSUME TypeInv, NEW c \in Calls, Respond(c), UNCHANGED issued
    PROVE  call' \in [Calls -> CallStates] /\ \A d \in Calls : StageOK(call[d])'
  BY NoCallOK DEF Respond, TypeInv, TypeOK, StageOK

(* A step that moves one call along and leaves issued alone. *)
LEMMA AdvanceKeeps ==
    ASSUME TypeInv, NEW c \in Calls, NEW state \in CallStates, StageOK(state),
           call' = [call EXCEPT ![c] = state], UNCHANGED issued
    PROVE  call' \in [Calls -> CallStates] /\ \A d \in Calls : StageOK(call[d])'
  BY DEF TypeInv, TypeOK, StageOK

LEMMA SlotStepTypeInv ==
    ASSUME TypeInv, NEW c \in Calls, SlotStep(c)
    PROVE  TypeInv'
  <1> DEFINE key == call[c].key
  <1> USE DEF TypeInv, TypeOK
  <1>1. /\ call[c] \in CallStates /\ StageOK(call[c])
        /\ call[c].at # "idle" => call[c].user \in Users
        /\ call[c].at \in {"slotRead", "slotCommit"} => key \in SlotKeys
    BY DEF StageOK
  <1>2. CASE SlotRead(c)
    <2>1. CASE Respond(c)
      BY <1>2, <2>1, RespondKeeps DEF SlotRead
    <2>2. CASE slots[key] < Limit(key.scope) /\ ~Respond(c)
      <3> DEFINE state == [call[c] EXCEPT !.at = "slotCommit", !.seen = slots[key]]
      <3>1. call' = [call EXCEPT ![c] = state]
        BY <1>2, <2>2 DEF SlotRead
      <3>2. state \in CallStates /\ StageOK(state)
        BY <1>1, <1>2, <2>2 DEF SlotRead, CallStates, Stages, StageOK
      <3>3. QED
        BY <1>2, <3>1, <3>2, AdvanceKeeps DEF SlotRead
    <2>3. QED
      BY <1>2, <2>1, <2>2 DEF SlotRead
  <1>3. CASE SlotCommit(c)
    <2> DEFINE ticket == [key |-> key, count |-> call[c].seen + 1]
               before == [call[c] EXCEPT !.tickets = @ \cup {ticket}]
    <2>1. key \in SlotKeys /\ call[c].seen \in Nat /\ ticket \in Tickets
      BY <1>1, <1>3 DEF SlotCommit, CallStates, Tickets
    <2>2. /\ before \in CallStates /\ before.user \in Users /\ before.key \in SlotKeys
          /\ before.key.scope = "guess" => before.npub \in Npubs
      BY <1>1, <1>3, <2>1 DEF SlotCommit, CallStates, StageOK
    <2>3. AfterSlot(before) \in CallStates /\ StageOK(AfterSlot(before))
      BY <2>2, AfterSlotMoves
    <2>4. call' = [call EXCEPT ![c] = AfterSlot(before)] /\ UNCHANGED issued
      BY <1>3 DEF SlotCommit
    <2>5. call' \in [Calls -> CallStates] /\ \A d \in Calls : StageOK(call[d])'
      BY <2>3, <2>4, AdvanceKeeps
    <2>6. slots' \in [SlotKeys -> Nat]
      BY <1>3, <2>1 DEF SlotCommit
    <2>7. QED
      BY <1>3, <2>5, <2>6 DEF SlotCommit
  <1>4. CASE SlotLost(c)
    <2>1. CASE Respond(c)
      BY <1>4, <2>1, RespondKeeps DEF SlotLost
    <2>2. CASE ~Respond(c)
      <3> DEFINE state == [call[c] EXCEPT !.at = "slotRead", !.tries = @ + 1]
      <3>1. call' = [call EXCEPT ![c] = state]
        BY <1>4, <2>2 DEF SlotLost
      <3>2. call[c].at = "slotCommit" /\ call[c].tries + 1 \in Nat
        BY <1>1, <1>4 DEF SlotLost, CallStates
      <3>3. state \in CallStates
        BY <1>1, <3>2 DEF CallStates, Stages
      <3>4. StageOK(state)
        BY <1>1, <3>2 DEF CallStates, StageOK
      <3>5. QED
        BY <1>4, <3>1, <3>3, <3>4, AdvanceKeeps DEF SlotLost
    <2>3. QED
      BY <2>1, <2>2
  <1>5. QED
    BY <1>2, <1>3, <1>4 DEF SlotStep

LEMMA VerifyTokenStepTypeInv ==
    ASSUME TypeInv, NEW c \in Calls, VerifyTokenStep(c)
    PROVE  TypeInv'
  <1> USE DEF TypeInv, TypeOK
  <1>1. /\ call[c] \in CallStates /\ StageOK(call[c])
        /\ call[c].at # "idle" => call[c].user \in Users
    BY DEF StageOK
  <1>2. ASSUME NEW u \in Users, VerifyToken(c, u)
        PROVE  TypeInv'
    <2> DEFINE state == [call[c] EXCEPT !.at = "lookup", !.user = u]
    <2>1. call' = [call EXCEPT ![c] = state]
      BY <1>2 DEF VerifyToken
    <2>2. state \in CallStates
      BY <1>1 DEF CallStates, Stages
    <2>3. StageOK(state)
      BY <1>1 DEF CallStates, StageOK
    <2>4. QED
      BY <1>2, <2>1, <2>2, <2>3, AdvanceKeeps DEF VerifyToken
  <1>3. CASE AnswerPending(c)
    BY <1>3, RespondKeeps DEF AnswerPending
  <1>4. CASE LookupFree(c)
    <2>1. call[c].user \in Users
      BY <1>1, <1>4 DEF LookupFree
    <2>2. CASE call' = [call EXCEPT ![c] = EnterSlot(call[c], "user")]
      <3>1. EnterSlot(call[c], "user") \in CallStates /\ StageOK(EnterSlot(call[c], "user"))
        BY <1>1, <2>1, SlotMoves DEF Scopes
      <3>2. QED
        BY <1>4, <2>2, <3>1, AdvanceKeeps DEF LookupFree
    <2>3. CASE call' = [call EXCEPT ![c].at = "dropExpired"]
      <3> DEFINE state == [call[c] EXCEPT !.at = "dropExpired"]
      <3>1. state \in CallStates
        BY <1>1 DEF CallStates, Stages
      <3>2. StageOK(state)
        BY <1>1, <2>1 DEF CallStates, StageOK
      <3>3. QED
        BY <1>4, <2>3, <3>1, <3>2, AdvanceKeeps DEF LookupFree
    <2>4. QED
      BY <1>4, <2>2, <2>3 DEF LookupFree
  <1>5. CASE DropExpired(c)
    <2>1. EnterSlot(call[c], "user") \in CallStates /\ StageOK(EnterSlot(call[c], "user"))
      BY <1>1, <1>5, SlotMoves DEF Scopes, DropExpired
    <2>2. call' \in [Calls -> CallStates] /\ \A d \in Calls : StageOK(call[d])'
      BY <1>5, <2>1, AdvanceKeeps DEF DropExpired
    <2>3. QED
      BY <1>5, <2>2 DEF DropExpired
  <1>6. ASSUME NEW code \in Codes, CreateTokenRequest(c, code)
        PROVE  TypeInv'
    <2> DEFINE r == [id |-> Len(issued) + 1, code |-> code, attempts |-> 0,
                     expiresAt |-> now + TokenExpiry]
               issue == [user |-> call[c].user, tickets |-> call[c].tickets]
               state == [call[c] EXCEPT !.at = "mail", !.tickets = {}]
    <2>1. call[c].user \in Users /\ call[c].tickets \in SUBSET Tickets
      BY <1>1, <1>6 DEF CreateTokenRequest, CallStates
    <2>2. r \in Requests /\ Len(issued) \in Nat
      BY ConstantsAssumption DEF Requests
    <2>3. issued' = Append(issued, issue) /\ call' = [call EXCEPT ![c] = state]
          /\ pending' = [pending EXCEPT ![call[c].user] = r]
          /\ UNCHANGED <<now, slots, npub>>
      BY <1>6 DEF CreateTokenRequest
    <2>4. issued' \in Seq(Issues) /\ Len(issued') = Len(issued) + 1
      <3>1. issue \in Issues
        BY <2>1 DEF Issues
      <3>2. QED
        BY <2>3, <3>1, AppendProperties
    <2>5. state \in CallStates
      BY <1>1, <2>2 DEF CallStates, Stages
    <2>6. \A d \in Calls \ {c} : StageOK(call[d])'
      BY <2>2, <2>3, <2>4 DEF StageOK
    <2>7. call' \in [Calls -> CallStates] /\ call'[c] = state
      BY <2>3, <2>5
    <2>8. StageOK(call[c])'
      BY <1>1, <2>1, <2>2, <2>4, <2>7 DEF CallStates, StageOK
    <2>9. \A d \in Calls : StageOK(call[d])'
      BY <2>6, <2>8
    <2>10. pending' \in [Users -> Requests \cup {None}]
      BY <2>2, <2>3
    <2>11. QED
      BY <2>3, <2>4, <2>7, <2>9, <2>10
  <1>7. CASE SendEmail(c)
    BY <1>7, RespondKeeps DEF SendEmail
  <1>8. QED
    BY <1>2, <1>3, <1>4, <1>5, <1>6, <1>7 DEF VerifyTokenStep

(* One more counted attempt. *)
LEMMA CountedRequest ==
    ASSUME NEW r \in Requests, r.attempts < MaxVerifyAttempts
    PROVE  /\ [r EXCEPT !.attempts = @ + 1] \in Requests
           /\ [r EXCEPT !.attempts = @ + 1].attempts = r.attempts + 1
           /\ [r EXCEPT !.attempts = @ + 1].id = r.id
           /\ r.attempts + 1 \in 1 .. MaxVerifyAttempts
  <1>1. MaxVerifyAttempts \in Nat
    BY ConstantsAssumption
  <1>2. r.attempts + 1 \in 0 .. MaxVerifyAttempts /\ r.attempts + 1 \in 1 .. MaxVerifyAttempts
    BY <1>1 DEF Requests
  <1>3. QED
    BY <1>2 DEF Requests

LEMMA AuthenticateStepTypeInv ==
    ASSUME TypeInv, NEW c \in Calls, AuthenticateStep(c)
    PROVE  TypeInv'
  <1> USE DEF TypeInv, TypeOK
  <1>1. /\ call[c] \in CallStates /\ StageOK(call[c])
        /\ call[c].at # "idle" => call[c].user \in Users
    BY DEF StageOK
  <1>2. ASSUME NEW u \in Users, NEW k \in Npubs, NEW s \in Submissions, Authenticate(c, u, k, s)
        PROVE  TypeInv'
    <2> DEFINE state == [call[c] EXCEPT !.user = u, !.npub = k, !.code = s.code,
                                        !.token = s.token]
               next == IF s.code # None THEN EnterSlot(state, "guess")
                                        ELSE [state EXCEPT !.at = "attemptRead"]
    <2>1. s.code \in Codes \cup {None} /\ s.token \in Nat
      BY ConstantsAssumption
    <2>2. state \in CallStates /\ state.user \in Users /\ state.npub \in Npubs
      BY <1>1, <2>1 DEF CallStates
    <2>3. EnterSlot(state, "guess") \in CallStates /\ StageOK(EnterSlot(state, "guess"))
      BY <2>2, SlotMoves DEF Scopes
    <2>4. [state EXCEPT !.at = "attemptRead"] \in CallStates
      BY <2>2 DEF CallStates, Stages
    <2>5. StageOK([state EXCEPT !.at = "attemptRead"])
      BY <2>2 DEF CallStates, StageOK
    <2>6. next \in CallStates /\ StageOK(next)
      BY <2>3, <2>4, <2>5
    <2>7. call' = [call EXCEPT ![c] = next]
      BY <1>2 DEF Authenticate
    <2>8. QED
      BY <1>2, <2>6, <2>7, AdvanceKeeps DEF Authenticate
  <1>3. CASE AttemptRead(c)
    <2> DEFINE r == pending[call[c].user]
               stage == IF UsedUp(r) THEN "attemptDrop" ELSE "attemptCommit"
               state == [call[c] EXCEPT !.at = stage, !.entry = r]
    <2>1. CASE Respond(c)
      BY <1>3, <2>1, RespondKeeps DEF AttemptRead
    <2>2. CASE ~Respond(c)
      <3>1. call' = [call EXCEPT ![c] = state] /\ r # None
        BY <1>3, <2>2 DEF AttemptRead
      <3>2. call[c].user \in Users /\ r \in Requests /\ call[c].npub \in Npubs
        BY <1>1, <1>3, <3>1 DEF AttemptRead, StageOK
      <3>3. state \in CallStates
        BY <1>1, <3>2 DEF CallStates, Stages
      <3>4. stage = "attemptCommit" => r.attempts < MaxVerifyAttempts
        BY <3>2, ConstantsAssumption DEF UsedUp, Requests
      <3>5. StageOK(state)
        BY <1>1, <3>2, <3>4 DEF CallStates, StageOK
      <3>6. QED
        BY <1>3, <3>1, <3>3, <3>5, AdvanceKeeps DEF AttemptRead
    <2>3. QED
      BY <2>1, <2>2
  <1>4. CASE AttemptDrop(c)
    <2>1. call' \in [Calls -> CallStates] /\ \A d \in Calls : StageOK(call[d])'
      BY <1>4, RespondKeeps DEF AttemptDrop
    <2>2. QED
      BY <1>4, <2>1 DEF AttemptDrop
  <1>5. CASE AttemptCommit(c)
    <2> DEFINE reserved == [call[c].entry EXCEPT !.attempts = @ + 1]
               state == [call[c] EXCEPT !.at = "compare", !.entry = reserved, !.tries = 0]
    <2>1. call[c].entry \in Requests /\ call[c].entry.attempts < MaxVerifyAttempts
      BY <1>1, <1>5 DEF AttemptCommit, StageOK
    <2>2. reserved \in Requests
      BY <2>1, CountedRequest
    <2>3. call' = [call EXCEPT ![c] = state]
          /\ pending' = [pending EXCEPT ![call[c].user] = reserved]
      BY <1>5 DEF AttemptCommit
    <2>4. state \in CallStates
      BY <1>1, <2>2, ConstantsAssumption DEF CallStates, Stages
    <2>5. call[c].user \in Users /\ call[c].npub \in Npubs
      BY <1>1, <1>5 DEF AttemptCommit, StageOK
    <2>6. StageOK(state)
      BY <1>1, <2>2, <2>5 DEF CallStates, StageOK
    <2>7. call' \in [Calls -> CallStates] /\ \A d \in Calls : StageOK(call[d])'
      BY <1>5, <2>3, <2>4, <2>6, AdvanceKeeps DEF AttemptCommit
    <2>8. pending' \in [Users -> Requests \cup {None}]
      BY <2>2, <2>3
    <2>9. QED
      BY <1>5, <2>7, <2>8 DEF AttemptCommit
  <1>6. CASE AttemptLost(c)
    <2> DEFINE state == [call[c] EXCEPT !.at = "attemptRead", !.entry = None, !.tries = @ + 1]
    <2>1. CASE Respond(c)
      BY <1>6, <2>1, RespondKeeps DEF AttemptLost
    <2>2. CASE ~Respond(c)
      <3>1. call' = [call EXCEPT ![c] = state]
        BY <1>6, <2>2 DEF AttemptLost
      <3>2. /\ call[c].user \in Users /\ call[c].npub \in Npubs
            /\ call[c].tries + 1 \in Nat
        BY <1>1, <1>6 DEF AttemptLost, CallStates, StageOK
      <3>3. state \in CallStates
        BY <1>1, <3>2 DEF CallStates, Stages
      <3>4. StageOK(state)
        BY <1>1, <3>2 DEF CallStates, StageOK
      <3>5. QED
        BY <1>6, <3>1, <3>3, <3>4, AdvanceKeeps DEF AttemptLost
    <2>3. QED
      BY <2>1, <2>2
  <1>7. CASE Compare(c)
    <2> DEFINE state == [call[c] EXCEPT !.at = "bind"]
    <2>1. CASE Respond(c)
      BY <1>7, <2>1, RespondKeeps DEF Compare
    <2>2. CASE ~Respond(c)
      <3>1. call' = [call EXCEPT ![c] = state] /\ call[c].at = "compare"
        BY <1>7, <2>2 DEF Compare
      <3>2. state \in CallStates
        BY <1>1 DEF CallStates, Stages
      <3>3. StageOK(state)
        BY <1>1, <3>1 DEF CallStates, StageOK
      <3>4. QED
        BY <1>7, <3>1, <3>2, <3>3, AdvanceKeeps DEF Compare
    <2>3. QED
      BY <2>1, <2>2
  <1>8. CASE SetNpub(c)
    <2> DEFINE state == [call[c] EXCEPT !.at = "cleanup"]
    <2>1. CASE Respond(c) /\ UNCHANGED npub
      BY <1>8, <2>1, RespondKeeps DEF SetNpub
    <2>2. CASE call' = [call EXCEPT ![c] = state]
               /\ npub' = [npub EXCEPT ![call[c].user] = call[c].npub]
      <3>1. call[c].user \in Users /\ call[c].npub \in Npubs
        BY <1>1, <1>8 DEF SetNpub, StageOK
      <3>2. state \in CallStates
        BY <1>1 DEF CallStates, Stages
      <3>3. StageOK(state)
        BY <1>1, <3>1 DEF CallStates, StageOK
      <3>4. call' \in [Calls -> CallStates] /\ \A d \in Calls : StageOK(call[d])'
        BY <1>8, <2>2, <3>2, <3>3, AdvanceKeeps DEF SetNpub
      <3>5. QED
        BY <1>8, <2>2, <3>1, <3>4 DEF SetNpub
    <2>3. QED
      BY <1>8, <2>1, <2>2 DEF SetNpub
  <1>9. CASE Cleanup(c)
    <2>1. call' \in [Calls -> CallStates] /\ \A d \in Calls : StageOK(call[d])'
      BY <1>9, RespondKeeps DEF Cleanup
    <2>2. QED
      BY <1>9, <2>1 DEF Cleanup
  <1>10. QED
    BY <1>2, <1>3, <1>4, <1>5, <1>6, <1>7, <1>8, <1>9 DEF AuthenticateStep

LEMMA NextTypeInv == TypeInv /\ [Next]_vars => TypeInv'
  <1> SUFFICES ASSUME TypeInv, [Next]_vars PROVE TypeInv'
    OBVIOUS
  <1>1. ASSUME NEW c \in Calls, SlotStep(c) PROVE TypeInv'
    BY <1>1, SlotStepTypeInv
  <1>2. ASSUME NEW c \in Calls, VerifyTokenStep(c) PROVE TypeInv'
    BY <1>2, VerifyTokenStepTypeInv
  <1>3. ASSUME NEW c \in Calls, AuthenticateStep(c) PROVE TypeInv'
    BY <1>3, AuthenticateStepTypeInv
  <1>4. ASSUME NEW c \in Calls, Abort(c) PROVE TypeInv'
    BY <1>4, RespondKeeps DEF Abort, TypeInv, TypeOK
  <1>5. ASSUME NEW u \in Users, KvExpire(u) PROVE TypeInv'
    BY <1>5 DEF KvExpire, TypeInv, TypeOK, StageOK
  <1>6. CASE Tick
    BY <1>6, ConstantsAssumption DEF Tick, TypeInv, TypeOK, StageOK
  <1>7. CASE UNCHANGED vars
    BY <1>7 DEF vars, TypeInv, TypeOK, StageOK
  <1>8. QED
    BY <1>1, <1>2, <1>3, <1>4, <1>5, <1>6, <1>7 DEF Next

LEMMA TypeInvariant == Spec => []TypeInv
  BY InitTypeInv, NextTypeInv, PTL DEF Spec

\* The store, MongoDB's npubs and every call's locals have their types, in
\* whatever order the awaits of verifyToken.ts and authenticate.ts resume.
THEOREM TypeCorrect == Spec => []TypeOK
  BY TypeInvariant, PTL DEF TypeInv

----------------------------------------------------------------------------
(* Counted submissions *)

(* What is held or stored was issued, to that user; the parts of             *)
(* EveryComparisonIsPaidFor follow from it by induction.                     *)
HeldIsOwned ==
    /\ \A u \in Users : pending[u] # None =>
           /\ pending[u].id \in 1 .. Len(issued)
           /\ issued[pending[u].id].user = u
    /\ \A c \in Calls : Holding(c) =>
           /\ call[c].entry.id \in 1 .. Len(issued)
           /\ issued[call[c].entry.id].user = call[c].user

CreditInv == HeldIsOwned /\ EveryComparisonIsPaidFor

(* A step that forgets requests or holders, and remembers every issue.       *)
LEMMA CreditFrame ==
    ASSUME TypeInv, TypeInv', CreditInv,
           \A u \in Users : pending'[u] \in {None, pending[u]},
           \A c \in Calls : Holding(c)' => /\ Holding(c)
                                           /\ call'[c].entry = call[c].entry
                                           /\ call'[c].user = call[c].user,
           Len(issued') >= Len(issued),
           \A i \in 1 .. Len(issued) : issued'[i].user = issued[i].user
    PROVE  CreditInv'
  <1>1. Len(issued) \in Nat /\ Len(issued') \in Nat
    BY DEF TypeInv, TypeOK
  <1>2. \A c \in Calls : Holding(c) => call[c].user \in Users
    BY DEF TypeInv, StageOK, Holding
  <1>3. HeldIsOwned'
    BY <1>1 DEF CreditInv, HeldIsOwned
  <1>4. EveryComparisonIsPaidFor'
    BY <1>2 DEF CreditInv, EveryComparisonIsPaidFor
  <1>5. QED
    BY <1>3, <1>4 DEF CreditInv

LEMMA CreateKeepsCredit ==
    ASSUME TypeInv, TypeInv', CreditInv, NEW c \in Calls, NEW code \in Codes,
           CreateTokenRequest(c, code)
    PROVE  CreditInv'
  <1> DEFINE u == call[c].user
             issue == [user |-> u, tickets |-> call[c].tickets]
  <1>1. /\ u \in Users /\ Len(issued) \in Nat /\ ~Holding(c)
        /\ issued \in Seq(Issues) /\ issue \in Issues
    BY DEF TypeInv, TypeOK, StageOK, CreateTokenRequest, CallStates, Issues, Holding
  <1>2. /\ issued' = Append(issued, issue)
        /\ pending'[u].id = Len(issued) + 1
        /\ \A v \in Users \ {u} : pending'[v] = pending[v]
        /\ ~Holding(c)'
        /\ \A d \in Calls \ {c} : call'[d] = call[d]
    BY <1>1 DEF CreateTokenRequest, TypeInv, TypeOK, Holding, CallStates
  <1>3. /\ Len(issued') = Len(issued) + 1
        /\ issued'[Len(issued) + 1].user = u
        /\ \A i \in 1 .. Len(issued) : issued'[i] = issued[i]
    BY <1>1, <1>2, AppendProperties
  <1>4. \A d \in Calls : Holding(d)' => Holding(d) /\ call'[d] = call[d] /\ call[d].user \in Users
    BY <1>2 DEF Holding, TypeInv, StageOK
  <1>5. HeldIsOwned'
    BY <1>1, <1>2, <1>3, <1>4 DEF CreditInv, HeldIsOwned
  <1>6. EveryComparisonIsPaidFor'
    <2>1. \A d \in Calls : Holding(d)' => call'[d].entry.id # pending'[u].id
      BY <1>1, <1>2, <1>4 DEF CreditInv, HeldIsOwned
    <2>2. QED
      BY <1>2, <1>4, <2>1 DEF CreditInv, EveryComparisonIsPaidFor
  <1>7. QED
    BY <1>5, <1>6 DEF CreditInv

LEMMA CommitKeepsCredit ==
    ASSUME TypeInv, TypeInv', CreditInv, NEW c \in Calls, AttemptCommit(c)
    PROVE  CreditInv'
  <1> DEFINE u == call[c].user
             r == call[c].entry
             reserved == [r EXCEPT !.attempts = @ + 1]
  <1>1. u \in Users /\ r \in Requests /\ r.attempts < MaxVerifyAttempts /\ pending[u] = r
    BY DEF TypeInv, StageOK, AttemptCommit
  <1>2. /\ r.attempts \in Nat /\ reserved.attempts = r.attempts + 1 /\ reserved.id = r.id
        /\ reserved.attempts \in 1 .. MaxVerifyAttempts /\ reserved # None
    <2>1. reserved \in Requests /\ reserved.attempts = r.attempts + 1 /\ reserved.id = r.id
          /\ r.attempts + 1 \in 1 .. MaxVerifyAttempts
      BY <1>1, CountedRequest
    <2>2. r.attempts \in Nat
      BY <1>1 DEF Requests
    <2>3. reserved # None
      BY <2>1, NoneAssumption
    <2>4. QED
      BY <2>1, <2>2, <2>3
  <1>3. /\ pending'[u] = reserved
        /\ \A v \in Users \ {u} : pending'[v] = pending[v]
        /\ call'[c].entry = reserved /\ call'[c].user = u
        /\ \A d \in Calls \ {c} : call'[d] = call[d]
        /\ issued' = issued
    BY <1>1 DEF AttemptCommit, TypeInv, TypeOK, CallStates
  <1>4. r # None
    BY <1>1, NoneAssumption
  <1> HIDE DEF reserved
  <1>5. HeldIsOwned'
    BY <1>1, <1>2, <1>3, <1>4 DEF CreditInv, HeldIsOwned, Holding
  (* Another holder of the same request has an earlier attempt. *)
  <1>6. ASSUME NEW d \in Calls \ {c}, Holding(d), call[d].entry.id = r.id
        PROVE  /\ call[d].user = u
               /\ call[d].entry.attempts <= r.attempts
               /\ call[d].entry.attempts \in Nat
    <2>1. issued[r.id].user = u /\ call[d].user = u
      BY <1>1, <1>4, <1>6 DEF CreditInv, HeldIsOwned
    <2>2. call[d].entry.attempts <= r.attempts
      BY <1>1, <1>4, <1>6, <2>1 DEF CreditInv, EveryComparisonIsPaidFor
    <2>3. call[d].entry \in Requests
      BY <1>6 DEF TypeInv, StageOK, Holding
    <2>4. QED
      BY <2>1, <2>2, <2>3 DEF Requests
  <1>7. \A d \in Calls \ {c} : Holding(d)' => Holding(d) /\ call'[d] = call[d]
    BY <1>3 DEF Holding
  <1>8. \A d \in Calls \ {c} : Holding(d) =>
            call[d].entry.id # reserved.id \/ call[d].entry.attempts < reserved.attempts
    BY <1>2, <1>6
  <1>9. EveryComparisonIsPaidFor'
    <2>1. ASSUME NEW d \in Calls, Holding(d)'
          PROVE  call'[d].entry.attempts \in 1 .. MaxVerifyAttempts
      BY <1>2, <1>3, <1>7, <2>1 DEF CreditInv, EveryComparisonIsPaidFor
    <2>2. ASSUME NEW d \in Calls, Holding(d)', pending'[call'[d].user] # None,
                 pending'[call'[d].user].id = call'[d].entry.id
          PROVE  call'[d].entry.attempts <= pending'[call'[d].user].attempts
      <3>1. CASE d = c
        BY <1>2, <1>3, <3>1
      <3>2. CASE d # c /\ call[d].user = u
        BY <1>2, <1>3, <1>6, <1>7, <2>2, <3>2
      <3>3. CASE d # c /\ call[d].user # u
        <4>1. call[d].user \in Users /\ Holding(d) /\ call'[d] = call[d]
          BY <1>7, <2>2, <3>3 DEF TypeInv, StageOK, Holding
        <4>2. pending'[call[d].user] = pending[call[d].user]
          BY <1>3, <3>3, <4>1
        <4>3. QED
          BY <2>2, <4>1, <4>2 DEF CreditInv, EveryComparisonIsPaidFor
      <3>4. QED
        BY <3>1, <3>2, <3>3
    <2>3. ASSUME NEW d \in Calls, NEW e \in Calls \ {d}, Holding(d)', Holding(e)'
          PROVE  \/ call'[d].entry.id # call'[e].entry.id
                 \/ call'[d].entry.attempts # call'[e].entry.attempts
      <3>1. CASE d = c
        BY <1>2, <1>3, <1>6, <1>7, <2>3, <3>1
      <3>2. CASE e = c
        BY <1>2, <1>3, <1>6, <1>7, <2>3, <3>2
      <3>3. CASE d # c /\ e # c
        BY <1>3, <1>7, <2>3, <3>3 DEF CreditInv, EveryComparisonIsPaidFor
      <3>4. QED
        BY <3>1, <3>2, <3>3
    <2>4. QED
      BY <2>1, <2>2, <2>3 DEF EveryComparisonIsPaidFor
  <1>10. QED
    BY <1>5, <1>9 DEF CreditInv

(* A step of one call after which it holds nothing it did not hold before.   *)
LEMMA ReleaseKeepsCredit ==
    ASSUME TypeInv, TypeInv', CreditInv, NEW c \in Calls,
           \A u \in Users : pending'[u] \in {None, pending[u]},
           \A d \in Calls \ {c} : call'[d] = call[d],
           Holding(c)' => /\ Holding(c)
                          /\ call'[c].entry = call[c].entry
                          /\ call'[c].user = call[c].user,
           UNCHANGED issued
    PROVE  CreditInv'
  <1>1. \A d \in Calls : Holding(d)' => /\ Holding(d)
                                        /\ call'[d].entry = call[d].entry
                                        /\ call'[d].user = call[d].user
    BY DEF Holding
  <1>2. Len(issued') >= Len(issued)
    BY DEF TypeInv, TypeOK
  <1>3. QED
    BY <1>1, <1>2, CreditFrame

LEMMA RespondReleases ==
    ASSUME TypeInv, NEW c \in Calls, Respond(c)
    PROVE  ~Holding(c)' /\ \A d \in Calls \ {c} : call'[d] = call[d]
  BY DEF TypeInv, TypeOK, Respond, NoCall, Holding

(* The actions that count no submission and create no request.               *)
OtherStep(c) ==
    \/ SlotStep(c) \/ AnswerPending(c) \/ LookupFree(c) \/ DropExpired(c)
    \/ \E u \in Users : VerifyToken(c, u)
    \/ \E u \in Users, k \in Npubs, s \in Submissions : Authenticate(c, u, k, s)
    \/ AttemptRead(c) \/ AttemptDrop(c) \/ AttemptLost(c) \/ Compare(c)
    \/ SendEmail(c) \/ SetNpub(c) \/ Cleanup(c) \/ Abort(c)

LEMMA OtherStepReleases ==
    ASSUME TypeInv, NEW c \in Calls, OtherStep(c)
    PROVE  /\ \A d \in Calls \ {c} : call'[d] = call[d]
           /\ UNCHANGED issued
           /\ \A u \in Users : pending'[u] \in {None, pending[u]}
           /\ Holding(c)' => /\ Holding(c)
                             /\ call'[c].entry = call[c].entry
                             /\ call'[c].user = call[c].user
  <1>1. call \in [Calls -> CallStates] /\ pending \in [Users -> Requests \cup {None}]
    BY DEF TypeInv, TypeOK
  <1>2. /\ \A d \in Calls \ {c} : call'[d] = call[d]
        /\ UNCHANGED issued
        /\ \A u \in Users : pending'[u] \in {None, pending[u]}
    BY <1>1 DEF OtherStep, SlotStep, SlotRead, SlotCommit, SlotLost, AnswerPending, LookupFree,
        DropExpired, VerifyToken, SendEmail, Authenticate, AttemptRead, AttemptDrop,
        AttemptLost, Compare, SetNpub, Cleanup, Abort, Respond
  <1>3. Holding(c)' => /\ Holding(c)
                       /\ call'[c].entry = call[c].entry
                       /\ call'[c].user = call[c].user
    <2>1. CASE Respond(c)
      BY <2>1, RespondReleases
    <2>2. CASE Compare(c)
      BY <1>1, <2>2, RespondReleases DEF Compare, Holding, CallStates
    <2>3. CASE SlotCommit(c)
      <3> DEFINE state == [call[c] EXCEPT !.tickets = @ \cup
                              {[key |-> call[c].key, count |-> call[c].seen + 1]}]
      <3>1. state.key = call[c].key /\ state \in CallStates
        <4>1. call[c].key \in SlotKeys /\ call[c].seen \in Nat /\ call[c] \in CallStates
          BY <1>1, <2>3 DEF CallStates, TypeInv, StageOK, SlotCommit
        <4>2. [key |-> call[c].key, count |-> call[c].seen + 1] \in Tickets
          BY <4>1 DEF Tickets
        <4>3. QED
          BY <4>1, <4>2 DEF CallStates
      <3>2. call[c].key.scope \in Scopes
        BY <2>3 DEF TypeInv, StageOK, SlotCommit, SlotKeys
      <3>3. AfterSlot(state).at \in {"slotRead", "create", "attemptRead"}
        BY <3>1, <3>2 DEF AfterSlot, EnterSlot, LeaveSlot, Scopes, CallStates
      <3>4. call'[c] = AfterSlot(state)
        BY <1>1, <2>3 DEF SlotCommit
      <3>5. QED
        BY <3>3, <3>4 DEF Holding
    <2>4. CASE SlotRead(c) \/ SlotLost(c) \/ AttemptRead(c) \/ AttemptLost(c)
      BY <1>1, <2>4, RespondReleases
      DEF SlotRead, SlotLost, AttemptRead, AttemptLost, Holding, CallStates
    <2>5. CASE SetNpub(c)
      BY <1>1, <2>5, RespondReleases DEF SetNpub, Holding, CallStates
    <2>6. CASE LookupFree(c) \/ DropExpired(c) \/ \E u \in Users : VerifyToken(c, u)
      <3>1. call[c] \in CallStates
        BY <1>1
      <3>2. EnterSlot(call[c], "user").at = "slotRead"
        BY <3>1 DEF EnterSlot, CallStates
      <3>3. QED
        BY <1>1, <2>6, <3>1, <3>2 DEF LookupFree, DropExpired, VerifyToken, Holding, CallStates
    <2>7. ASSUME NEW u \in Users, NEW k \in Npubs, NEW s \in Submissions, Authenticate(c, u, k, s)
          PROVE  ~Holding(c)'
      <3> DEFINE state == [call[c] EXCEPT !.user = u, !.npub = k, !.code = s.code,
                                          !.token = s.token]
      <3>1. call[c] \in CallStates
        BY <1>1
      <3>2. /\ EnterSlot(state, "guess").at = "slotRead"
            /\ [state EXCEPT !.at = "attemptRead"].at = "attemptRead"
        BY <3>1 DEF EnterSlot, CallStates
      <3>3. call'[c].at \in {"slotRead", "attemptRead"}
        BY <1>1, <2>7, <3>2 DEF Authenticate
      <3>4. QED
        BY <3>3 DEF Holding
    <2>8. QED
      BY <2>1, <2>2, <2>3, <2>4, <2>5, <2>6, <2>7
      DEF OtherStep, SlotStep, AnswerPending, SendEmail, AttemptDrop, Cleanup, Abort
  <1>4. QED
    BY <1>2, <1>3

LEMMA OthersKeepCredit ==
    ASSUME TypeInv, TypeInv', CreditInv, NEW c \in Calls, OtherStep(c)
    PROVE  CreditInv'
  BY OtherStepReleases, ReleaseKeepsCredit

LEMMA NextCreditInv == TypeInv /\ TypeInv' /\ CreditInv /\ [Next]_vars => CreditInv'
  <1> SUFFICES ASSUME TypeInv, TypeInv', CreditInv, [Next]_vars PROVE CreditInv'
    OBVIOUS
  <1>1. ASSUME NEW c \in Calls,
               SlotStep(c) \/ VerifyTokenStep(c) \/ AuthenticateStep(c) \/ Abort(c)
        PROVE  CreditInv'
    <2>1. CASE \E code \in Codes : CreateTokenRequest(c, code)
      BY <2>1, CreateKeepsCredit
    <2>2. CASE AttemptCommit(c)
      BY <2>2, CommitKeepsCredit
    <2>3. QED
      BY <1>1, <2>1, <2>2, OthersKeepCredit DEF VerifyTokenStep, AuthenticateStep, OtherStep
  <1>2. ASSUME UNCHANGED <<call, issued>>,
               \A u \in Users : pending'[u] \in {None, pending[u]}
        PROVE  CreditInv'
    <2>1. Len(issued') >= Len(issued)
      BY <1>2 DEF TypeInv, TypeOK
    <2>2. QED
      BY <1>2, <2>1, CreditFrame DEF Holding
  <1>3. ASSUME NEW u \in Users, KvExpire(u) PROVE CreditInv'
    BY <1>2, <1>3 DEF KvExpire, TypeInv, TypeOK
  <1>4. CASE Tick
    BY <1>2, <1>4 DEF Tick
  <1>5. CASE UNCHANGED vars
    BY <1>2, <1>5 DEF vars
  <1>6. QED
    BY <1>1, <1>3, <1>4, <1>5 DEF Next

LEMMA CreditInvariant == Spec => [](TypeInv /\ CreditInv)
  <1>1. Init => CreditInv
    BY DEF Init, CreditInv, HeldIsOwned, EveryComparisonIsPaidFor, Holding, NoCall
  <1>2. QED
    BY <1>1, InitTypeInv, NextTypeInv, NextCreditInv, PTL DEF Spec

\* authenticate.ts compares a submission only after reserveVerifyAttempt has
\* counted it: for any number of calls, accounts and codes and any limits, a
\* compared submission has an attempt to itself, within MAX_VERIFY_ATTEMPTS.
THEOREM ComparisonsArePaidFor == Spec => []EveryComparisonIsPaidFor
  BY CreditInvariant, PTL DEF CreditInv

\* No interleaving of the deletes, the overwrite and the compare-and-set in
\* kv.ts revives a request, extends it or hands back an attempt.
THEOREM RequestsLiveOnce == Spec => RequestLivesOnce
  <1>1. ASSUME TypeInv, NEW c \in Calls, NEW code \in Codes, CreateTokenRequest(c, code)
        PROVE  CountsOrReplaces
    <2>1. /\ pending \in [Users -> Requests \cup {None}]
          /\ Len(issued) \in Nat
          /\ pending' = [pending EXCEPT ![call[c].user] =
                 [id |-> Len(issued) + 1, code |-> code, attempts |-> 0,
                  expiresAt |-> now + TokenExpiry]]
      BY <1>1 DEF TypeInv, TypeOK, CreateTokenRequest
    <2>2. Len(issued') = Len(issued) + 1
      BY <1>1 DEF TypeInv, TypeOK, CreateTokenRequest
    <2>3. QED
      BY <2>1, <2>2 DEF CountsOrReplaces
  <1>2. ASSUME TypeInv, NEW c \in Calls, AttemptCommit(c)
        PROVE  CountsOrReplaces
    <2>1. /\ pending[call[c].user] = call[c].entry /\ call[c].entry # None
          /\ pending' = [pending EXCEPT ![call[c].user] =
                              [call[c].entry EXCEPT !.attempts = @ + 1]]
      BY <1>2, NoneAssumption DEF TypeInv, StageOK, AttemptCommit
    <2>2. QED
      BY <1>2, <2>1 DEF TypeInv, TypeOK, CountsOrReplaces
  <1>3. ASSUME TypeInv, \A u \in Users : pending'[u] \in {None, pending[u]}
        PROVE  CountsOrReplaces
    BY <1>3 DEF CountsOrReplaces
  <1>4. TypeInv /\ [Next]_vars => CountsOrReplaces
    <2> SUFFICES ASSUME TypeInv, [Next]_vars PROVE CountsOrReplaces
      OBVIOUS
    <2>1. CASE \E c \in Calls, code \in Codes : CreateTokenRequest(c, code)
      BY <1>1, <2>1
    <2>2. CASE \E c \in Calls : AttemptCommit(c)
      BY <1>2, <2>2
    <2>3. QED
      BY <1>3, <2>1, <2>2
      DEF Next, SlotStep, VerifyTokenStep, AuthenticateStep, SlotRead, SlotCommit, SlotLost,
          AnswerPending, LookupFree, DropExpired, VerifyToken, SendEmail, Authenticate,
          AttemptRead, AttemptDrop, AttemptLost, Compare, SetNpub, Cleanup, Abort, KvExpire,
          Tick, vars, TypeInv, TypeOK
  <1>5. QED
    BY <1>4, TypeInvariant, PTL DEF Spec, RequestLivesOnce

----------------------------------------------------------------------------
(* nr-bridge keeps LinkLedger's promise: the refinement proved.  The       *)
(* e-mails it sends are paid for with rate-limit slots.                    *)

(* The mapping, named. *)
OpenOf(u) == IF pending[u] = None THEN None
             ELSE [id |-> pending[u].id, attempts |-> pending[u].attempts]

Open == [u \in Users |-> OpenOf(u)]

CreditOf(c) == [user |-> call[c].user, id |-> call[c].entry.id,
                attempt |-> call[c].entry.attempts]

Holders == {d \in Calls : Holding(d)}

Credits == {CreditOf(c) : c \in Holders}

(* A call that holds a credit before and after holds the same one. *)
KeepsHolding(d) == /\ Holding(d) <=> Holding(d)'
                   /\ Holding(d) => CreditOf(d)' = CreditOf(d)

LEMMA CreditsStay ==
    ASSUME \A d \in Calls : KeepsHolding(d)
    PROVE  Credits' = Credits
  <1>1. Credits' \subseteq Credits
    BY DEF Credits, Holders, KeepsHolding
  <1>2. Credits \subseteq Credits'
    <2> SUFFICES ASSUME NEW d \in Calls, Holding(d) PROVE CreditOf(d) \in Credits'
      BY DEF Credits, Holders
    <2>1. Holding(d)' /\ CreditOf(d)' = CreditOf(d)
      BY DEF KeepsHolding
    <2>2. CreditOf(d)' \in Credits'
      BY <2>1 DEF Credits, Holders
    <2>3. QED
      BY <2>1, <2>2
  <1>3. QED
    BY <1>1, <1>2

(* Credits are told apart by their calls: no two calls hold the same one. *)
LEMMA CreditsDiffer ==
    ASSUME EveryComparisonIsPaidFor, NEW c \in Calls, NEW d \in Calls, c # d,
           Holding(c), Holding(d)
    PROVE  CreditOf(c) # CreditOf(d)
  BY DEF EveryComparisonIsPaidFor, CreditOf

LEMMA CreditSpent ==
    ASSUME EveryComparisonIsPaidFor, NEW c \in Calls, Holding(c), ~Holding(c)',
           \A d \in Calls \ {c} : KeepsHolding(d)
    PROVE  CreditOf(c) \in Credits /\ Credits' = Credits \ {CreditOf(c)}
  <1>1. CreditOf(c) \in Credits
    BY DEF Credits, Holders
  <1>2. Credits' \subseteq Credits \ {CreditOf(c)}
    <2> SUFFICES ASSUME NEW d \in Calls, Holding(d)'
                 PROVE  CreditOf(d)' \in Credits \ {CreditOf(c)}
      BY DEF Credits, Holders
    <2>1. d # c /\ Holding(d) /\ CreditOf(d)' = CreditOf(d)
      BY DEF KeepsHolding
    <2>2. CreditOf(d) # CreditOf(c)
      BY <2>1, CreditsDiffer
    <2>3. QED
      BY <2>1, <2>2 DEF Credits, Holders
  <1>3. Credits \ {CreditOf(c)} \subseteq Credits'
    <2> SUFFICES ASSUME NEW d \in Calls, Holding(d), CreditOf(d) # CreditOf(c)
                 PROVE  CreditOf(d) \in Credits'
      BY DEF Credits, Holders
    <2>1. d # c /\ Holding(d)' /\ CreditOf(d)' = CreditOf(d)
      BY DEF KeepsHolding
    <2>2. CreditOf(d)' \in Credits'
      BY <2>1 DEF Credits, Holders
    <2>3. QED
      BY <2>1, <2>2
  <1>4. QED
    BY <1>1, <1>2, <1>3

LEMMA CreditBought ==
    ASSUME NEW c \in Calls, ~Holding(c), Holding(c)',
           \A d \in Calls \ {c} : KeepsHolding(d)
    PROVE  Credits' = Credits \cup {CreditOf(c)'}
  <1>1. Credits' \subseteq Credits \cup {CreditOf(c)'}
    BY DEF Credits, Holders, KeepsHolding
  <1>2. CreditOf(c)' \in Credits'
    BY DEF Credits, Holders
  <1>3. Credits \subseteq Credits'
    <2> SUFFICES ASSUME NEW d \in Calls, Holding(d) PROVE CreditOf(d) \in Credits'
      BY DEF Credits, Holders
    <2>1. d # c /\ Holding(d)' /\ CreditOf(d)' = CreditOf(d)
      BY DEF KeepsHolding
    <2>2. CreditOf(d)' \in Credits'
      BY <2>1 DEF Credits, Holders
    <2>3. QED
      BY <2>1, <2>2
  <1>4. QED
    BY <1>1, <1>2, <1>3

LEMMA OthersKeepHolding ==
    ASSUME NEW c \in Calls, \A d \in Calls \ {c} : call'[d] = call[d]
    PROVE  \A d \in Calls \ {c} : KeepsHolding(d)
  BY DEF KeepsHolding, Holding, CreditOf

(* The mapping is the one in the statement of Ledger. *)
LEMMA LedgerInit == Init => Ledger!Init
  <1> SUFFICES ASSUME Init PROVE Ledger!Init
    OBVIOUS
  <1>1. \A c \in Calls : ~Holding(c)
    BY DEF Init, Holding, NoCall
  <1>2. Len(issued) = 0
    BY DEF Init
  <1>3. QED
    BY <1>1, <1>2 DEF Init, Ledger!Init

(* Nothing the ledger sees changes. *)
LEMMA LedgerStutters ==
    ASSUME \A d \in Calls : KeepsHolding(d), UNCHANGED <<pending, npub, issued>>
    PROVE  UNCHANGED Ledger!ledgerVars
  <1>1. Credits' = Credits
    BY CreditsStay
  <1>2. QED
    BY <1>1 DEF Credits, Holders, CreditOf, Ledger!ledgerVars

LEMMA IssueStep ==
    ASSUME TypeInv, NEW c \in Calls, NEW code \in Codes, CreateTokenRequest(c, code)
    PROVE  \E u \in Users : Ledger!Issue(u)
  <1> PICK u \in Users : u = call[c].user
    BY DEF TypeInv, TypeOK, StageOK, CreateTokenRequest
  <1>1. /\ Len(issued) \in Nat
        /\ pending \in [Users -> Requests \cup {None}]
        /\ issued \in Seq(Issues) /\ call[c].tickets \in SUBSET Tickets
    BY DEF TypeInv, TypeOK, StageOK, CreateTokenRequest, CallStates
  <1>2. Len(issued') = Len(issued) + 1
    <2> DEFINE issue == [user |-> u, tickets |-> call[c].tickets]
    <2>1. issue \in Issues
      BY <1>1 DEF Issues
    <2>2. issued' = Append(issued, issue)
      BY DEF CreateTokenRequest
    <2>3. QED
      BY <1>1, <2>1, <2>2, AppendProperties
  <1>3. \A d \in Calls : KeepsHolding(d)
    <2>1. \A d \in Calls \ {c} : call'[d] = call[d]
      BY DEF CreateTokenRequest, TypeInv, TypeOK
    <2>2. ~Holding(c) /\ ~Holding(c)'
      BY DEF CreateTokenRequest, TypeInv, TypeOK, Holding, CallStates
    <2>3. QED
      BY <2>1, <2>2, OthersKeepHolding DEF KeepsHolding
  <1>4. Credits' = Credits
    BY <1>3, CreditsStay
  <1>5. Open' = [Open EXCEPT ![u] = [id |-> Len(issued) + 1, attempts |-> 0]]
    <2> DEFINE r == [id |-> Len(issued) + 1, code |-> code, attempts |-> 0,
                     expiresAt |-> now + TokenExpiry]
    <2>1. r \in Requests /\ r # None
      BY <1>1, ConstantsAssumption, NoneAssumption DEF Requests, TypeInv, TypeOK
    <2>2. pending' = [pending EXCEPT ![u] = r]
      BY DEF CreateTokenRequest
    <2>3. OpenOf(u)' = [id |-> Len(issued) + 1, attempts |-> 0]
      BY <1>1, <2>1, <2>2 DEF OpenOf
    <2>4. \A v \in Users \ {u} : OpenOf(v)' = OpenOf(v)
      BY <1>1, <2>2 DEF OpenOf
    <2>5. QED
      BY <1>1, <2>3, <2>4 DEF Open
  <1>6. UNCHANGED npub
    BY DEF CreateTokenRequest
  <1>7. QED
    BY <1>1, <1>2, <1>4, <1>5, <1>6
    DEF Ledger!Issue, Open, OpenOf, Credits, Holders, CreditOf

(* A step that at most forgets one account's request. *)
LEMMA CloseStep ==
    ASSUME TypeInv, NEW u \in Users, pending' = [pending EXCEPT ![u] = None],
           \A d \in Calls : KeepsHolding(d), UNCHANGED <<npub, issued>>
    PROVE  Ledger!Close(u)
  <1>1. Credits' = Credits
    BY CreditsStay
  <1>2. Open' = [Open EXCEPT ![u] = None]
    BY DEF Open, OpenOf, TypeInv, TypeOK
  <1>3. QED
    BY <1>1, <1>2 DEF Ledger!Close, Open, OpenOf, Credits, Holders, CreditOf

LEMMA CountStep ==
    ASSUME TypeInv, TypeInv', CreditInv, NEW c \in Calls, AttemptCommit(c)
    PROVE  \E u \in Users : Ledger!Count(u)
  <1> PICK u \in Users : u = call[c].user
    BY DEF TypeInv, TypeOK, StageOK, AttemptCommit
  <1>1. /\ call[c] \in CallStates /\ call \in [Calls -> CallStates]
        /\ pending \in [Users -> Requests \cup {None}]
        /\ call[c].entry \in Requests /\ pending[u] = call[c].entry
        /\ call[c].entry.attempts < MaxVerifyAttempts
        /\ ~Holding(c)
    BY DEF TypeInv, TypeOK, StageOK, AttemptCommit, Holding
  <1> PICK r \in Requests : r = call[c].entry
    BY <1>1
  <1> DEFINE s == [r EXCEPT !.attempts = @ + 1]
  <1>2. /\ s \in Requests /\ s.id = r.id /\ s.attempts = r.attempts + 1
        /\ pending[u] = r /\ r # None /\ s # None /\ r.attempts \in Nat
    BY <1>1, CountedRequest, ConstantsAssumption, NoneAssumption DEF Requests
  <1>3. pending' = [pending EXCEPT ![u] = s] /\ UNCHANGED <<npub, issued>>
    BY DEF AttemptCommit
  <1>4. /\ \A d \in Calls \ {c} : call'[d] = call[d]
        /\ call'[c].at = "compare" /\ call'[c].entry = s /\ call'[c].user = u
    BY <1>1 DEF AttemptCommit, CallStates
  <1> HIDE DEF s
  <1>5. Holding(c)' /\ CreditOf(c)' = [user |-> u, id |-> r.id, attempt |-> r.attempts + 1]
    BY <1>2, <1>4 DEF Holding, CreditOf
  <1>6. Credits' = Credits \cup {[user |-> u, id |-> r.id, attempt |-> r.attempts + 1]}
    BY <1>1, <1>4, <1>5, OthersKeepHolding, CreditBought
  <1>7. [user |-> u, id |-> r.id, attempt |-> r.attempts + 1] \notin Credits
    <2> SUFFICES ASSUME NEW d \in Calls, Holding(d), call[d].user = u,
                        call[d].entry.id = r.id, call[d].entry.attempts = r.attempts + 1
                 PROVE  FALSE
      BY DEF Credits, Holders, CreditOf
    <2>1. r.attempts + 1 <= r.attempts
      BY <1>2 DEF CreditInv, EveryComparisonIsPaidFor
    <2>2. QED
      BY <1>2, <2>1
  <1>8. OpenOf(u) = [id |-> r.id, attempts |-> r.attempts]
    BY <1>2 DEF OpenOf
  <1>9. Open' = [Open EXCEPT ![u] = [id |-> r.id, attempts |-> r.attempts + 1]]
    <2>1. OpenOf(u)' = [id |-> r.id, attempts |-> r.attempts + 1]
      BY <1>1, <1>2, <1>3 DEF OpenOf
    <2>2. \A v \in Users \ {u} : OpenOf(v)' = OpenOf(v)
      BY <1>1, <1>3 DEF OpenOf
    <2>3. QED
      BY <2>1, <2>2 DEF Open
  <1>10. Open[u] = [id |-> r.id, attempts |-> r.attempts] /\ Open[u] # None
    <2>1. [id |-> r.id, attempts |-> r.attempts] \in [id : Nat, attempts : Nat]
      BY <1>2 DEF Requests
    <2>2. QED
      BY <1>8, <2>1, NoneAssumption DEF Open
  <1>11. Ledger!Count(u)
    BY <1>1, <1>2, <1>3, <1>6, <1>7, <1>9, <1>10
    DEF Ledger!Count, Open, OpenOf, Credits, Holders, CreditOf
  <1>12. QED
    BY <1>11

(* A call that gives up its credit without linking. *)
LEMMA ForfeitStep ==
    ASSUME EveryComparisonIsPaidFor, NEW c \in Calls, Holding(c), ~Holding(c)',
           \A d \in Calls \ {c} : call'[d] = call[d],
           UNCHANGED <<pending, npub, issued>>
    PROVE  \E credit \in Credits : Ledger!Forfeit(credit)
  <1>1. CreditOf(c) \in Credits /\ Credits' = Credits \ {CreditOf(c)}
    BY CreditSpent, OthersKeepHolding
  <1> PICK credit \in Credits : credit = CreditOf(c)
    BY <1>1
  <1>2. Ledger!Forfeit(credit)
    BY <1>1 DEF Ledger!Forfeit, Credits, Holders, CreditOf
  <1>3. QED
    BY <1>2

LEMMA LinkStep ==
    ASSUME TypeInv, CreditInv, NEW c \in Calls, SetNpub(c),
           npub' = [npub EXCEPT ![call[c].user] = call[c].npub]
    PROVE  \E credit \in Credits, k \in Npubs : Ledger!Link(credit, k)
  <1>1. /\ \A d \in Calls \ {c} : call'[d] = call[d]
        /\ Holding(c) /\ ~Holding(c)'
        /\ call[c].npub \in Npubs
        /\ UNCHANGED <<pending, issued>>
    BY RespondReleases DEF SetNpub, TypeInv, TypeOK, StageOK, Holding, CallStates, Respond
  <1>2. CreditOf(c) \in Credits /\ Credits' = Credits \ {CreditOf(c)}
    BY <1>1, CreditSpent, OthersKeepHolding DEF CreditInv
  <1> PICK credit \in Credits : credit = CreditOf(c)
    BY <1>2
  <1> PICK k \in Npubs : k = call[c].npub
    BY <1>1
  <1>3. credit.user = call[c].user
    BY DEF CreditOf
  <1>4. Ledger!Link(credit, k)
    BY <1>1, <1>2, <1>3 DEF Ledger!Link, Credits, Holders, CreditOf
  <1>5. QED
    BY <1>4

(* One step of the ledger, whichever action takes it. *)
LEMMA LedgerMoves ==
    ASSUME \/ \E u \in Users : Ledger!Issue(u) \/ Ledger!Close(u) \/ Ledger!Count(u)
           \/ \E credit \in Credits :
                  \/ Ledger!Forfeit(credit)
                  \/ \E k \in Npubs : Ledger!Link(credit, k)
    PROVE  Ledger!Next
  BY DEF Ledger!Next, Credits, Holders, CreditOf

(* A call that is not judging a submission, before and after the step. *)
LEMMA CreditUntouched ==
    ASSUME NEW c \in Calls, ~Holding(c), ~Holding(c)',
           \A d \in Calls \ {c} : call'[d] = call[d]
    PROVE  \A d \in Calls : KeepsHolding(d)
  BY OthersKeepHolding DEF KeepsHolding

(* A step of an account's call that may forget the account's request. *)
LEMMA ForgetStep ==
    ASSUME TypeInv, NEW c \in Calls, DropExpired(c) \/ AttemptDrop(c) \/ Cleanup(c)
    PROVE  [Ledger!Next]_(Ledger!ledgerVars)
  <1> PICK u \in Users : u = call[c].user
    BY DEF TypeInv, StageOK, DropExpired, AttemptDrop, Cleanup
  <1>1. OtherStep(c) /\ ~Holding(c)
    BY DEF OtherStep, DropExpired, AttemptDrop, Cleanup, Holding
  <1>2. \A d \in Calls : KeepsHolding(d)
    BY <1>1, OtherStepReleases, CreditUntouched
  <1>3. UNCHANGED <<npub, issued>>
    BY DEF DropExpired, AttemptDrop, Cleanup
  <1>4. CASE pending' = [pending EXCEPT ![u] = None]
    BY <1>2, <1>3, <1>4, CloseStep, LedgerMoves
  <1>5. CASE pending' = pending
    BY <1>2, <1>3, <1>5, LedgerStutters
  <1>6. pending' = [pending EXCEPT ![u] = None] \/ pending' = pending
    BY DEF DropExpired, AttemptDrop, Cleanup, TypeInv, TypeOK
  <1>7. QED
    BY <1>4, <1>5, <1>6

(* The steps that judge a submission: compare it, link, or give up. *)
LEMMA JudgeStep ==
    ASSUME TypeInv, CreditInv, NEW c \in Calls, Holding(c),
           Compare(c) \/ SetNpub(c) \/ Abort(c)
    PROVE  [Ledger!Next]_(Ledger!ledgerVars)
  <1>1. OtherStep(c)
    BY DEF OtherStep
  <1>2. \A d \in Calls \ {c} : call'[d] = call[d]
    BY <1>1, OtherStepReleases
  <1>3. CASE Respond(c) /\ UNCHANGED npub
    <2>1. ~Holding(c)' /\ UNCHANGED <<pending, npub, issued>>
      BY <1>3, RespondReleases DEF Compare, SetNpub, Abort
    <2>2. QED
      BY <1>2, <2>1, ForfeitStep, LedgerMoves DEF CreditInv
  <1>4. CASE Compare(c) /\ call' = [call EXCEPT ![c].at = "bind"]
    <2>1. Holding(c)' /\ CreditOf(c)' = CreditOf(c)
      BY <1>4 DEF TypeInv, TypeOK, CallStates, Holding, CreditOf
    <2>2. \A d \in Calls : KeepsHolding(d)
      BY <1>2, <2>1, OthersKeepHolding DEF KeepsHolding
    <2>3. QED
      BY <1>4, <2>2, LedgerStutters DEF Compare
  <1>5. CASE SetNpub(c) /\ npub' = [npub EXCEPT ![call[c].user] = call[c].npub]
    BY <1>5, LinkStep, LedgerMoves
  <1>6. QED
    BY <1>3, <1>4, <1>5 DEF Compare, SetNpub, Abort

(* The steps that neither hold a credit nor touch a request. *)
LEMMA QuietStep ==
    ASSUME TypeInv, NEW c \in Calls, OtherStep(c), ~Holding(c),
           ~(DropExpired(c) \/ AttemptDrop(c) \/ Cleanup(c))
    PROVE  UNCHANGED Ledger!ledgerVars
  <1>1. \A d \in Calls : KeepsHolding(d)
    BY OtherStepReleases, CreditUntouched
  <1>2. UNCHANGED <<pending, npub, issued>>
    BY DEF OtherStep, SlotStep, SlotRead, SlotCommit, SlotLost, AnswerPending, LookupFree,
       VerifyToken, SendEmail, Authenticate, AttemptRead, AttemptLost, Compare, SetNpub,
       Abort, Holding
  <1>3. QED
    BY <1>1, <1>2, LedgerStutters

LEMMA LedgerStep ==
    TypeInv /\ TypeInv' /\ CreditInv /\ [Next]_vars => [Ledger!Next]_(Ledger!ledgerVars)
  <1> SUFFICES ASSUME TypeInv, TypeInv', CreditInv, [Next]_vars
               PROVE  [Ledger!Next]_(Ledger!ledgerVars)
    OBVIOUS
  <1>1. ASSUME NEW c \in Calls, OtherStep(c)
        PROVE  [Ledger!Next]_(Ledger!ledgerVars)
    <2>1. CASE DropExpired(c) \/ AttemptDrop(c) \/ Cleanup(c)
      BY <2>1, ForgetStep
    <2>2. CASE Holding(c)
      <3>1. Compare(c) \/ SetNpub(c) \/ Abort(c)
        BY <1>1, <2>2 DEF OtherStep, SlotStep, SlotRead, SlotCommit, SlotLost, AnswerPending,
           LookupFree, DropExpired, VerifyToken, SendEmail, Authenticate, AttemptRead,
           AttemptDrop, AttemptLost, Cleanup, Holding
      <3>2. QED
        BY <2>2, <3>1, JudgeStep
    <2>3. CASE ~Holding(c) /\ ~(DropExpired(c) \/ AttemptDrop(c) \/ Cleanup(c))
      BY <1>1, <2>3, QuietStep
    <2>4. QED
      BY <2>1, <2>2, <2>3
  <1>2. ASSUME NEW c \in Calls, NEW code \in Codes, CreateTokenRequest(c, code)
        PROVE  [Ledger!Next]_(Ledger!ledgerVars)
    BY <1>2, IssueStep, LedgerMoves
  <1>3. ASSUME NEW c \in Calls, AttemptCommit(c)
        PROVE  [Ledger!Next]_(Ledger!ledgerVars)
    BY <1>3, CountStep, LedgerMoves
  <1>4. ASSUME call' = call PROVE \A d \in Calls : KeepsHolding(d)
    BY <1>4 DEF KeepsHolding, Holding, CreditOf
  <1>5. ASSUME NEW u \in Users, KvExpire(u)
        PROVE  [Ledger!Next]_(Ledger!ledgerVars)
    BY <1>4, <1>5, CloseStep, LedgerMoves DEF KvExpire
  <1>6. CASE Tick
    BY <1>4, <1>6, LedgerStutters DEF Tick
  <1>7. CASE UNCHANGED vars
    BY <1>4, <1>7, LedgerStutters DEF vars
  <1>8. QED
    BY <1>1, <1>2, <1>3, <1>5, <1>6, <1>7
    DEF Next, VerifyTokenStep, AuthenticateStep, OtherStep

\* verifyToken.ts and authenticate.ts, run by any number of calls whose awaits
\* interleave, implement LinkLedger: a public key is linked to an account only
\* by spending one counted submission of a request issued for that account.
THEOREM LedgerIsKept == Spec => KeepsLedger
  BY CreditInvariant, LedgerInit, LedgerStep, PTL DEF Spec, KeepsLedger, Ledger!Spec

----------------------------------------------------------------------------
(* Tickets: the slots a call has paid for *)

HoldsUserSlot(user, tickets) ==
    \E t \in tickets : t.key.scope = "user" /\ t.key.user = user

HoldsGlobalSlot(tickets) == \E t \in tickets : t.key.scope = "global"

(* What a call on its way to createTokenRequest has paid for so far. *)
StagePaid(state) ==
    /\ state.at \in {"slotRead", "slotCommit"} =>
           /\ state.key.scope = "user" => state.key.user = state.user
           /\ state.key.scope = "global" => HoldsUserSlot(state.user, state.tickets)
    /\ state.at = "create" => /\ HoldsUserSlot(state.user, state.tickets)
                              /\ HoldsGlobalSlot(state.tickets)

(* A slot that was granted: within its limit and counted. *)
Granted(t) == t.count \in 1 .. Limit(t.key.scope) /\ t.count <= slots[t.key]

TicketsGranted ==
    /\ \A c \in Calls : \A t \in call[c].tickets : Granted(t)
    /\ \A i \in DOMAIN issued : \A t \in issued[i].tickets : Granted(t)

TicketsPaid ==
    /\ \A c \in Calls : StagePaid(call[c])
    /\ \A i \in DOMAIN issued : /\ HoldsUserSlot(issued[i].user, issued[i].tickets)
                                /\ HoldsGlobalSlot(issued[i].tickets)

(* No slot is spent twice, by calls in progress or by requests. *)
TicketsApart ==
    /\ \A c \in Calls : \A d \in Calls \ {c} : call[c].tickets \cap call[d].tickets = {}
    /\ \A c \in Calls : \A i \in DOMAIN issued : call[c].tickets \cap issued[i].tickets = {}
    /\ \A i, j \in DOMAIN issued : i # j => issued[i].tickets \cap issued[j].tickets = {}

TicketInv == TicketsGranted /\ TicketsPaid /\ TicketsApart

LEMMA InitTicketInv == Init => TicketInv
  BY DEF Init, NoCall, TicketInv, TicketsGranted, TicketsPaid, TicketsApart, StagePaid

(* A step that raises no counter and grants no slot. *)
LEMMA TicketFrame ==
    ASSUME TypeInv, TicketInv, UNCHANGED <<slots, issued>>,
           \A c \in Calls : call'[c].tickets \subseteq call[c].tickets,
           \A c \in Calls : StagePaid(call[c])'
    PROVE  TicketInv'
  <1>1. TicketsGranted'
    BY DEF TicketInv, TicketsGranted, Granted
  <1>2. TicketsPaid'
    BY DEF TicketInv, TicketsPaid
  <1>3. TicketsApart'
    BY DEF TicketInv, TicketsApart
  <1>4. QED
    BY <1>1, <1>2, <1>3 DEF TicketInv

LEMMA RespondKeepsTickets ==
    ASSUME TypeInv, TicketInv, NEW c \in Calls, Respond(c), UNCHANGED <<slots, issued>>
    PROVE  TicketInv'
  <1>1. /\ call'[c] = NoCall /\ NoCall.tickets = {} /\ NoCall.at = "idle"
        /\ \A d \in Calls \ {c} : call'[d] = call[d]
    BY DEF Respond, TypeInv, TypeOK, NoCall
  <1>2. \A d \in Calls : StagePaid(call[d])'
    BY <1>1 DEF TicketInv, TicketsPaid, StagePaid
  <1>3. QED
    BY <1>1, <1>2, TicketFrame

LEMMA AdvanceKeepsTickets ==
    ASSUME TypeInv, TicketInv, NEW c \in Calls, NEW state, state.tickets = call[c].tickets,
           StagePaid(state), call' = [call EXCEPT ![c] = state], UNCHANGED <<slots, issued>>
    PROVE  TicketInv'
  <1>1. call'[c] = state /\ \A d \in Calls \ {c} : call'[d] = call[d]
    BY DEF TypeInv, TypeOK
  <1>2. \A d \in Calls : StagePaid(call[d])'
    BY <1>1 DEF TicketInv, TicketsPaid, StagePaid
  <1>3. QED
    BY <1>1, <1>2, TicketFrame

LEMMA EnterSlotPaid ==
    ASSUME NEW state \in CallStates, NEW scope \in Scopes,
           scope = "global" => HoldsUserSlot(state.user, state.tickets)
    PROVE  /\ EnterSlot(state, scope).tickets = state.tickets
           /\ StagePaid(EnterSlot(state, scope))
  <1>1. /\ EnterSlot(state, scope).at = "slotRead"
        /\ EnterSlot(state, scope).key = SlotKey(scope, state.user)
        /\ EnterSlot(state, scope).user = state.user
        /\ EnterSlot(state, scope).tickets = state.tickets
    BY DEF EnterSlot, CallStates
  <1>2. /\ SlotKey(scope, state.user).scope = scope
        /\ scope = "user" => SlotKey(scope, state.user).user = state.user
    BY DEF SlotKey
  <1>3. QED
    BY <1>1, <1>2 DEF StagePaid

(* The compare-and-set grants a slot no one else holds. *)
LEMMA CommitKeepsTickets ==
    ASSUME TypeInv, TicketInv, NEW c \in Calls, SlotCommit(c)
    PROVE  TicketInv'
  <1> PICK key \in SlotKeys : key = call[c].key
    BY DEF TypeInv, StageOK, SlotCommit
  <1> PICK n \in Nat : n = call[c].seen
    BY DEF TypeInv, TypeOK, CallStates
  <1> DEFINE ticket == [key |-> key, count |-> n + 1]
             before == [call[c] EXCEPT !.tickets = @ \cup {ticket}]
  <1>1. /\ n < Limit(key.scope) /\ slots[key] = n /\ call[c].at = "slotCommit"
        /\ call[c] \in CallStates /\ key.scope \in Scopes /\ ticket \in Tickets
        /\ slots \in [SlotKeys -> Nat] /\ call \in [Calls -> CallStates]
    BY DEF TypeInv, TypeOK, StageOK, SlotCommit, SlotKeys, Tickets
  <1>2. /\ before \in CallStates /\ before.key = key /\ before.user = call[c].user
        /\ before.tickets = call[c].tickets \cup {ticket}
    BY <1>1 DEF CallStates
  <1>3. /\ key.scope = "user" => key.user = call[c].user
        /\ key.scope = "global" => HoldsUserSlot(call[c].user, call[c].tickets)
    BY <1>1 DEF TicketInv, TicketsPaid, StagePaid
  <1>4. ticket.key = key /\ ticket.count = n + 1
    OBVIOUS
  <1>5. call' = [call EXCEPT ![c] = AfterSlot(before)] /\ issued' = issued
        /\ slots' = [slots EXCEPT ![key] = n + 1]
    BY DEF SlotCommit
  <1> HIDE DEF ticket, before
  <1>paid. /\ key.scope = "user" => HoldsUserSlot(before.user, before.tickets)
           /\ key.scope = "global" => /\ HoldsUserSlot(before.user, before.tickets)
                                      /\ HoldsGlobalSlot(before.tickets)
    BY <1>2, <1>3, <1>4 DEF HoldsUserSlot, HoldsGlobalSlot
  <1>6. AfterSlot(before).tickets = before.tickets /\ StagePaid(AfterSlot(before))
    <2>1. CASE key.scope = "user"
      <3>1. AfterSlot(before) = EnterSlot(before, "global")
        BY <1>2, <2>1 DEF AfterSlot
      <3>2. "global" \in Scopes /\ HoldsUserSlot(before.user, before.tickets)
        BY <1>paid, <2>1 DEF Scopes
      <3>3. QED
        BY <1>2, <3>1, <3>2, EnterSlotPaid
    <2>2. CASE key.scope = "global"
      <3>1. /\ AfterSlot(before).at = "create"
            /\ AfterSlot(before).user = before.user
            /\ AfterSlot(before).tickets = before.tickets
        BY <1>2, <2>2 DEF AfterSlot, LeaveSlot, CallStates
      <3>2. QED
        BY <1>paid, <2>2, <3>1 DEF StagePaid
    <2>3. CASE key.scope = "guess"
      <3>1. /\ AfterSlot(before).at = "attemptRead"
            /\ AfterSlot(before).tickets = before.tickets
        BY <1>2, <2>3 DEF AfterSlot, LeaveSlot, CallStates
      <3>2. QED
        BY <3>1 DEF StagePaid
    <2>4. QED
      BY <1>1, <2>1, <2>2, <2>3 DEF Scopes
  <1>7. /\ call'[c].tickets = call[c].tickets \cup {ticket} /\ StagePaid(call[c])'
        /\ \A d \in Calls \ {c} : call'[d] = call[d]
    BY <1>1, <1>2, <1>5, <1>6 DEF StagePaid
  <1>8. ASSUME NEW t \in Tickets, Granted(t) PROVE Granted(t)' /\ t # ticket
    <2>1. t.key \in SlotKeys /\ t.count \in Nat
      BY DEF Tickets
    <2>2. t.count \in 1 .. Limit(t.key.scope) /\ t.count <= slots[t.key]
      BY <1>8 DEF Granted
    <2>3. slots'[t.key] >= slots[t.key] /\ slots[t.key] \in Nat /\ slots'[t.key] \in Nat
      BY <1>1, <1>5, <2>1
    <2>4. Granted(t)'
      BY <2>1, <2>2, <2>3 DEF Granted
    <2>5. t # ticket
      <3> SUFFICES ASSUME t = ticket PROVE FALSE
        OBVIOUS
      <3>1. t.key = key /\ t.count = n + 1
        BY <1>4
      <3>2. QED
        BY <1>1, <2>2, <3>1
    <2>6. QED
      BY <2>4, <2>5
  <1>9. Granted(ticket)'
    BY <1>1, <1>4, <1>5, SlotFacts DEF Granted, TypeInv, TypeOK
  <1>10. /\ \A d \in Calls : call[d].tickets \subseteq Tickets
         /\ \A i \in DOMAIN issued : issued[i].tickets \subseteq Tickets
    <2>1. \A d \in Calls : call[d].tickets \subseteq Tickets
      BY <1>1 DEF CallStates
    <2>2. issued \in Seq(Issues)
      BY DEF TypeInv, TypeOK
    <2>3. \A i \in DOMAIN issued : issued[i] \in Issues
      BY <2>2, ElementOfSeq, LenProperties
    <2>4. \A i \in DOMAIN issued : issued[i].tickets \subseteq Tickets
      BY <2>3 DEF Issues
    <2>5. QED
      BY <2>1, <2>4
  <1>11. TicketsGranted'
    BY <1>5, <1>7, <1>8, <1>9, <1>10 DEF TicketInv, TicketsGranted
  <1>12. TicketsPaid'
    BY <1>5, <1>7 DEF TicketInv, TicketsPaid, StagePaid
  <1>13. TicketsApart'
    <2>1. /\ \A d \in Calls : ticket \notin call[d].tickets
          /\ \A i \in DOMAIN issued : ticket \notin issued[i].tickets
      BY <1>8, <1>10 DEF TicketInv, TicketsGranted
    <2>2. QED
      BY <1>5, <1>7, <2>1 DEF TicketInv, TicketsApart
  <1>14. QED
    BY <1>11, <1>12, <1>13 DEF TicketInv

(* createTokenRequest hands the call's slots over to the request. *)
LEMMA CreateKeepsTickets ==
    ASSUME TypeInv, TicketInv, NEW c \in Calls, NEW code \in Codes,
           CreateTokenRequest(c, code)
    PROVE  TicketInv'
  <1> PICK issue \in Issues : issue = [user |-> call[c].user, tickets |-> call[c].tickets]
    BY DEF TypeInv, TypeOK, StageOK, CreateTokenRequest, CallStates, Issues
  <1>1. /\ issued' = Append(issued, issue) /\ issued \in Seq(Issues) /\ Len(issued) \in Nat
        /\ call'[c].tickets = {} /\ call'[c].at = "mail"
        /\ \A d \in Calls \ {c} : call'[d] = call[d]
        /\ slots' = slots
    BY DEF CreateTokenRequest, TypeInv, TypeOK, CallStates
  <1>2. /\ issued' \in Seq(Issues) /\ Len(issued') = Len(issued) + 1
        /\ issued'[Len(issued) + 1] = issue
        /\ \A i \in 1 .. Len(issued) : issued'[i] = issued[i]
    BY <1>1, AppendProperties
  <1>3. \A i \in DOMAIN issued' : \/ i \in DOMAIN issued /\ issued'[i] = issued[i]
                                  \/ i = Len(issued) + 1 /\ issued'[i] = issue
    <2>1. DOMAIN issued' = 1 .. Len(issued) + 1 /\ DOMAIN issued = 1 .. Len(issued)
      BY <1>1, <1>2, LenProperties
    <2>2. \A i \in 1 .. Len(issued) + 1 : i \in 1 .. Len(issued) \/ i = Len(issued) + 1
      BY <1>1
    <2>3. QED
      BY <1>2, <2>1, <2>2
  <1>4. issue.tickets = call[c].tickets /\ issue.user = call[c].user
    OBVIOUS
  <1>5. HoldsUserSlot(issue.user, issue.tickets) /\ HoldsGlobalSlot(issue.tickets)
    BY <1>4 DEF TicketInv, TicketsPaid, StagePaid, CreateTokenRequest
  <1>6. TicketsGranted'
    BY <1>1, <1>3, <1>4 DEF TicketInv, TicketsGranted, Granted
  <1>7. TicketsPaid'
    BY <1>1, <1>3, <1>5 DEF TicketInv, TicketsPaid, StagePaid
  <1>8. TicketsApart'
    BY <1>1, <1>3, <1>4 DEF TicketInv, TicketsApart
  <1>9. QED
    BY <1>6, <1>7, <1>8 DEF TicketInv

(* Every other step moves one call along with the slots it holds. *)
LEMMA OthersKeepTickets ==
    ASSUME TypeInv, TicketInv, NEW c \in Calls, OtherStep(c), ~SlotCommit(c)
    PROVE  TicketInv'
  <1>1. call[c] \in CallStates /\ StagePaid(call[c])
    BY DEF TypeInv, TypeOK, TicketInv, TicketsPaid
  <1>2. UNCHANGED <<slots, issued>>
    BY DEF OtherStep, SlotStep, SlotRead, SlotLost, AnswerPending, LookupFree, DropExpired,
       VerifyToken, SendEmail, Authenticate, AttemptRead, AttemptDrop, AttemptLost, Compare,
       SetNpub, Cleanup, Abort
  <1>3. CASE Respond(c)
    BY <1>2, <1>3, RespondKeepsTickets
  <1>4. ASSUME NEW state \in CallStates, state.tickets = call[c].tickets, StagePaid(state),
               call' = [call EXCEPT ![c] = state]
        PROVE  TicketInv'
    BY <1>2, <1>4, AdvanceKeepsTickets
  <1>5. CASE SlotRead(c) /\ ~Respond(c)
    <2> DEFINE state == [call[c] EXCEPT !.at = "slotCommit", !.seen = slots[call[c].key]]
    <2>1. call' = [call EXCEPT ![c] = state] /\ call[c].at = "slotRead"
      BY <1>5 DEF SlotRead
    <2>2. state.tickets = call[c].tickets /\ StagePaid(state)
      BY <1>1, <2>1 DEF CallStates, StagePaid
    <2>3. QED
      BY <1>2, <2>1, <2>2, AdvanceKeepsTickets
  <1>6. CASE SlotLost(c) /\ ~Respond(c)
    <2> DEFINE state == [call[c] EXCEPT !.at = "slotRead", !.tries = @ + 1]
    <2>1. call' = [call EXCEPT ![c] = state] /\ call[c].at = "slotCommit"
      BY <1>6 DEF SlotLost
    <2>2. state.tickets = call[c].tickets /\ StagePaid(state)
      BY <1>1, <2>1 DEF CallStates, StagePaid
    <2>3. QED
      BY <1>2, <2>1, <2>2, AdvanceKeepsTickets
  <1>7. CASE LookupFree(c) \/ DropExpired(c)
    <2>1. CASE call' = [call EXCEPT ![c] = EnterSlot(call[c], "user")]
      BY <1>1, <1>2, <2>1, EnterSlotPaid, AdvanceKeepsTickets DEF Scopes
    <2>2. CASE call' = [call EXCEPT ![c].at = "dropExpired"]
      <3> DEFINE state == [call[c] EXCEPT !.at = "dropExpired"]
      <3>1. state.tickets = call[c].tickets /\ StagePaid(state)
        BY <1>1 DEF CallStates, StagePaid
      <3>2. QED
        BY <1>2, <2>2, <3>1, AdvanceKeepsTickets
    <2>3. QED
      BY <1>7, <2>1, <2>2 DEF LookupFree, DropExpired
  <1>8. ASSUME NEW u \in Users, VerifyToken(c, u) PROVE TicketInv'
    <2> DEFINE state == [call[c] EXCEPT !.at = "lookup", !.user = u]
    <2>1. state.tickets = call[c].tickets /\ StagePaid(state)
      BY <1>1 DEF CallStates, StagePaid
    <2>2. call' = [call EXCEPT ![c] = state]
      BY <1>8 DEF VerifyToken
    <2>3. QED
      BY <1>2, <2>1, <2>2, AdvanceKeepsTickets
  <1>9. ASSUME NEW u \in Users, NEW k \in Npubs, NEW s \in Submissions, Authenticate(c, u, k, s)
        PROVE  TicketInv'
    <2> DEFINE state == [call[c] EXCEPT !.user = u, !.npub = k, !.code = s.code,
                                        !.token = s.token]
               asks  == [state EXCEPT !.at = "attemptRead"]
    <2>1. state \in CallStates /\ state.tickets = call[c].tickets
      BY <1>1, ConstantsAssumption DEF CallStates
    <2>2. CASE call' = [call EXCEPT ![c] = EnterSlot(state, "guess")]
      BY <1>2, <2>1, <2>2, EnterSlotPaid, AdvanceKeepsTickets DEF Scopes
    <2>3. CASE call' = [call EXCEPT ![c] = asks]
      <3>1. asks.tickets = call[c].tickets /\ StagePaid(asks)
        BY <2>1 DEF CallStates, StagePaid
      <3>2. QED
        BY <1>2, <2>3, <3>1, AdvanceKeepsTickets
    <2>4. QED
      BY <1>9, <2>2, <2>3 DEF Authenticate
  <1>10. CASE AttemptRead(c) /\ ~Respond(c)
    <2> DEFINE r == pending[call[c].user]
               stage == IF UsedUp(r) THEN "attemptDrop" ELSE "attemptCommit"
               state == [call[c] EXCEPT !.at = stage, !.entry = r]
    <2>1. state.tickets = call[c].tickets /\ StagePaid(state)
      BY <1>1 DEF CallStates, StagePaid
    <2>2. call' = [call EXCEPT ![c] = state]
      BY <1>10 DEF AttemptRead
    <2>3. QED
      BY <1>2, <2>1, <2>2, AdvanceKeepsTickets
  <1>11. CASE AttemptLost(c) /\ ~Respond(c)
    <2> DEFINE state == [call[c] EXCEPT !.at = "attemptRead", !.entry = None, !.tries = @ + 1]
    <2>1. state.tickets = call[c].tickets /\ StagePaid(state)
      BY <1>1 DEF CallStates, StagePaid
    <2>2. call' = [call EXCEPT ![c] = state]
      BY <1>11 DEF AttemptLost
    <2>3. QED
      BY <1>2, <2>1, <2>2, AdvanceKeepsTickets
  <1>12. ASSUME NEW stage \in {"bind", "cleanup"}, call' = [call EXCEPT ![c].at = stage]
         PROVE  TicketInv'
    <2> DEFINE state == [call[c] EXCEPT !.at = stage]
    <2>1. state.tickets = call[c].tickets /\ StagePaid(state)
      BY <1>1 DEF CallStates, StagePaid
    <2>2. QED
      BY <1>2, <1>12, <2>1, AdvanceKeepsTickets
  <1>13. CASE (Compare(c) \/ SetNpub(c)) /\ ~Respond(c)
    BY <1>12, <1>13 DEF Compare, SetNpub
  <1>14. QED
    BY <1>3, <1>5, <1>6, <1>7, <1>8, <1>9, <1>10, <1>11, <1>13
    DEF OtherStep, SlotStep, AnswerPending, SendEmail, AttemptDrop, Cleanup, Abort

LEMMA NextTicketInv == TypeInv /\ TicketInv /\ [Next]_vars => TicketInv'
  <1> SUFFICES ASSUME TypeInv, TicketInv, [Next]_vars PROVE TicketInv'
    OBVIOUS
  <1>1. ASSUME NEW c \in Calls, OtherStep(c) PROVE TicketInv'
    BY <1>1, CommitKeepsTickets, OthersKeepTickets
  <1>2. ASSUME NEW c \in Calls, NEW code \in Codes, CreateTokenRequest(c, code)
        PROVE  TicketInv'
    BY <1>2, CreateKeepsTickets
  <1>3. CASE UNCHANGED <<slots, call, issued>>
    BY <1>3, TicketFrame DEF TicketInv, TicketsPaid
  <1>4. ASSUME NEW c \in Calls, AttemptCommit(c) PROVE TicketInv'
    <2> DEFINE reserved == [call[c].entry EXCEPT !.attempts = @ + 1]
               state == [call[c] EXCEPT !.at = "compare", !.entry = reserved, !.tries = 0]
    <2>1. state.tickets = call[c].tickets /\ StagePaid(state)
      BY DEF TypeInv, TypeOK, CallStates, StagePaid
    <2>2. call' = [call EXCEPT ![c] = state] /\ UNCHANGED <<slots, issued>>
      BY <1>4 DEF AttemptCommit
    <2>3. QED
      BY <2>1, <2>2, AdvanceKeepsTickets
  <1>5. QED
    BY <1>1, <1>2, <1>3, <1>4
    DEF Next, VerifyTokenStep, AuthenticateStep, OtherStep, KvExpire, Tick, vars

\* rateLimit.ts and createTokenRequest, whatever calls race for the counters:
\* every request was paid for with one slot of its user and one of the shared
\* cap, within their limits, and no slot paid for two requests.
THEOREM EmailsPaidFor == Spec => []EmailsArePaidFor
  <1>1. TicketInv => EmailsArePaidFor
    BY DEF TicketInv, TicketsGranted, TicketsPaid, TicketsApart, Granted, HoldsUserSlot,
       HoldsGlobalSlot, EmailsArePaidFor
  <1>2. QED
    BY <1>1, InitTicketInv, TypeInvariant, NextTicketInv, PTL DEF Spec

=============================================================================
