------------------------------- MODULE Monitor -------------------------------
(***************************************************************************)
(* nr-monitor.  Round after round it tries each service up to three times, *)
(* pings the notification daemon through the relay and waits for the       *)
(* answer, and sends a telegram when a status is not what the round before *)
(* found.  What it knows of that round is in memory; a telegram that fails *)
(* is not sent again.                                                      *)
(*                                                                         *)
(* A ping is a new event under a new key, and the monitor subscribes to    *)
(* the answers to it before it publishes it.                               *)
(***************************************************************************)
EXTENDS Naturals

CONSTANTS
    Services, Ping,     \* what is checked: services, and the daemon by a ping
    Pings,              \* ids of pings, one a round: the bound of a model
    None,
    MaxAttempts,        \* MAX_ATTEMPTS
    MaxRestarts         \* a bound of a model

Checks == Services \cup {Ping}

VARIABLES
    monitor,    \* where runLoop stands
    ping,       \* the ping of the last round
    used,       \* history: the ids of pings made
    sent,       \* whether it was published: its answers are subscribed to
    results,    \* what each check of the round found
    attempts,   \* how often each service was tried in the round
    current,    \* currentState
    told,       \* history: what the last telegram that arrived said
    lost,       \* history: whether a telegram was lost after that
    restarts    \* restarts so far

monitorVars == <<monitor, ping, used, sent, results, attempts, current, told, lost, restarts>>

Nothing == [c \in Checks |-> None]

Init ==
    /\ monitor = "sleeping" /\ ping = None /\ used = {} /\ sent = FALSE
    /\ results = Nothing /\ attempts = [s \in Services |-> 0]
    /\ current = Nothing /\ told = Nothing /\ lost = FALSE
    /\ restarts = 0

\* The interval has passed: every check starts at once.
StartRound ==
    /\ monitor = "sleeping"
    /\ \E p \in Pings \ used : ping' = p /\ used' = used \cup {p}
    /\ sent' = FALSE
    /\ results' = Nothing /\ attempts' = [s \in Services |-> 0]
    /\ monitor' = "checking"
    /\ UNCHANGED <<current, told, lost, restarts>>

Found(c, status) ==
    /\ monitor = "checking" /\ results[c] = None
    /\ results' = [results EXCEPT ![c] = status]

ServiceAnswers(s) ==
    /\ Found(s, "ok")
    /\ UNCHANGED <<monitor, ping, used, sent, attempts, current, told, lost, restarts>>

\* Mutant: the last attempt does not decide.
ServiceRetried(s) ==
    /\ monitor = "checking" /\ results[s] = None
    /\ attempts' = [attempts EXCEPT ![s] = @ + 1]
    /\ UNCHANGED <<monitor, ping, used, sent, results, current, told, lost, restarts>>

\* An attempt fails or times out: the last one decides.
ServiceFails(s) ==
    /\ monitor = "checking" /\ results[s] = None
    /\ attempts' = [attempts EXCEPT ![s] = @ + 1]
    /\ results' = IF attempts'[s] = MaxAttempts THEN [results EXCEPT ![s] = "error"] ELSE results
    /\ UNCHANGED <<monitor, ping, used, sent, current, told, lost, restarts>>

\* End of the stored answers: the ping is published.
SendPing ==
    /\ monitor = "checking" /\ results[Ping] = None /\ ~sent
    /\ sent' = TRUE
    /\ UNCHANGED <<monitor, ping, used, results, attempts, current, told, lost, restarts>>

\* Mutant: the subscription is to the daemon's answers, whatever the ping.
HearAnyAck(p) ==
    /\ sent
    /\ Found(Ping, "ok")
    /\ UNCHANGED <<monitor, ping, used, sent, attempts, current, told, lost, restarts>>

\* The daemon's answer to ping p comes over the relay.
HearAck(p) ==
    /\ p = ping /\ sent
    /\ Found(Ping, "ok")
    /\ UNCHANGED <<monitor, ping, used, sent, attempts, current, told, lost, restarts>>

\* Mutant: no timeout once the ping is published.
PingNotTimed ==
    /\ ~sent
    /\ Found(Ping, "error")
    /\ UNCHANGED <<monitor, ping, used, sent, attempts, current, told, lost, restarts>>

\* The relay is not reached or rejects the ping, or no answer came in time.
PingFails ==
    /\ Found(Ping, "error")
    /\ UNCHANGED <<monitor, ping, used, sent, attempts, current, told, lost, restarts>>

\* Mutant: only a check that was known before can change.
FinishRoundKnownOnly ==
    /\ monitor = "checking"
    /\ \A c \in Checks : results[c] # None
    /\ current' = results
    /\ monitor' = IF \E c \in Checks : current[c] \notin {None, results[c]}
                  THEN "alerting" ELSE "sleeping"
    /\ UNCHANGED <<ping, used, sent, results, attempts, told, lost, restarts>>

\* updateState: every status is remembered before anybody is told.
FinishRound ==
    /\ monitor = "checking"
    /\ \A c \in Checks : results[c] # None
    /\ current' = results
    /\ monitor' = IF \E c \in Checks : current[c] # results[c] THEN "alerting" ELSE "sleeping"
    /\ UNCHANGED <<ping, used, sent, results, attempts, told, lost, restarts>>

\* sendTelegramMessage: a telegram that arrives, or an error that is logged.
AlertArrives ==
    /\ monitor = "alerting"
    /\ told' = results /\ lost' = FALSE
    /\ monitor' = "sleeping"
    /\ UNCHANGED <<ping, used, sent, results, attempts, current, restarts>>

AlertFails ==
    /\ monitor = "alerting"
    /\ lost' = TRUE
    /\ monitor' = "sleeping"
    /\ UNCHANGED <<ping, used, sent, results, attempts, current, told, restarts>>

\* The process ends at any point and starts again.
Restart ==
    /\ restarts < MaxRestarts
    /\ restarts' = restarts + 1
    /\ monitor' = "sleeping"
    /\ ping' = None /\ sent' = FALSE
    /\ results' = Nothing /\ attempts' = [s \in Services |-> 0] /\ current' = Nothing
    /\ UNCHANGED <<used, told, lost>>

\* The monitor's steps that do not concern the daemon.
Alone ==
    \/ StartRound \/ FinishRound \/ AlertArrives \/ AlertFails \/ Restart \/ PingFails
    \/ \E s \in Services : ServiceAnswers(s) \/ ServiceFails(s)

\* Timeouts end every attempt, a ping too, and a telegram's fetch ends.
Fairness ==
    /\ \A s \in Services : WF_monitorVars(ServiceAnswers(s) \/ ServiceFails(s))
    /\ WF_monitorVars(PingFails)
    /\ WF_monitorVars(FinishRound)
    /\ WF_monitorVars(AlertArrives \/ AlertFails)

TypeOK ==
    /\ monitor \in {"sleeping", "checking", "alerting"}
    /\ ping \in Pings \cup {None} /\ used \subseteq Pings /\ sent \in BOOLEAN
    /\ {results, current, told} \subseteq [Checks -> {"ok", "error", None}]
    /\ attempts \in [Services -> 0 .. MaxAttempts]
    /\ lost \in BOOLEAN /\ restarts \in 0 .. MaxRestarts
=============================================================================
