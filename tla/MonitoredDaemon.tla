--------------------------- MODULE MonitoredDaemon ---------------------------
(***************************************************************************)
(* The notification daemon under the eyes of the monitor: the pings of     *)
(* Monitor stand in the queue of NotificationDaemon between requests and   *)
(* notes, and the answers come back over the relay, which passes them to   *)
(* whoever is subscribed and keeps none.                                   *)
(***************************************************************************)
EXTENDS NotificationDaemon

CONSTANTS Services, Ping, MaxAttempts, MaxRestarts

ASSUME MonitorAssumption ==
    /\ Ping \notin Services
    /\ None \notin Pings \cup {"ok", "error"}
    /\ MaxAttempts \in Nat \ {0}
    /\ MaxRestarts \in Nat

VARIABLES monitor, ping, used, sent, results, attempts, current, told, lost, restarts

Nurse == INSTANCE Monitor

monitorVars == <<monitor, ping, used, sent, results, attempts, current, told, lost, restarts>>

vars == <<daemonVars, monitorVars>>

MonitoredInit == Init /\ Nurse!Init

\* The monitor publishes its ping: it is routed to the daemon's queue, or the
\* relay does not get or does not take it.
PingIsSent ==
    /\ Nurse!SendPing
    /\ Post(ping) \/ UNCHANGED daemonVars

\* The relay passes the daemon's answer on.
AckIsHeard == \E p \in pongs : Nurse!HearAck(p) /\ UNCHANGED daemonVars

MonitoredNext ==
    \/ (Daemon \/ Publish) /\ UNCHANGED monitorVars
    \/ Nurse!Alone /\ UNCHANGED daemonVars
    \/ PingIsSent
    \/ AckIsHeard

MonitoredSpec == MonitoredInit /\ [][MonitoredNext]_vars /\ Fairness /\ Nurse!Fairness

MonitoredTypeOK == TypeOK /\ Nurse!TypeOK

\* When a round finds the daemon well, the daemon has by then dealt with all
\* that was in its queue before this round's ping: neither an answer to an
\* earlier ping nor a daemon that leaves its queue can make it look well.
WellMeansDrained ==
    (ping # None /\ results[Ping] = "ok") =>
        \E i \in DOMAIN queue : queue[i] = ping /\ done + 1 >= i

\* Unless its last telegram was lost, what the monitor keeps silent about is
\* what that telegram said.
SilenceMeansTold ==
    (monitor = "sleeping" /\ current # Nurse!Nothing /\ ~lost) => told = current

\* A round ends, whatever the services and the daemon do.
RoundsEnd == monitor = "checking" ~> monitor = "sleeping"
=============================================================================
