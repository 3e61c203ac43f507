------------------------- MODULE MCMonitoredDaemon -------------------------
(* The instance of MonitoredDaemon that TLC checks: nobody asks for pushes. *)
EXTENDS MonitoredDaemon, TLC

MCUserOf    == << >>
MCAsks      == << >>
MCGives     == << >>
MCCreatedAt == << >>
MCAuthorOf  == << >>
=============================================================================
