------------------------ MODULE MCNotificationDaemon ------------------------
(* The instances of NotificationDaemon that TLC checks. *)
EXTENDS NotificationDaemon, TLC

CONSTANTS u1, u2, r1, r2, r3, n1, n2, a1, here, near, t1, t2

\* Two users with a phone each, one of them with two filters for one note and a
\* later request that gives no phone; a second note of the same author.
MCUserOf    == r1 :> u1 @@ r2 :> u2 @@ r3 :> u1
MCAsks      == r1 :> {here, near} @@ r2 :> {here} @@ r3 :> {near}
MCGives     == r1 :> {t1} @@ r2 :> {t2} @@ r3 :> {}
MCDates     == r1 :> 1 @@ r2 :> 1 @@ r3 :> 2

\* One user who moves a phone's filter: the later request has the earlier date.
OneUserOf   == r1 :> u1 @@ r2 :> u1
OneAsks     == r1 :> {here} @@ r2 :> {near}
OneGives    == r1 :> {t1} @@ r2 :> {t1}

MCCreatedAt == r1 :> 2 @@ r2 :> 1
MCMatches   == {<<n1, here>>, <<n1, near>>, <<n2, here>>}
OneMatches  == {<<n1, here>>, <<n1, near>>}
MCAuthorOf  == n1 :> a1 @@ n2 :> a1
OneAuthorOf == n1 :> a1
=============================================================================
