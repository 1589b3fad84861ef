---------------------------- MODULE LiveIndexMC ----------------------------
(* Model-checking instances of LiveIndex.                                    *)
EXTENDS LiveIndex

CONSTANTS s1, s2, s3

Ev(s, k, v) == [node |-> "n", sid |-> s, kind |-> k, val |-> v]

\* Three sessions, one of them with every kind of event, a heartbeat, and an event of
\* another kind without a session, which normalize lets through for every kind.
Traffic ==
  {Ev(s1, "start", "ip1"), Ev(s1, "login", "pw1"), Ev(s1, "artifact", "url"),
   Ev(s1, "request", "sqli"), Ev(s1, "request", NoVal), Ev(s1, "end", NoVal),
   Ev(s2, "command", NoVal), Ev(s2, "auth", "pw2"), Ev(s3, "start", NoVal),
   Ev(s3, "canary", NoVal), Ev(NoSession, "heartbeat", NoVal),
   Ev(NoSession, "canary", NoVal)}
=============================================================================
