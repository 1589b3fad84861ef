---------------------------- MODULE EventStoreMC ----------------------------
(* Model-checking instances of EventStore.                                   *)
EXTENDS EventStore

\* A short session and one heartbeat, as the sensor numbers them.
Stream == <<"session_start", "auth", "session_end", "heartbeat">>
=============================================================================
