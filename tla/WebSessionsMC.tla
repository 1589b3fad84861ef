--------------------------- MODULE WebSessionsMC ---------------------------
(* Model-checking instances of WebSessions.                                  *)
EXTENDS WebSessions
=============================================================================
