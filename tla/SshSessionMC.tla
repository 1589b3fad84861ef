---------------------------- MODULE SshSessionMC ----------------------------
(* Model-checking instances of SshSession: two or three channels, two slots, *)
(* two credentials offered.                                                  *)
EXTENDS SshSession
=============================================================================
