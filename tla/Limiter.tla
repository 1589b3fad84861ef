------------------------------ MODULE Limiter ------------------------------
(***************************************************************************)
(* The concurrency budget of a protocol listener: acquire and release of   *)
(* node/internal/protocols/telnet/server.go.  sshd has the same two        *)
(* functions; rdp's have no global count.  A mutex makes each atomic.      *)
(* 0 means "no limit"; sshd's acquire lacks that test, but Config.Validate *)
(* refuses max_sessions <= 0.                                              *)
(***************************************************************************)
EXTENDS Naturals, FiniteSets

CONSTANTS IPs, MaxSessions, MaxSessionsPerIP

ASSUME LimiterAssumption ==
  MaxSessions \in Nat /\ MaxSessionsPerIP \in Nat

VARIABLES
  total,    \* sessions holding a slot
  perIP     \* the same per source; a deleted map entry is 0

limiterVars == <<total, perIP>>

LimiterInit == total = 0 /\ perIP = [ip \in IPs |-> 0]

\* Mutant: the per-source test is left out.
MayAcquireAnySource(ip) == MaxSessions = 0 \/ total < MaxSessions

MayAcquire(ip) ==
  /\ MaxSessions = 0 \/ total < MaxSessions
  /\ MaxSessionsPerIP = 0 \/ perIP[ip] < MaxSessionsPerIP

Take(ip) ==
  /\ MayAcquire(ip)
  /\ total' = total + 1
  /\ perIP' = [perIP EXCEPT ![ip] = @ + 1]

Give(ip) ==
  /\ total' = total - 1
  /\ perIP' = [perIP EXCEPT ![ip] = @ - 1]
=============================================================================
