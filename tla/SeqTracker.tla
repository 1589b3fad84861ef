---------------------------- MODULE SeqTracker ----------------------------
(***************************************************************************)
(* SeqTracker::observe of collector/src/ingest.rs: how the collector judges *)
(* the sequence number of an accepted event from the last one it took from *)
(* the same node.  0 stands for "no entry": a number 0 is rejected before  *)
(* it gets here (NormalizeError::MissingSeq).                              *)
(***************************************************************************)
EXTENDS Integers

\* The SeqStatus of number s when last is the tracker's entry.
Observe(last, s) ==
  CASE last = 0                  -> "FirstSeen"
    [] last # 0 /\ s = last + 1  -> "InOrder"
    [] last # 0 /\ s > last + 1  -> "Gap"
    [] last # 0 /\ s <= last     -> "Replay"

\* Mutant: the entry follows every number.
AdvanceAlways(last, s) == s

\* The entry afterwards: a replay leaves it alone.
Advance(last, s) == IF Observe(last, s) = "Replay" THEN last ELSE s

\* The "missing" field of a Gap, 0 for the other verdicts.
Missing(last, s) == IF Observe(last, s) = "Gap" THEN s - last - 1 ELSE 0
=============================================================================
