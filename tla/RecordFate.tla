---------------------------- MODULE RecordFate ----------------------------
(***************************************************************************)
(* What the spool promises about one record, whatever the interleaving:    *)
(* the abstract specification that module Spool implements.                *)
(*                                                                         *)
(*   free -> reserved -> pending <-> offered -> acked                      *)
(*              |            \         /                                   *)
(*          abandoned          evicted                                     *)
(*                                                                         *)
(* Numbers are handed out in order and never again; a record leaves the    *)
(* log only by acknowledgement of an offer or by eviction, and the three   *)
(* terminal fates are final.                                               *)
(***************************************************************************)
EXTENDS Naturals

CONSTANT MaxSeq

VARIABLE fate      \* the fate of every sequence number

Numbers == 1..MaxSeq

With(f) == {s \in Numbers : fate[s] = f}

\* The numbers in S move to fate f; the others keep theirs.
Move(S, f) == fate' = [s \in Numbers |-> IF s \in S THEN f ELSE fate[s]]

Init == fate = [s \in Numbers |-> "free"]

Reserve ==
  \E s \in With("free") :
    /\ \A t \in With("free") : s <= t
    /\ Move({s}, "reserved")

\* Storing a record may push out records that are waiting.
Store ==
  \E s \in With("reserved"), E \in SUBSET (With("pending") \cup With("offered")) :
    fate' = [t \in Numbers |-> IF t = s THEN "pending"
                               ELSE IF t \in E THEN "evicted" ELSE fate[t]]

GiveUp == \E s \in With("reserved") : Move({s}, "abandoned")

\* The oldest waiting records are offered to the publisher.
Offer ==
  /\ With("offered") = {}
  /\ \E B \in SUBSET With("pending") :
       /\ \A b \in B, p \in With("pending") : p < b => p \in B
       /\ Move(B, "offered")

Settle == Move(With("offered"), "acked")

Withdraw == Move(With("offered"), "pending")

Crash ==
  fate' = [s \in Numbers |-> IF s \in With("offered") THEN "pending"
                             ELSE IF s \in With("reserved") THEN "abandoned"
                             ELSE fate[s]]

Next == Reserve \/ Store \/ GiveUp \/ Offer \/ Settle \/ Withdraw \/ Crash

Spec == Init /\ [][Next]_fate
=============================================================================
