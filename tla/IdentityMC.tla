----------------------------- MODULE IdentityMC -----------------------------
(* A node with two host keys, an account of each kind, and names that fold to one. *)
EXTENDS Identity

SomeNames == {"root", "Root", "ann", "nobody"}
Folded == [n \in SomeNames |-> IF n = "Root" THEN "root" ELSE n]
FirstList == <<"123456", "admin">>
SecondList == <<"chelsea", "falcon", "viper">>
Macs == [v \in (0..30) \X SomeNames |-> v[1] + IF v[2] = "root" THEN 0 ELSE 1]
=============================================================================
