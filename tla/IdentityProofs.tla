--------------------------- MODULE IdentityProofs ---------------------------
(***************************************************************************)
(* Proofs about Identity for any host keys, roster, password lists and     *)
(* number of crashes: a node that has shown a secret or a key never shows  *)
(* another, so no login it grants is ever contradicted.                    *)
(***************************************************************************)
EXTENDS Identity, TLAPS

Points == {"down", "read", "create", "write", "up"}

Process == [pc : Points, at : Nat, mine : Nat, have : [Files -> Nat]]

\* The types, without the bound on the faults.
Typed ==
  /\ file \in [Files -> Nat]
  /\ proc \in [Procs -> Process]
  /\ draws \in Nat /\ draws >= Short
  /\ used \in [Files -> SUBSET Nat]
  /\ raced \subseteq Files

\* Where a process is, and what it then has.
Placed ==
  \A p \in Procs : /\ proc[p].at \in Secret..LastNeed(p)
                   /\ proc[p].pc \in {"create", "write"} => IsValue(proc[p].mine)
                   /\ proc[p].pc = "up" => /\ proc[p].at = LastNeed(p)
                                           /\ IsValue(proc[p].have[Secret])
                   /\ proc[p].at > Secret => IsValue(proc[p].have[Secret])

Writes(p, f) == proc[p].pc = "write" /\ At(p) = f

\* A file not raced for has one writer at most and is short while it writes; all that was
\* loaded from it or shown is what it holds.
Settled(f) ==
  /\ \A p \in Procs : Writes(p, f) => file[f] = Short
  /\ \A p, q \in Procs : Writes(p, f) /\ Writes(q, f) => p = q
  /\ \A p \in Procs : IsValue(proc[p].have[f]) => proc[p].have[f] = file[f]
  /\ \A v \in used[f] : IsValue(v) /\ v = file[f]

\* What was granted is what the secret on disk gives.
Earned ==
  Secret \notin raced =>
    \A g \in granted : /\ IsValue(file[Secret])
                       /\ g.account \in DOMAIN NewPolicy(file[Secret])
                       /\ g.pass = NewPolicy(file[Secret])[g.account]

IInv == Typed /\ Placed /\ (\A f \in Files \ raced : Settled(f)) /\ Earned

USE DEF Process

\* What a process needs are files, from the secret on.
LEMMA NeedsFacts ==
  /\ Secret \in Files /\ Files \subseteq Nat
  /\ \A p \in Procs : LastNeed(p) \in Nat /\ Secret..LastNeed(p) \subseteq Files
  BY IdentityAssumption DEF IdentityAssumption, Files, Secret, LastNeed, Procs

\* A process with some of its fields set anew.
LEMMA FieldsSet ==
  ASSUME NEW r \in Process, NEW c \in Points, NEW n \in Nat
  PROVE  /\ [r EXCEPT !.pc = c] \in Process
         /\ [r EXCEPT !.pc = c, !.at = n] \in Process
         /\ [r EXCEPT !.pc = c, !.mine = n] \in Process
  OBVIOUS

\* A process is at one of the node's files.
LEMMA AtFile == ASSUME Placed, NEW p \in Procs PROVE At(p) \in Files
  BY NeedsFacts DEF Placed, At

LEMMA InitOK == Init => IInv
<1>. SUFFICES ASSUME Init PROVE IInv
  OBVIOUS
<1>1. Typed
  BY NeedsFacts DEF Init, Typed, Down, Points, Absent, Short, Secret
<1>2. Placed
  BY NeedsFacts DEF Init, Placed, Down, Secret
<1>3. \A f \in Files \ raced : Settled(f)
  BY DEF Init, Settled, Writes, Down, Absent, Short, IsValue
<1>4. Earned
  BY DEF Init, Earned
<1>. QED
  BY <1>1, <1>2, <1>3, <1>4 DEF IInv

\* A process that starts or ends forgets what it had; the files and the rest stay.
LEMMA ProcessStarts ==
  ASSUME IInv, NEW p \in Procs, NEW pc \in {"down", "read"},
         proc' = [proc EXCEPT ![p] = [Down EXCEPT !.pc = pc]],
         UNCHANGED <<file, draws, used, granted, raced>>
  PROVE  IInv'
<1>. DEFINE s == [Down EXCEPT !.pc = pc]
<1>0. /\ s \in Process
      /\ s.pc = pc /\ s.at = Secret /\ \A f \in Files : s.have[f] = Absent
  BY DEF Down, Points, Absent, Secret
<1>1. /\ \A q \in Procs \ {p} : proc'[q] = proc[q]
      /\ proc'[p] = s
  BY DEF IInv, Typed
<1>2. Typed'
  BY <1>0 DEF IInv, Typed
<1>3. Placed'
  BY <1>0, <1>1, NeedsFacts DEF IInv, Placed, Secret
<1>4. ASSUME NEW f \in Files \ raced PROVE Settled(f)'
  <2>1. \A q \in Procs : Writes(q, f)' => q # p /\ Writes(q, f)
    BY <1>0, <1>1 DEF Writes, At
  <2>2. \A q \in Procs : IsValue(proc'[q].have[f]) => q # p /\ IsValue(proc[q].have[f])
    BY <1>0, <1>1 DEF IsValue, Absent, Short
  <2>. QED
    BY <2>1, <2>2, <1>1 DEF IInv, Settled, IsValue
<1>5. Earned'
  BY DEF IInv, Earned, NewPolicy
<1>. QED
  BY <1>2, <1>3, <1>4, <1>5 DEF IInv

\* A process once it has a file: at the next one or up.
LEMMA AdvancedFacts ==
  ASSUME Typed, Placed, NEW p \in Procs, NEW v \in Nat, IsValue(v)
  PROVE  /\ Advanced(p, v) \in Process
         /\ Advanced(p, v).pc \in {"read", "up"}
         /\ Advanced(p, v).at \in Secret..LastNeed(p)
         /\ Advanced(p, v).pc = "up" => Advanced(p, v).at = LastNeed(p)
         /\ Advanced(p, v).have[At(p)] = v
         /\ \A f \in Files \ {At(p)} : Advanced(p, v).have[f] = proc[p].have[f]
         /\ IsValue(Advanced(p, v).have[Secret])
<1>. DEFINE r == [proc[p] EXCEPT !.have[At(p)] = v, !.mine = Absent]
            s == IF r.at = LastNeed(p) THEN [r EXCEPT !.pc = "up"]
                 ELSE [r EXCEPT !.pc = "read", !.at = @ + 1]
<1>1. At(p) \in Files /\ LastNeed(p) \in Nat /\ Secret \in Files
  BY AtFile, NeedsFacts
<1>2. proc[p] \in Process
  BY DEF Typed
<1>3. /\ r \in Process
      /\ r.at = At(p) /\ r.have = [proc[p].have EXCEPT ![At(p)] = v]
  BY <1>2 DEF At, Absent
<1>4. /\ r.have[At(p)] = v
      /\ \A f \in Files \ {At(p)} : r.have[f] = proc[p].have[f]
  BY <1>1, <1>2, <1>3
<1>5. IsValue(r.have[Secret])
  BY <1>1, <1>4 DEF Placed, At, Secret
<1>. HIDE DEF r, s
<1>6. "up" \in Points /\ "read" \in Points /\ r.at + 1 \in Nat
  BY <1>3 DEF Points
<1>7. /\ s \in Process
      /\ s.pc \in {"read", "up"} /\ s.have = r.have
      /\ s.at = IF r.at = LastNeed(p) THEN r.at ELSE r.at + 1
      /\ s.pc = "up" => r.at = LastNeed(p)
  <2>1. CASE r.at = LastNeed(p)
    <3>1. s = [r EXCEPT !.pc = "up"]
      BY <2>1 DEF s
    <3>2. s.pc = "up" /\ s.at = r.at /\ s.have = r.have
      BY <1>3, <3>1
    <3>3. s \in Process
      BY <1>3, <1>6, <3>1, FieldsSet
    <3>. QED
      BY <2>1, <3>2, <3>3
  <2>2. CASE r.at # LastNeed(p)
    <3>1. s = [r EXCEPT !.pc = "read", !.at = r.at + 1]
      BY <2>2 DEF s
    <3>2. s.pc = "read" /\ s.at = r.at + 1 /\ s.have = r.have
      BY <1>3, <3>1
    <3>3. s \in Process
      BY <1>3, <1>6, <3>1, FieldsSet
    <3>. QED
      BY <2>2, <3>2, <3>3
  <2>. QED
    BY <2>1, <2>2
<1>8. r.at \in Secret..LastNeed(p)
  BY <1>3 DEF Placed, At
<1>9. s.at \in Secret..LastNeed(p) /\ (s.pc = "up" => s.at = LastNeed(p))
  BY <1>1, <1>7, <1>8 DEF Secret
<1>10. Advanced(p, v) = s
  BY DEF Advanced, r, s
<1>. QED
  BY <1>4, <1>5, <1>7, <1>9, <1>10

\* A process gets what a file holds, or what it has just put there.
LEMMA ProcessLoads ==
  ASSUME IInv, NEW p \in Procs, NEW v \in Nat, IsValue(v), Loaded(p, v),
         UNCHANGED <<draws, granted, raced>>,
         file' \in [Files -> Nat], file'[At(p)] = v,
         \A f \in Files \ {At(p)} : file'[f] = file[f],
         file[At(p)] = v \/ Writes(p, At(p))
  PROVE  IInv'
<1>. DEFINE s == Advanced(p, v)
<1>1. /\ s \in Process
      /\ s.pc \in {"read", "up"} /\ s.at \in Secret..LastNeed(p)
      /\ s.pc = "up" => s.at = LastNeed(p)
      /\ s.have[At(p)] = v
      /\ \A f \in Files \ {At(p)} : s.have[f] = proc[p].have[f]
      /\ IsValue(s.have[Secret])
  BY AdvancedFacts DEF IInv
<1>2. proc' = [proc EXCEPT ![p] = s]
      /\ used' = IF s.pc # "up" THEN used
                 ELSE [f \in Files |-> IF IsValue(s.have[f]) THEN used[f] \cup {s.have[f]} ELSE used[f]]
  BY DEF Loaded
<1>. HIDE DEF s
<1>3. proc'[p] = s /\ \A q \in Procs \ {p} : proc'[q] = proc[q]
  BY <1>2 DEF IInv, Typed
<1>4. \A f \in Files : \A w \in used'[f] : w \in used[f] \/ (w = s.have[f] /\ IsValue(w))
  BY <1>2 DEF IInv, Typed
<1>5. Typed'
  <2>1. used' \in [Files -> SUBSET Nat]
    BY <1>1, <1>2 DEF IInv, Typed
  <2>. QED
    BY <1>1, <1>2, <2>1 DEF IInv, Typed
<1>6. Placed'
  BY <1>1, <1>3 DEF IInv, Placed
<1>7. At(p) \in Files /\ Secret \in Files
  BY AtFile, NeedsFacts DEF IInv
<1>8. \A q \in Procs, f \in Files : Writes(q, f)' => q # p /\ Writes(q, f)
  BY <1>1, <1>3 DEF Writes, At
\* A file that p writes is short: nobody else has or has shown any of it.
<1>9. ASSUME NEW f \in Files \ raced PROVE Settled(f)'
  <2>1. Settled(f)
    BY DEF IInv
  <2>2. CASE f # At(p)
    <3>1. file'[f] = file[f] /\ s.have[f] = proc[p].have[f]
      BY <1>1, <2>2
    <3>2. \A q \in Procs : IsValue(proc'[q].have[f]) => proc'[q].have[f] = file'[f]
      BY <1>3, <2>1, <3>1 DEF Settled
    <3>3. \A w \in used'[f] : IsValue(w) /\ w = file'[f]
      BY <1>4, <2>1, <3>1 DEF Settled
    <3>. QED
      BY <1>8, <2>1, <3>1, <3>2, <3>3 DEF Settled, Writes, At
  <2>3. CASE f = At(p) /\ file[f] = v
    <3>1. \A q \in Procs : IsValue(proc'[q].have[f]) => proc'[q].have[f] = file'[f]
      BY <1>1, <1>3, <2>1, <2>3 DEF Settled
    <3>2. \A w \in used'[f] : IsValue(w) /\ w = file'[f]
      BY <1>1, <1>4, <2>1, <2>3 DEF Settled
    <3>3. \A q \in Procs : Writes(q, f)' => file'[f] = Short
      BY <1>8, <2>1, <2>3 DEF Settled
    <3>. QED
      BY <1>8, <2>1, <3>1, <3>2, <3>3 DEF Settled
  <2>4. CASE f = At(p) /\ Writes(p, f)
    <3>1. file[f] = Short /\ \A q \in Procs : ~Writes(q, f)'
      BY <1>8, <2>1, <2>4 DEF Settled
    <3>2. used[f] = {} /\ \A q \in Procs : ~IsValue(proc[q].have[f])
      BY <2>1, <3>1 DEF Settled, IsValue, Short
    <3>3. \A q \in Procs : IsValue(proc'[q].have[f]) => proc'[q].have[f] = file'[f]
      BY <1>1, <1>3, <2>4, <3>2
    <3>4. \A w \in used'[f] : IsValue(w) /\ w = file'[f]
      BY <1>1, <1>4, <2>4, <3>2
    <3>. QED
      BY <3>1, <3>3, <3>4 DEF Settled
  <2>. QED
    BY <2>2, <2>3, <2>4
<1>10. Earned'
  <2>1. CASE file'[Secret] = file[Secret]
    BY <2>1 DEF IInv, Earned, NewPolicy
  <2>2. CASE Secret = At(p) /\ Writes(p, Secret)
    <3>1. Secret \notin raced => file[Secret] = Short
      BY <2>2, <1>7 DEF IInv, Settled
    <3>2. Secret \notin raced => granted = {}
      BY <3>1 DEF IInv, Earned, IsValue, Short
    <3>. QED
      BY <3>2 DEF Earned
  <2>. QED
    BY <1>7, <2>1, <2>2
<1>. QED
  BY <1>5, <1>6, <1>9, <1>10 DEF IInv

\* Drawing a value and opening the file for it.
LEMMA ProcessCreates ==
  ASSUME IInv, NEW p \in Procs, ReadAbsent(p) \/ Create(p)
  PROVE  IInv'
<1>1. At(p) \in Files /\ Secret \in Files
  BY AtFile, NeedsFacts DEF IInv
<1>2. CASE ReadAbsent(p)
  <2>1. /\ proc'[p].pc = "create" /\ proc'[p].mine = draws + 1
        /\ proc'[p].at = proc[p].at /\ proc'[p].have = proc[p].have
        /\ \A q \in Procs \ {p} : proc'[q] = proc[q]
    BY <1>2 DEF ReadAbsent, IInv, Typed
  <2>2. Typed'
    <3>1. draws' = draws + 1 /\ UNCHANGED <<file, used, raced>>
      BY <1>2 DEF ReadAbsent
    <3>2. proc' = [proc EXCEPT ![p] = [proc[p] EXCEPT !.pc = "create", !.mine = draws + 1]]
      BY <1>2, <3>1 DEF ReadAbsent, IInv, Typed
    <3>3. [proc[p] EXCEPT !.pc = "create", !.mine = draws + 1]
            \in Process
      <4>1. "create" \in Points /\ draws + 1 \in Nat
        BY DEF IInv, Typed, Points
      <4>. QED
        BY <4>1, FieldsSet DEF IInv, Typed
    <3>. QED
      BY <3>1, <3>2, <3>3 DEF IInv, Typed, Short
  <2>3. Placed'
    BY <2>1 DEF IInv, Typed, Placed, IsValue, Short
  <2>4. \A q \in Procs, f \in Files : Writes(q, f)' => Writes(q, f)
    BY <2>1 DEF Writes, At
  <2>5. ASSUME NEW f \in Files \ raced' PROVE Settled(f)'
    <3>1. UNCHANGED <<file, used, raced>>
      BY <1>2 DEF ReadAbsent
    <3>2. Settled(f)
      BY <3>1 DEF IInv
    <3>3. \A q \in Procs : proc'[q].have = proc[q].have
      BY <2>1
    <3>. QED
      BY <2>4, <3>1, <3>2, <3>3 DEF Settled
  <2>6. Earned'
    BY <1>2 DEF ReadAbsent, IInv, Earned, NewPolicy
  <2>. QED
    BY <2>2, <2>3, <2>5, <2>6 DEF IInv
<1>3. CASE Create(p)
  <2>1. /\ proc'[p].pc = "write" /\ proc[p].pc = "create" /\ proc'[p].mine = proc[p].mine
        /\ proc'[p].at = proc[p].at /\ proc'[p].have = proc[p].have
        /\ \A q \in Procs \ {p} : proc'[q] = proc[q]
    BY <1>3 DEF Create, IInv, Typed
  <2>2. /\ file'[At(p)] = Short
        /\ \A f \in Files \ {At(p)} : file'[f] = file[f]
        /\ \A f \in Files \ raced' : f \notin raced /\ (f = At(p) => file[f] = Absent)
    BY <1>1, <1>3 DEF Create, IInv, Typed
  <2>3. Typed'
    <3>1. proc' = [proc EXCEPT ![p] = [proc[p] EXCEPT !.pc = "write"]]
      BY <1>3 DEF Create, IInv, Typed
    <3>2. [proc[p] EXCEPT !.pc = "write"] \in Process
      <4>1. "write" \in Points
        BY DEF Points
      <4>. QED
        BY <4>1, FieldsSet DEF IInv, Typed
    <3>3. file' \in [Files -> Nat] /\ raced' \subseteq Files /\ UNCHANGED <<draws, used>>
      BY <1>1, <1>3 DEF Create, IInv, Typed, Short
    <3>. QED
      BY <3>1, <3>2, <3>3 DEF IInv, Typed
  <2>4. Placed'
    BY <2>1 DEF IInv, Placed
  <2>5. \A q \in Procs, f \in Files : Writes(q, f)' => Writes(q, f) \/ (q = p /\ f = At(p))
    BY <2>1 DEF Writes, At
  <2>6. ASSUME NEW f \in Files \ raced' PROVE Settled(f)'
    <3>1. Settled(f) /\ used'[f] = used[f]
      BY <1>3, <2>2 DEF IInv, Create
    <3>2. CASE f # At(p)
      BY <2>1, <2>2, <2>5, <3>1, <3>2 DEF Settled
    <3>3. CASE f = At(p)
      <4>1. file[f] = Absent /\ file'[f] = Short
        BY <2>2, <3>3
      <4>2. \A q \in Procs : ~Writes(q, f) /\ ~IsValue(proc[q].have[f])
        BY <3>1, <4>1 DEF Settled, Absent, Short, IsValue
      <4>3. used[f] = {}
        BY <3>1, <4>1 DEF Settled, Absent, Short, IsValue
      <4>. QED
        BY <2>1, <2>5, <3>1, <4>1, <4>2, <4>3 DEF Settled
    <3>. QED
      BY <3>2, <3>3
  <2>7. Earned'
    <3>1. granted' = granted
      BY <1>3 DEF Create
    <3>2. CASE Secret # At(p)
      BY <1>1, <2>2, <3>1, <3>2 DEF IInv, Earned, NewPolicy
    <3>3. CASE Secret = At(p)
      <4>1. Secret \notin raced' => Secret \notin raced /\ file[Secret] = Absent
        BY <1>1, <2>2, <3>3
      <4>2. Secret \notin raced' => granted = {}
        BY <4>1 DEF IInv, Earned, IsValue, Absent, Short
      <4>. QED
        BY <3>1, <4>2 DEF Earned
    <3>. QED
      BY <3>2, <3>3
  <2>. QED
    BY <2>3, <2>4, <2>6, <2>7 DEF IInv
<1>. QED
  BY <1>2, <1>3

\* The operator takes away a file that nobody writes, and that nobody can have used.
LEMMA FileRemoved ==
  ASSUME IInv, NEW f \in Files, Remove(f)
  PROVE  IInv'
<1>1. /\ file' \in [Files -> Nat] /\ file'[f] = Absent /\ file[f] = Short
      /\ \A g \in Files \ {f} : file'[g] = file[g]
      /\ \A p \in Procs : ~Writes(p, f)
      /\ UNCHANGED <<proc, draws, used, granted, raced>>
  BY DEF Remove, LeftShort, Writes, IInv, Typed, Absent
<1>2. Typed' /\ Placed'
  BY <1>1 DEF IInv, Typed, Placed
<1>3. ASSUME NEW g \in Files \ raced PROVE Settled(g)'
  <2>1. Settled(g)
    BY DEF IInv
  <2>2. \A p \in Procs : Writes(p, g)' <=> Writes(p, g)
    BY <1>1 DEF Writes, At
  <2>3. CASE g # f
    BY <1>1, <2>1, <2>2, <2>3 DEF Settled
  <2>4. CASE g = f
    <3>1. used[f] = {} /\ \A p \in Procs : ~IsValue(proc[p].have[f])
      BY <1>1, <2>1, <2>4 DEF Settled, IsValue, Short
    <3>. QED
      BY <1>1, <2>2, <2>4, <3>1 DEF Settled
  <2>. QED
    BY <2>3, <2>4
<1>4. Earned'
  <2>1. CASE Secret = f
    <3>1. Secret \notin raced => granted = {}
      BY <1>1, <2>1 DEF IInv, Earned, IsValue, Short
    <3>. QED
      BY <1>1, <3>1 DEF Earned
  <2>2. CASE Secret # f
    BY <1>1, <2>2, NeedsFacts DEF IInv, Earned, NewPolicy
  <2>. QED
    BY <2>1, <2>2
<1>. QED
  BY <1>1, <1>2, <1>3, <1>4 DEF IInv

\* A login is granted by the secret that the node has, which is the one on disk.
LEMMA LoginGranted ==
  ASSUME IInv, NEW user \in Names, NEW pass \in Passwords, Login(user, pass)
  PROVE  IInv'
<1>1. /\ proc["node"].pc = "up"
      /\ Accept(proc["node"].have[Secret], user, pass)
      /\ granted' = granted \cup {[account |-> Fold[user], pass |-> pass]}
      /\ UNCHANGED <<file, proc, draws, used, raced>>
  BY DEF Login
<1>2. Typed' /\ Placed'
  BY <1>1 DEF IInv, Typed, Placed
<1>3. \A f \in Files \ raced' : Settled(f)'
  BY <1>1 DEF IInv, Settled, Writes, At
<1>4. Earned'
  <2>. SUFFICES ASSUME Secret \notin raced, NEW g \in granted'
                PROVE  /\ IsValue(file[Secret])
                       /\ g.account \in DOMAIN NewPolicy(file[Secret])
                       /\ g.pass = NewPolicy(file[Secret])[g.account]
    BY <1>1 DEF Earned, NewPolicy
  <2>1. CASE g \in granted
    BY <2>1 DEF IInv, Earned
  <2>2. CASE g = [account |-> Fold[user], pass |-> pass]
    <3>1. "node" \in Procs
      BY DEF Procs
    <3>2. IsValue(proc["node"].have[Secret])
      BY <1>1, <3>1 DEF IInv, Placed
    <3>3. proc["node"].have[Secret] = file[Secret]
      BY <3>1, <3>2, NeedsFacts DEF IInv, Settled
    <3>. QED
      BY <1>1, <2>2, <3>2, <3>3 DEF Accept
  <2>. QED
    BY <1>1, <2>1, <2>2
<1>. QED
  BY <1>1, <1>2, <1>3, <1>4 DEF IInv

\* Every step keeps the invariant.
LEMMA NextOK == IInv /\ [Next]_vars => IInv'
<1>. SUFFICES ASSUME IInv, [Next]_vars PROVE IInv'
  OBVIOUS
<1>1. ASSUME NEW p \in Procs, Start(p) PROVE IInv'
  BY <1>1, ProcessStarts DEF Start
<1>2. ASSUME NEW p \in Procs, ReadWhole(p) PROVE IInv'
  <2>1. At(p) \in Files /\ file[At(p)] \in Nat
    BY AtFile DEF IInv, Typed
  <2>2. file' \in [Files -> Nat]
    BY <1>2 DEF ReadWhole, IInv, Typed
  <2>. QED
    BY <1>2, <2>1, <2>2, ProcessLoads DEF ReadWhole
<1>3. ASSUME NEW p \in Procs, Write(p) PROVE IInv'
  <2>1. At(p) \in Files /\ proc[p].mine \in Nat /\ IsValue(proc[p].mine)
    BY <1>3, AtFile DEF Write, IInv, Typed, Placed
  <2>2. /\ file' \in [Files -> Nat] /\ file'[At(p)] = proc[p].mine
        /\ \A f \in Files \ {At(p)} : file'[f] = file[f]
    BY <1>3, <2>1 DEF Write, IInv, Typed
  <2>3. Writes(p, At(p))
    BY <1>3 DEF Write, Writes
  <2>. QED
    BY <1>3, <2>1, <2>2, <2>3, ProcessLoads DEF Write
<1>4. ASSUME NEW p \in Procs, ReadAbsent(p) \/ Create(p) PROVE IInv'
  BY <1>4, ProcessCreates
\* A process that exits is back where it was before it was started.
<1>5. ASSUME NEW p \in Procs, ReadShort(p) \/ Die(p) \/ (p = "tool" /\ Exit) PROVE IInv'
  <2>1. Down = [Down EXCEPT !.pc = "down"]
    BY DEF Down
  <2>2. proc' = [proc EXCEPT ![p] = Down] /\ UNCHANGED <<file, draws, used, granted, raced>>
    BY <1>5 DEF ReadShort, Die, Exit
  <2>. QED
    BY <2>1, <2>2, ProcessStarts
<1>6. ASSUME NEW f \in Files, Remove(f) PROVE IInv'
  BY <1>6, FileRemoved
<1>7. ASSUME NEW user \in Names, NEW pass \in Passwords, Login(user, pass) PROVE IInv'
  BY <1>7, LoginGranted
<1>8. CASE UNCHANGED vars
  <2>1. Typed' /\ Placed'
    BY <1>8 DEF vars, IInv, Typed, Placed
  <2>2. \A f \in Files \ raced' : Settled(f)'
    BY <1>8 DEF vars, IInv, Settled, Writes, At
  <2>3. Earned'
    BY <1>8 DEF vars, IInv, Earned, NewPolicy
  <2>. QED
    BY <2>1, <2>2, <2>3 DEF IInv
<1>9. "tool" \in Procs
  BY DEF Procs
<1>. QED
  BY <1>1, <1>2, <1>3, <1>4, <1>5, <1>6, <1>7, <1>8, <1>9 DEF Next, Load

\* LoadOrCreateSecret and loadOrCreateHostKeys: a secret or a key that was shown is the
\* only one ever shown, whatever crashes when, unless two processes raced to make it.
THEOREM IdentityIsOne == Spec => []OneIdentity
<1>1. IInv => OneIdentity
  BY DEF IInv, Settled, OneIdentity
<1>. QED
  BY InitOK, NextOK, <1>1, PTL DEF Spec

\* Policy.Accept across restarts: what was granted once is granted again under every
\* spelling of the name, and nothing else is.
THEOREM LoginsNeverContradict == Spec => []NeverContradicts
<1>1. IInv => NeverContradicts
  <2>. SUFFICES ASSUME IInv, proc["node"].pc = "up", Secret \notin raced,
                       NEW g \in granted, NEW user \in Names, NEW pass \in Passwords,
                       Fold[user] = g.account
                PROVE  Accept(proc["node"].have[Secret], user, pass) <=> pass = g.pass
    BY DEF NeverContradicts
  <2>1. "node" \in Procs /\ Secret \in Files
    BY NeedsFacts DEF Procs
  <2>2. proc["node"].have[Secret] = file[Secret]
    BY <2>1 DEF IInv, Placed, Settled
  <2>3. g.account \in DOMAIN NewPolicy(file[Secret])
        /\ g.pass = NewPolicy(file[Secret])[g.account]
    BY DEF IInv, Earned
  <2>. QED
    BY <2>2, <2>3 DEF Accept
<1>. QED
  BY InitOK, NextOK, <1>1, PTL DEF Spec
=============================================================================
