------------------------------ MODULE Identity ------------------------------
(***************************************************************************)
(* What a node is to its visitors, and how that survives restarts: the     *)
(* credential secret and the host keys, made on the first start and read   *)
(* on every other (node/internal/credentials, sshd/server.go), and the     *)
(* logins derived from the secret.                                         *)
(*                                                                         *)
(* Two processes use the files: the node, and honeynode -credentials,      *)
(* which an operator may run at any time.  Either may die between any two  *)
(* system calls; os.WriteFile is two of them, one that leaves the file     *)
(* short and one that fills it.  systemd starts the node again.            *)
(***************************************************************************)
EXTENDS Naturals, Sequences

CONSTANTS
  HostKeys,       \* how many host key files sshd loads; files 1 to HostKeys
  Names,          \* what a client may send as its user name
  Fold,           \* strings.ToLower(strings.TrimSpace(_)) on Names
  Roster,         \* the personality's account names
  WeakAccounts,   \* the accounts that get a password of the first list
  HeadPasswords, TailPasswords,
  Mac,            \* what HMAC makes of a secret and an account
  MaxFaults       \* bound: crashes and failed system calls

Passwords == {HeadPasswords[i] : i \in DOMAIN HeadPasswords}
             \cup {TailPasswords[i] : i \in DOMAIN TailPasswords}

ASSUME IdentityAssumption ==
  /\ Roster \subseteq Names
  /\ HostKeys \in Nat
  /\ HeadPasswords # << >> /\ TailPasswords # << >>
  /\ MaxFaults \in Nat

Procs == {"node", "tool"}
Files == 0..HostKeys
Secret == 0

\* A process loads the files from Secret to this one, in order.
LastNeed(p) == IF p = "node" THEN HostKeys ELSE Secret

Absent == 0
Short == 1
\* Random values are numbers from 2, none drawn twice.
IsValue(v) == v > Short

VARIABLES
  file,     \* what each file holds: Absent, Short or a value
  proc,     \* a process: its point pc, the file it is at, its new value, what it has loaded
  draws,    \* the last value drawn
  used,     \* the values of each file that a visitor or an operator has seen at work
  granted,  \* the logins granted: [account, pass]
  raced,    \* files that a process made although another had made them meanwhile
  faults

vars == <<file, proc, draws, used, granted, raced, faults>>

Down == [pc |-> "down", at |-> Secret, mine |-> Absent, have |-> [f \in Files |-> Absent]]

Init ==
  /\ file = [f \in Files |-> Absent]
  /\ proc = [p \in Procs |-> Down]
  /\ draws = Short
  /\ used = [f \in Files |-> {}]
  /\ granted = {} /\ raced = {} /\ faults = 0

At(p) == proc[p].at
-----------------------------------------------------------------------------
(* The logins *)

\* derivePassword
DerivePassword(secret, account) ==
  LET list == IF account \in WeakAccounts THEN HeadPasswords ELSE TailPasswords
  IN list[(Mac[secret, account] % Len(list)) + 1]

\* NewPolicy over AccountsFrom: one password for each folded name; an empty name is none.
NewPolicy(secret) ==
  [a \in {Fold[n] : n \in Roster} \ {""} |-> DerivePassword(secret, a)]

\* Mutant: the name is looked up as it was sent.
AcceptRaw(secret, user, pass) ==
  user \in DOMAIN NewPolicy(secret) /\ pass = NewPolicy(secret)[user]

Accept(secret, user, pass) ==
  Fold[user] \in DOMAIN NewPolicy(secret) /\ pass = NewPolicy(secret)[Fold[user]]
-----------------------------------------------------------------------------
(* LoadOrCreateSecret and loadOrCreateHostKeys *)

\* The process once it has v for the file it is at.
Advanced(p, v) ==
  LET s == [proc[p] EXCEPT !.have[At(p)] = v, !.mine = Absent]
  IN IF s.at = LastNeed(p) THEN [s EXCEPT !.pc = "up"] ELSE [s EXCEPT !.pc = "read", !.at = @ + 1]

\* The processes once p has v; a process that is up shows what it has.
Loaded(p, v) ==
  LET s == Advanced(p, v)
  IN /\ proc' = [proc EXCEPT ![p] = s]
     /\ used' = IF s.pc # "up" THEN used
                ELSE [f \in Files |-> IF IsValue(s.have[f]) THEN used[f] \cup {s.have[f]} ELSE used[f]]

Start(p) ==
  /\ proc[p].pc = "down"
  /\ proc' = [proc EXCEPT ![p] = [Down EXCEPT !.pc = "read"]]
  /\ UNCHANGED <<file, draws, used, granted, raced, faults>>

ReadWhole(p) ==
  /\ proc[p].pc = "read" /\ IsValue(file[At(p)])
  /\ Loaded(p, file[At(p)])
  /\ UNCHANGED <<file, draws, granted, raced, faults>>

\* "too short", or a key that does not parse: the process exits.
ReadShort(p) ==
  /\ proc[p].pc = "read" /\ file[At(p)] = Short
  /\ proc' = [proc EXCEPT ![p] = Down]
  /\ UNCHANGED <<file, draws, used, granted, raced, faults>>

\* Mutant: a file that is not there is an error like any other.
ReadAbsentFails(p) ==
  /\ proc[p].pc = "read" /\ file[At(p)] = Absent
  /\ proc' = [proc EXCEPT ![p] = Down]
  /\ UNCHANGED <<file, draws, used, granted, raced, faults>>

ReadAbsent(p) ==
  /\ proc[p].pc = "read" /\ file[At(p)] = Absent
  /\ draws' = draws + 1
  /\ proc' = [proc EXCEPT ![p].pc = "create", ![p].mine = draws']
  /\ UNCHANGED <<file, used, granted, raced, faults>>

\* os.WriteFile opens the file, empty.
Create(p) ==
  /\ proc[p].pc = "create"
  /\ file' = [file EXCEPT ![At(p)] = Short]
  /\ raced' = IF file[At(p)] = Absent THEN raced ELSE raced \cup {At(p)}
  /\ proc' = [proc EXCEPT ![p].pc = "write"]
  /\ UNCHANGED <<draws, used, granted, faults>>

\* Mutant: the value is used and not kept.
WriteForgets(p) ==
  /\ proc[p].pc = "write"
  /\ file' = [file EXCEPT ![At(p)] = Absent]
  /\ Loaded(p, proc[p].mine)
  /\ UNCHANGED <<draws, granted, raced, faults>>

\* ... and fills it; the value goes on in memory.
Write(p) ==
  /\ proc[p].pc = "write"
  /\ file' = [file EXCEPT ![At(p)] = proc[p].mine]
  /\ Loaded(p, proc[p].mine)
  /\ UNCHANGED <<draws, granted, raced, faults>>

\* A failed call, an error of the spool or a port in use ends the process with an error;
\* a crash ends it without.  What the files hold is left as it is.
Die(p) ==
  /\ proc[p].pc # "down" /\ faults < MaxFaults
  /\ faults' = faults + 1
  /\ proc' = [proc EXCEPT ![p] = Down]
  /\ UNCHANGED <<file, draws, used, granted, raced>>

\* honeynode -credentials has printed.
Exit ==
  /\ proc["tool"].pc = "up"
  /\ proc' = [proc EXCEPT !["tool"] = Down]
  /\ UNCHANGED <<file, draws, used, granted, raced, faults>>

\* A death between the two calls of os.WriteFile left f short: nothing is about to fill it.
LeftShort(f) ==
  /\ file[f] = Short
  /\ \A p \in Procs : ~(proc[p].pc = "write" /\ At(p) = f)

\* An operator may remove such a file, and need not.  The error of LoadOrCreateSecret asks
\* for it, the one about a host key does not, and no code of the node does it.
Remove(f) ==
  /\ LeftShort(f)
  /\ file' = [file EXCEPT ![f] = Absent]
  /\ UNCHANGED <<proc, draws, used, granted, raced, faults>>

\* handlePassword and authenticate: the listeners have built their policies from one secret.
Login(user, pass) ==
  /\ proc["node"].pc = "up"
  /\ Accept(proc["node"].have[Secret], user, pass)
  /\ granted' = granted \cup {[account |-> Fold[user], pass |-> pass]}
  /\ UNCHANGED <<file, proc, draws, used, raced, faults>>

Load(p) == ReadWhole(p) \/ ReadShort(p) \/ ReadAbsent(p) \/ Create(p) \/ Write(p)

Next ==
  \/ \E p \in Procs : Start(p) \/ Load(p) \/ Die(p)
  \/ Exit
  \/ \E f \in Files : Remove(f)
  \/ \E user \in Names, pass \in Passwords : Login(user, pass)

\* A process runs on unless it dies, and systemd starts the node again (Restart=always).
\* Nothing is assumed of the operator.
Fairness ==
  /\ \A p \in Procs : WF_vars(Load(p))
  /\ WF_vars(Start("node"))

Spec == Init /\ [][Next]_vars /\ Fairness
-----------------------------------------------------------------------------
(* Properties *)

\* LoadOrCreateSecret, "persisting matters": whatever dies when, a secret or a host key
\* that was ever shown is the only one that is ever shown, by the node in all its lives
\* and by honeynode -credentials; unless the two made the file at the same time.
OneIdentity == \A f \in Files \ raced : \A v, w \in used[f] : v = w

\* Policy, "every account has exactly one password, that password never changes": a login
\* granted once is granted again in every later life of the node, in every spelling of the
\* name, and no other password is granted for it.
NeverContradicts ==
  (proc["node"].pc = "up" /\ Secret \notin raced) =>
    \A g \in granted : \A user \in Names, pass \in Passwords :
      Fold[user] = g.account => (Accept(proc["node"].have[Secret], user, pass) <=> pass = g.pass)

\* honeynode.service, Restart=always: once nothing fails any more the node comes up and
\* stays up, from any mixture of files that are there and files that are not, and whatever
\* the tool does meanwhile; unless a death left a file short that nobody has removed.  Such
\* a file keeps the node in a loop of restarts for ever.
ComesUp == <>[](proc["node"].pc = "up" \/ \E f \in Files : LeftShort(f))
=============================================================================
