---------------------------- MODULE ShellCommands ----------------------------
(***************************************************************************)
(* The commands of the emulated shell, node/internal/shell/commands.go.    *)
(*                                                                         *)
(* A command takes the session, its arguments and what the pipe carries,   *)
(* and gives back the session, an output and an exit code.  Output is a    *)
(* sequence of units: the words that went in, file contents, names, "nl"   *)
(* for a line's end, and "text" for whatever else the emulator renders.    *)
(***************************************************************************)
EXTENDS Integers, Vfs, ShellSyntax

CONSTANT MaxBlock   \* the 1 MiB that dd writes at most, in units

ASSUME CommandsAssumption == MaxBlock \in Nat

Text == <<"text">>
Reply(sh, out, code) == [sh |-> sh, out |-> out, code |-> code]

\* Exit code 0 for root, an error for everyone else.
RootOnly(sh, out, code) == IF sh.uid = "root" THEN Reply(sh, out, 0) ELSE Reply(sh, Text, code)

IsFlag(w) == Len(w) > 1 /\ w[1] = "-"
Operands(args) == SelectSeq(args, LAMBDA w : ~IsFlag(w))
\* Short flags may be bundled; a long one is a single symbol.
HasFlag(args, flags) == \E i \in DOMAIN args : IsFlag(args[i]) /\ ToSet(args[i]) \cap flags # {}
\* The word after the last occurrence of one of some flags.
FlagValue(args, flags, default) ==
  LET at == {i \in 1..(Len(args) - 1) : args[i] \in flags}
  IN IF at = {} THEN default ELSE args[Max(at) + 1]

Number(w, default) == CASE w = <<"0">> -> 0 [] w = <<"1">> -> 1 [] w = <<"9">> -> 9 [] w = <<"-", "1">> -> -1
                        [] OTHER -> default

PathWord(p) == IF p = << >> THEN <<"/">> ELSE FlattenSeq([i \in DOMAIN p |-> <<"/", p[i]>>])
At(sh, w) == Clean(sh.cwd, w)
Get(sh, name) == IF name \in DOMAIN sh.env THEN sh.env[name] ELSE << >>
Assign(sh, name, w) == [sh EXCEPT !.env = (name :> w) @@ @]

\* The words between blanks and line ends.
Fields(units) ==
  LET step(r, u) == IF u \in {" ", "nl"} THEN [done |-> r.done \o r.word, word |-> << >>]
                    ELSE [r EXCEPT !.word = IF @ = << >> THEN <<<<u>>>> ELSE <<Append(@[1], u)>>]
      end == FoldLeft(step, [done |-> << >>, word |-> << >>], units)
  IN end.done \o end.word

\* The effect of one file operation on a command that goes on with its next operand.
Effect(r, res, code) ==
  IF r.sh.down THEN r
  ELSE [r EXCEPT !.sh.fs = res.fs, !.sh.down = res.err = "panic",
                 !.out = IF res.err \in {"", "panic"} THEN @ ELSE @ \o Text,
                 !.code = IF res.err = "" THEN @ ELSE code]
\* The same, of an operation whose error the code drops.
Quiet(r, res) == Effect(r, [res EXCEPT !.err = IF @ = "panic" THEN @ ELSE ""], 0)
ForEach(sh, words, op(_, _)) == FoldLeft(op, Reply(sh, << >>, 0), words)
-----------------------------------------------------------------------------
(* Files: looking *)

LS(sh, args) ==
  LET targets == IF Operands(args) = << >> THEN <<<<".">>>> ELSE Operands(args)
      shown(names) == IF HasFlag(args, {"a", "all"}) THEN names ELSE names \ {".rc"}
      lines(names) == FlattenSeq([i \in DOMAIN SetToSeq(names) |-> <<SetToSeq(names)[i], "nl">>])
      list(r, w) ==
        LET l == Lookup(sh.fs, At(sh, w), TRUE)
            names == IF sh.fs.tree[l.at].kind = "dir"
                     THEN {BaseOf(q) : q \in Children(sh.fs, l.at)} ELSE {BaseOf(l.at)}
            header == IF Len(targets) > 1 THEN Text ELSE << >>
        IN IF l.err # "" THEN [r EXCEPT !.out = @ \o header \o Text, !.code = 2]
           ELSE [r EXCEPT !.out = @ \o header \o IF HasFlag(args, {"l"}) THEN Text
                                                ELSE lines(shown(names))]
  IN ForEach(sh, targets, list)

CD(sh, args) ==
  LET asked == IF Operands(args) = << >> THEN Get(sh, "HOME") ELSE Operands(args)[1]
      target == IF asked = <<"-">> THEN Get(sh, "OLDPWD") ELSE asked
      p == At(sh, target)
  IN IF (asked = <<"-">> /\ target = << >>) \/ ~IsDir(sh.fs, p) THEN Reply(sh, Text, 1)
     ELSE Reply([Assign(Assign(sh, "OLDPWD", PathWord(sh.cwd)), "PWD", PathWord(p))
                 EXCEPT !.cwd = p], << >>, 0)

\* Root reads everything, others what they own or what is open.
Cat(sh, args, stdin) ==
  LET show(r, w) ==
        LET l == Lookup(sh.fs, At(sh, w), TRUE)
            n == sh.fs.tree[l.at]
            file == ReadFile(sh.fs, At(sh, w))
            denied == l.err = "" /\ sh.uid # "root" /\ ~n.open /\ n.owner # sh.uid
        IN IF denied \/ file.err # "" THEN [r EXCEPT !.out = @ \o Text, !.code = 1]
           ELSE [r EXCEPT !.out = @ \o file.content.data]
  IN IF Operands(args) = << >> THEN Reply(sh, stdin, 0) ELSE ForEach(sh, Operands(args), show)

\* What the pipe carries, in the place of a file.
Piped(stdin) == [content |-> Content(0, stdin), err |-> ""]

\* The text without the line end it may end with.
Chomp(units) == IF units # << >> /\ Last(units) = "nl" THEN Front(units) ELSE units

\* None of the lines of a text, the first or last one, or all when more are asked for.
Excerpt(name, count, body) ==
  LET ends == {i \in DOMAIN body : body[i] = "nl"}
  IN IF count = 0 THEN << >>
     ELSE IF count # 1 \/ ends = {} THEN body
     ELSE IF name = "head" THEN SubSeq(body, 1, Min(ends) - 1)
     ELSE SubSeq(body, Max(ends) + 1, Len(body))

Ends(sh, name, count, file) ==
  IF file.err # "" THEN Reply(sh, Text, 1)
  ELSE IF Chomp(file.content.data) = << >> THEN Reply(sh, << >>, 0)
  ELSE IF count < 0 THEN Reply([sh EXCEPT !.down = TRUE], << >>, 0)
  ELSE Reply(sh, Append(Excerpt(name, count, Chomp(file.content.data)), "nl"), 0)

\* Every "-n N", "-nN" and "-N" sets the count, the last one wins; a negative one is
\* taken as it is, and the slice is out of range.
HeadTail(sh, name, args, stdin) ==
  LET step(c, i) == CASE args[i] = <<"-", "n">> /\ i < Len(args) -> Number(args[i + 1], c)
                      [] Len(args[i]) > 2 /\ IsPrefix(<<"-", "n">>, args[i]) ->
                           Number(SubSeq(args[i], 3, Len(args[i])), c)
                      [] IsFlag(args[i]) /\ ~IsPrefix(<<"-", "n">>, args[i]) -> Number(Tail(args[i]), c)
                      [] OTHER -> c
      count == FoldLeft(step, 10, [i \in DOMAIN args |-> i])
      named == {i \in DOMAIN args : ~IsFlag(args[i]) /\ (i = 1 \/ args[i - 1] # <<"-", "n">>)}
  IN IF named = {} THEN Ends(sh, name, count, Piped(stdin))
     ELSE Ends(sh, name, count, ReadFile(sh.fs, At(sh, args[Min(named)])))

\* echo and printf: variables are replaced, and with -e or printf the escapes.
RECURSIVE Expand(_, _)
Expand(sh, w) ==
  IF w = << >> THEN << >>
  ELSE IF w[1] # "$" \/ Len(w) = 1 THEN <<w[1]>> \o Expand(sh, Tail(w))
  ELSE IF w[2] = "?" THEN <<IF sh.exitCode = 0 THEN "zero" ELSE "nonzero">> \o Expand(sh, SubSeq(w, 3, Len(w)))
  ELSE Get(sh, w[2]) \o Expand(sh, SubSeq(w, 3, Len(w)))

RECURSIVE Unescape(_)
Unescape(u) ==
  IF u = << >> THEN << >>
  ELSE IF u[1] # "\\" \/ Len(u) = 1 THEN <<u[1]>> \o Unescape(Tail(u))
  ELSE LET two(out) == out \o Unescape(SubSeq(u, 3, Len(u)))
       IN CASE u[2] = "n" -> two(<<"nl">>)
            [] u[2] = "\\" -> two(<<"\\">>)
            [] u[2] = "x" /\ Len(u) > 2 /\ u[3] = "41" -> <<"A">> \o Unescape(SubSeq(u, 4, Len(u)))
            [] OTHER -> two(<<"\\", u[2]>>)

Echo(sh, name, args) ==
  LET flags == {<<"-", "n">>, <<"-", "e">>, <<"-", "n", "e">>, <<"-", "e", "n">>}
      leading == Max({k \in 0..Len(args) : \A i \in 1..k : args[i] \in flags})
      has(c) == \E i \in 1..leading : c \in ToSet(args[i])
      parts == [i \in 1..(Len(args) - leading) |-> Expand(sh, args[leading + i])]
      joined == FlattenSeq([i \in DOMAIN parts |-> IF i = 1 THEN parts[i] ELSE <<" ">> \o parts[i]])
      out == IF has("e") \/ name = "printf" THEN Unescape(joined) ELSE joined
  IN Reply(sh, IF has("n") \/ name = "printf" THEN out ELSE Append(out, "nl"), 0)
-----------------------------------------------------------------------------
(* Asking about the machine: nothing changes *)

\* whoami, id, groups, uname, hostname.  The -u of a bundled "-un" answers first.
Identity(sh, name, args) ==
  CASE name = "whoami" -> Reply(sh, <<sh.user, "nl">>, 0)
    [] name = "id" /\ HasFlag(args, {"u"}) -> Reply(sh, <<sh.uid, "nl">>, 0)
    [] OTHER -> Reply(sh, Text, 0)

\* ps, top, htop, uptime; pgrep succeeds when the process table has the pattern
Processes(sh, name, args) ==
  IF name # "pgrep" THEN Reply(sh, Text, 0)
  ELSE IF Operands(args) = << >> THEN Reply(sh, << >>, 2)
  ELSE IF Operands(args)[1] = <<"sshd">> THEN Reply(sh, Text, 0) ELSE Reply(sh, << >>, 1)

\* free, df, nproc, lscpu; du looks its target up
Resources(sh, name, args) ==
  LET target == IF Operands(args) = << >> THEN <<".">> ELSE Operands(args)[1]
  IN Reply(sh, Text, IF name = "du" /\ ~Exists(sh.fs, At(sh, target)) THEN 1 ELSE 0)

\* netstat, ss, ifconfig; ip knows addresses and routes
Network(sh, name, args) ==
  LET known == Operands(args) # << >> /\ Operands(args)[1] \in {<<"addr">>, <<"route">>}
  IN Reply(sh, Text, IF name = "ip" /\ ~known THEN 1 ELSE 0)

\* w, who, last; users names the user alone
Logins(sh, name) == Reply(sh, IF name = "users" THEN <<sh.user, "nl">> ELSE Text, 0)
-----------------------------------------------------------------------------
(* Fetching: a placeholder appears where the download would be; errors are dropped *)

Placeholder(r, w) ==
  Quiet(r, WriteFile(r.sh.fs, At(r.sh, w), Fresh(r.sh.fs, <<"zero">>), r.sh.uid))

\* urlParts: the last name of the address's path.
FileOf(url) == IF Len(url) = 1 \/ Last(url) = "/" THEN <<"index">> ELSE <<Last(url)>>

Wget(sh, args) ==
  LET urls == SetToSeq(ExtractURLs(args))
      fetch(r, u) == Placeholder(r, FlagValue(args, {<<"-", "O">>}, FileOf(u)))
  IN IF urls = << >> THEN Reply(sh, Text, 1)
     ELSE [ForEach(sh, urls, fetch) EXCEPT !.out = IF HasFlag(args, {"q"}) THEN << >> ELSE Text]

Curl(sh, args) ==
  LET urls == SetToSeq(ExtractURLs(args))
      flags == {i \in DOMAIN args : args[i] = <<"-", "O">> \/ (args[i] = <<"-", "o">> /\ i < Len(args))}
      name == IF args[Max(flags)] = <<"-", "O">> THEN FileOf(urls[1]) ELSE args[Max(flags) + 1]
  IN IF urls = << >> THEN Reply(sh, Text, 2)
     ELSE IF flags = {} \/ name = << >> THEN Reply(sh, << >>, 0)
     ELSE Placeholder(Reply(sh, << >>, 0), name)

Tftp(sh, args) ==
  LET named == SelectSeq([i \in DOMAIN args |-> i], LAMBDA i : i < Len(args) /\
                 args[i] \in {<<"-", "g">>, <<"-", "r">>, <<"-", "c">>})
      fetch(r, i) == Placeholder(r, <<Last(args[i + 1])>>)
  IN ForEach(sh, named, fetch)

\* ftp never connects; nc succeeds only when it listens
Connect(sh, name, args) ==
  CASE name = "ftp" -> Reply(sh, Text, 1)
    [] OTHER -> Reply(sh, << >>, IF HasFlag(args, {"l"}) THEN 0 ELSE 1)
-----------------------------------------------------------------------------
(* Files: changing *)

\* parseMode, as far as it decides who may read.
Opens(mode) == mode \notin {<<"600">>, <<"700">>}

ChmodCmd(sh, args) ==
  LET ops == Operands(args)
      change(r, w) == Effect(r, Chmod(r.sh.fs, At(sh, w), Opens(ops[1])), 1)
  IN IF Len(ops) < 2 THEN Reply(sh, Text, 1) ELSE ForEach(sh, Tail(ops), change)

ChownCmd(sh, args) ==
  IF Len(Operands(args)) < 2 THEN Reply(sh, Text, 1) ELSE RootOnly(sh, << >>, 1)

RM(sh, args) ==
  LET recursive == HasFlag(args, {"r", "R", "recursive"})
      unlink(r, w) ==
        LET res == RemoveEntry(r.sh.fs, At(sh, w), recursive)
        IN IF HasFlag(args, {"f", "force"}) THEN Quiet(r, res) ELSE Effect(r, res, 1)
  IN ForEach(sh, Operands(args), unlink)

MkdirCmd(sh, args) ==
  LET make(r, w) == IF HasFlag(args, {"p", "parents"})
                    THEN Effect(r, MkdirAll(r.sh.fs, At(sh, w), sh.uid), 1)
                    ELSE Effect(r, Mkdir(r.sh.fs, At(sh, w), sh.uid), 1)
  IN ForEach(sh, Operands(args), make)

RmdirCmd(sh, args) ==
  LET unlink(r, w) == Effect(r, RemoveEntry(r.sh.fs, At(sh, w), FALSE), 1)
  IN ForEach(sh, Operands(args), unlink)

TouchCmd(sh, args) ==
  LET touch(r, w) == Quiet(r, Touch(r.sh.fs, At(sh, w), sh.uid))
  IN ForEach(sh, Operands(args), touch)

\* Into a directory, under its own name.
Into(fs, to, name) == IF IsDir(fs, to) THEN to \o name ELSE to

MV(sh, args) ==
  LET ops == Operands(args)
      from == At(sh, ops[1])
      to == Into(sh.fs, At(sh, ops[2]), IF from = << >> THEN << >> ELSE <<Last(from)>>)
  IN IF Len(ops) < 2 THEN Reply(sh, Text, 1)
     ELSE Effect(Reply(sh, << >>, 0), Rename(sh.fs, from, to), 1)

\* The copy is written with the slice that was read.
CP(sh, args) ==
  LET ops == Operands(args)
      file == ReadFile(sh.fs, At(sh, ops[1]))
      to == Into(sh.fs, At(sh, ops[2]), <<Last(ops[1])>>)
  IN IF Len(ops) < 2 \/ file.err # "" THEN Reply(sh, Text, 1)
     ELSE Effect(Reply(sh, << >>, 0), WriteFile(sh.fs, to, file.content, sh.uid), 1)

\* ln makes no link.
LN(sh, args) == IF Len(Operands(args)) < 2 THEN Reply(sh, Text, 1) ELSE Reply(sh, << >>, 0)
-----------------------------------------------------------------------------
(* The session's own state *)

History(sh, args) ==
  IF HasFlag(args, {"c"}) THEN Reply([sh EXCEPT !.history = << >>], << >>, 0)
  ELSE Reply(sh, FlattenSeq([i \in DOMAIN sh.history |-> Text]), 0)

Crontab(sh, args) ==
  LET p == <<"cron", sh.user>>
      file == ReadFile(sh.fs, p)
  IN IF HasFlag(args, {"l"})
     THEN IF file.err = "" /\ file.content.data # << >> THEN Reply(sh, file.content.data, 0)
          ELSE Reply(sh, Text, 1)
     ELSE IF HasFlag(args, {"r"}) THEN Quiet(Reply(sh, << >>, 0), RemoveEntry(sh.fs, p, FALSE))
     ELSE Reply(sh, << >>, 0)

\* Where a word NAME=value has its "="; 0 if it has none.
EqualsAt(w) == LET at == {i \in DOMAIN w : w[i] = "="} IN IF at = {} THEN 0 ELSE Min(at)
Store(sh, w) ==
  Assign(sh, IF EqualsAt(w) = 1 THEN "" ELSE w[1], SubSeq(w, EqualsAt(w) + 1, Len(w)))

Export(sh, args) ==
  LET set(r, w) == IF EqualsAt(w) = 0 THEN r ELSE [r EXCEPT !.sh = Store(@, w)]
  IN ForEach(sh, args, set)

Unset(sh, args) ==
  LET names == {args[i][1] : i \in DOMAIN args}
  IN Reply([sh EXCEPT !.env = Restrict(@, DOMAIN @ \ names)], << >>, 0)

Exit(sh) == Reply([sh EXCEPT !.exitFlag = TRUE], Text, 0)

\* root becomes another user in name only.
SU(sh, args) ==
  LET target == IF Operands(args) = << >> THEN "root" ELSE Operands(args)[1][1]
  IN IF sh.uid = "root" THEN Reply([sh EXCEPT !.user = target], << >>, 0) ELSE Reply(sh, Text, 1)

Reboot(sh) ==
  IF sh.uid = "root" THEN Reply([sh EXCEPT !.exitFlag = TRUE], Text, 0) ELSE Reply(sh, Text, 1)

Kill(sh, args) == IF Operands(args) = << >> THEN Reply(sh, Text, 2) ELSE Reply(sh, << >>, 0)
-----------------------------------------------------------------------------
(* Inspection *)

\* which and type: the directory of PATH; type also says what it did not find
Which(sh, name, args) ==
  LET look(r, w) ==
        IF Exists(sh.fs, Append(Clean(<< >>, Get(sh, "PATH")), w[1]))
        THEN [r EXCEPT !.out = @ \o Text]
        ELSE [r EXCEPT !.code = 1, !.out = @ \o IF name = "type" THEN Text ELSE << >>]
  IN ForEach(sh, Operands(args), look)

\* whereis and file describe every operand; stat fails for one it does not find
Describe(sh, name, args) ==
  LET look(r, w) == [r EXCEPT !.out = @ \o Text,
                       !.code = IF name = "stat" /\ ~Exists(sh.fs, At(sh, w)) THEN 1 ELSE @]
  IN ForEach(sh, Operands(args), look)

\* Only the first operand counts.
Readlink(sh, args) ==
  LET l == Lookup(sh.fs, At(sh, Operands(args)[1]), FALSE)
  IN IF Operands(args) = << >> \/ l.err # "" THEN Reply(sh, << >>, 1)
     ELSE IF sh.fs.tree[l.at].kind = "link" THEN Reply(sh, <<LinkTarget, "nl">>, 0)
     ELSE Reply(sh, Append(PathWord(l.at), "nl"), 0)

\* md5sum and its like: one line per operand, or for what the pipe carries
Hash(sh, args) ==
  LET sum(r, w) == [r EXCEPT !.out = @ \o Text,
                      !.code = IF ReadFile(sh.fs, At(sh, w)).err # "" THEN 1 ELSE @]
  IN IF Operands(args) = << >> THEN Reply(sh, Text, 0) ELSE ForEach(sh, Operands(args), sum)

Find(sh, args) ==
  LET root == IF Operands(args) = << >> THEN <<".">> ELSE Operands(args)[1]
      pattern == FlagValue(args, {<<"-", "name">>}, << >>)
      start == At(sh, root)
      hits == {q \in Under(sh.fs, start) \ {start} : pattern = <<BaseOf(q)>>}
  IN IF ~Exists(sh.fs, start) THEN Reply(sh, Text, 1)
     ELSE Reply(sh, IF pattern = << >> \/ hits # {} THEN Text ELSE << >>, 0)
-----------------------------------------------------------------------------
(* Text processing *)

Split(units, sep) ==
  LET step(r, u) == IF u = sep THEN Append(r, << >>) ELSE [r EXCEPT ![Len(r)] = Append(@, u)]
  IN FoldLeft(step, <<<< >>>>, units)

SplitLines(units) == Split(units, "nl")
\* The lines of a text whose last line end, if it has one, ends a line and starts none.
Trimmed(units) == SplitLines(Chomp(units))
Join(lines) == FlattenSeq([i \in DOMAIN lines |-> Append(lines[i], "nl")])

\* Files it cannot read are passed over; the exit code says whether a line matched.
Grep(sh, args, stdin) ==
  LET ops == Operands(args)
      data(w) == LET file == ReadFile(sh.fs, At(sh, w))
                 IN IF file.err = "" THEN SplitLines(file.content.data) ELSE << >>
      lines == IF Len(ops) = 1 THEN SplitLines(stdin)
               ELSE FlattenSeq([i \in 1..(Len(ops) - 1) |-> data(ops[i + 1])])
      hits == SelectSeq(lines, LAMBDA l : (ops[1][1] \in ToSet(l)) # HasFlag(args, {"v"}))
      shown == Join(hits)
  IN IF ops = << >> THEN Reply(sh, Text, 2)
     ELSE Reply(sh, IF HasFlag(args, {"c"}) /\ lines # << >> THEN Text ELSE shown,
                IF hits = << >> THEN 1 ELSE 0)

\* What a filter works on: the pipe, or its first operand.
Input(sh, args, stdin) ==
  IF Operands(args) = << >> THEN Piped(stdin) ELSE ReadFile(sh.fs, At(sh, Operands(args)[1]))

\* One it cannot read leaves the filter with the pipe.
Given(file, stdin) == IF file.err = "" THEN file.content.data ELSE stdin

WC(sh, args, stdin) == Reply(sh, Text, IF Input(sh, args, stdin).err = "" THEN 0 ELSE 1)

\* Lines are ordered by some fixed order; equal lines come together.
Sorted(args, lines) ==
  LET order == SetToSeq(ToSet(lines))
      kept == IF HasFlag(args, {"u"}) THEN order
              ELSE FlattenSeq([i \in DOMAIN order |-> SelectSeq(lines, LAMBDA l : l = order[i])])
  IN IF HasFlag(args, {"r"}) THEN Reverse(kept) ELSE kept

Sort(sh, args, stdin) == Reply(sh, Join(Sorted(args, Trimmed(Given(Input(sh, args, stdin), stdin)))), 0)

\* Of equal neighbours the first stays.
Uniq(sh, stdin) ==
  LET lines == Trimmed(stdin)
      fresh == SelectSeq([i \in DOMAIN lines |-> i], LAMBDA i : i = 1 \/ lines[i] # lines[i - 1])
  IN Reply(sh, Join([k \in DOMAIN fresh |-> lines[fresh[k]]]), 0)

\* The field of each line that -f names, at the separator of -d; a field below the
\* first is an index below the line's parts.
Cut(sh, args, stdin) ==
  LET of(i) == IF Len(args[i]) > 2 THEN SubSeq(args[i], 3, Len(args[i]))
               ELSE IF i < Len(args) THEN args[i + 1] ELSE << >>
      at(c) == SelectSeq([i \in DOMAIN args |-> i], LAMBDA i : IsPrefix(<<"-", c>>, args[i]))
      field == FoldLeft(LAMBDA n, i : Number(of(i), n), 1, at("f"))
      delim == FoldLeft(LAMBDA d, i : IF of(i) = << >> THEN d ELSE Head(of(i)), "tab", at("d"))
      part(l) == LET parts == Split(l, delim) IN IF field <= Len(parts) THEN parts[field] ELSE << >>
      lines == Trimmed(stdin)
  IN IF field < 1 THEN Reply([sh EXCEPT !.down = TRUE], << >>, 0)
     ELSE Reply(sh, Join([i \in DOMAIN lines |-> part(lines[i])]), 0)

\* tr with two sets of one length, or -d and one; anything else passes.
TR(sh, args, stdin) ==
  LET ops == Operands(args)
      pairs == Len(ops) >= 2 /\ Len(ops[1]) = Len(ops[2])
      at(u) == {i \in DOMAIN ops[1] : ops[1][i] = u}
      replaced(u) == IF at(u) = {} THEN u ELSE ops[2][Min(at(u))]
  IN CASE pairs -> Reply(sh, [i \in DOMAIN stdin |-> replaced(stdin[i])], 0)
       [] Len(ops) = 1 /\ HasFlag(args, {"d"}) ->
            Reply(sh, SelectSeq(stdin, LAMBDA u : <<u>> # ops[1]), 0)
       [] OTHER -> Reply(sh, stdin, 0)

\* Only s/old/new, with any separator and here with an old of one unit; the rest passes.
Sed(sh, args, stdin) ==
  LET ops == Operands(args)
      parts == Split(ops[1], ops[1][2])
      replaced(u) == IF <<u>> = parts[2] THEN parts[3] ELSE <<u>>
  IN IF ops # << >> /\ Len(ops[1]) > 1 /\ ops[1][1] = "s" /\ Len(parts) >= 3
     THEN Reply(sh, FlattenSeq([i \in DOMAIN stdin |-> replaced(stdin[i])]), 0)
     ELSE Reply(sh, stdin, 0)

\* Only print, with or without a field; the braces and blanks are gone already.
Awk(sh, args, stdin) ==
  LET ops == Operands(args)
      lines == Trimmed(stdin)
      n == Number(SubSeq(ops[1], 3, Len(ops[1])), 0)
      field(l) == IF n \in DOMAIN Fields(l) THEN Fields(l)[n] ELSE << >>
      whole == ops[1] \in {<<"print">>, <<"print", "$", "0">>}
  IN IF ops = << >> \/ ops[1] = << >> \/ ops[1][1] # "print" THEN Reply(sh, << >>, 0)
     ELSE IF ~whole /\ ops[1][2] # "$" THEN Reply(sh, << >>, 0)
     ELSE Reply(sh, Join([i \in DOMAIN lines |-> IF whole THEN lines[i] ELSE field(lines[i])]), 0)

\* xxd renders, strings renders what is printable; base64 passes what it is given.
Dump(sh, name, args, stdin) ==
  LET printable == ToSet(Given(Input(sh, args, stdin), stdin)) \ {"zero", "nl"}
      seen == IF name = "strings" THEN printable ELSE ToSet(stdin)
  IN Reply(sh, IF name = "base64" THEN stdin ELSE IF seen = {} THEN << >> ELSE Text, 0)

\* The upload is reported whether or not the write succeeded.
Tee(sh, args, stdin) ==
  LET copy(r, w) ==
        LET res == IF HasFlag(args, {"a"}) THEN AppendFile(r.sh.fs, At(sh, w), stdin, sh.uid)
                   ELSE WriteFile(r.sh.fs, At(sh, w), Fresh(r.sh.fs, stdin), sh.uid)
        IN [Quiet(r, res) EXCEPT !.sh.uploads =
              IF stdin = << >> THEN @ ELSE @ \cup {[path |-> At(sh, w), data |-> stdin]}]
  IN [ForEach(sh, Operands(args), copy) EXCEPT !.out = stdin]

\* yes: its hundred lines stand as one.
Yes(sh, args) ==
  Reply(sh, Append(IF Operands(args) = << >> THEN Text ELSE Operands(args)[1], "nl"), 0)

\* seq wants one or two numbers; what is no number is 0.
Sequence(sh, args) ==
  LET ops == Operands(args)
      start == IF Len(ops) = 2 THEN Number(ops[1], 0) ELSE 1
  IN IF Len(ops) \notin {1, 2} THEN Reply(sh, Text, 1)
     ELSE Reply(sh, IF start <= Number(Last(ops), 0) THEN Text ELSE << >>, 0)
-----------------------------------------------------------------------------
(* The rest of the system *)

Sleep(sh, args) ==
  LET ops == Operands(args)
  IN IF ops = << >> \/ Number(ops[1], -1) < 0 THEN Reply(sh, Text, 1) ELSE Reply(sh, << >>, 0)

\* mount, lsof, date, umask, clear; dmesg is for root; tty depends on the terminal
Report(sh, name) ==
  CASE name = "mount" ->
         LET file == ReadFile(sh.fs, <<"proc", "mounts">>)
         IN Reply(sh, IF file.err = "" THEN Text ELSE << >>, 0)
    [] name = "dmesg" -> RootOnly(sh, Text, 1)
    [] name = "tty" -> Reply(sh, Text, IF sh.pty THEN 0 ELSE 1)
    [] OTHER -> Reply(sh, Text, 0)

Service(sh, name, args) ==
  LET ops == Operands(args)
  IN CASE name = "service" -> Reply(sh, Text, IF Len(ops) < 2 THEN 1 ELSE 0)
       [] name = "systemctl" /\ ops # << >> /\ ops[1] = <<"stop">> -> RootOnly(sh, << >>, 1)
       [] OTHER -> Reply(sh, IF Len(ops) > 1 /\ ops[1] = <<"status">> THEN Text ELSE << >>, 0)

Packages(sh, name, args) ==
  LET ops == Operands(args)
  IN CASE name = "dpkg" -> Reply(sh, IF HasFlag(args, {"l"}) THEN Text ELSE << >>, 0)
       [] name = "apt" /\ ops = << >> -> Reply(sh, Text, 1)
       [] name = "apt" /\ ops # << >> /\ sh.uid # "root" -> Reply(sh, Text, 100)
       [] OTHER -> Reply(sh, IF ops[1] \in {<<"update">>, <<"install">>} THEN Text ELSE << >>,
                         IF ops[1] = <<"install">> THEN 100 ELSE 0)

\* python, perl, gcc, make: a version and nothing else
Interp(sh, name, args) ==
  IF HasFlag(args, {"version", "V", "v"}) THEN Reply(sh, Text, 0)
  ELSE IF name = "make" THEN Reply(sh, Text, 2) ELSE Reply(sh, << >>, 0)

\* A block is one unit.  A negative count is not capped: the buffer cannot be made.
DD(sh, args) ==
  LET value(key, default) ==
        LET at == {i \in DOMAIN args : EqualsAt(args[i]) = 2 /\ args[i][1] = key}
        IN IF at = {} THEN default ELSE SubSeq(args[Max(at)], 3, Len(args[Max(at)]))
      total == Number(value("count", << >>), 0)
      of == value("of", << >>)
      zeros == [i \in 1..Min({total, MaxBlock}) |-> "zero"]
  IN IF of = << >> THEN Reply(sh, Text, 0)
     ELSE IF total < 0 THEN Reply([sh EXCEPT !.down = TRUE], << >>, 0)
     ELSE LET r == Effect(Reply(sh, << >>, 0),
                          WriteFile(sh.fs, At(sh, of), Fresh(sh.fs, zeros), sh.uid), 1)
          IN [r EXCEPT !.out = Text]

\* basename, dirname, realpath need an operand
Names(sh, args) == Reply(sh, Text, IF Operands(args) = << >> THEN 1 ELSE 0)

\* scp, ssh, sftp, editors: always fail
Remote(sh, name) == Reply(sh, Text, IF name = "ssh" THEN 255 ELSE 1)

\* iptables, useradd and its like are for root; sysctl knows some keys
Admin(sh, name, args) ==
  CASE name = "iptables" -> RootOnly(sh, IF HasFlag(args, {"L"}) THEN Text ELSE << >>, 4)
    [] name = "useradd" -> RootOnly(sh, << >>, 1)
    [] OTHER -> IF Operands(args) = << >> THEN Reply(sh, << >>, 0)
                ELSE Reply(sh, Text, IF Operands(args)[1] = <<"kernel.ostype">> THEN 0 ELSE 255)
-----------------------------------------------------------------------------
(* Dispatch *)

\* The applets that have a handler, and those that answer nothing.
Applets == {"cat", "chmod", "cp", "dd", "echo", "grep", "ls", "mkdir", "mv", "rm", "sh",
            "sleep", "tail", "tee", "touch", "true", "wget", "xargs"}

\* A leading word NAME=value that is no flag, with a name that has no slash or blank.
IsAssignment(w) == EqualsAt(w) > 0 /\ w[1] # "-" /\ {"/", " "} \cap ToSet(SubSeq(w, 1, EqualsAt(w))) = {}

RECURSIVE RunStage(_, _, _), Builtin(_, _, _, _)

\* sudo, nohup, timeout, watch and xargs run their operands: the flags are gone.
Wrapped(sh, name, args, stdin) ==
  LET ops == Operands(args)
      kept == IF name = "timeout" /\ Len(ops) > 1 THEN Tail(ops) ELSE ops
      r == RunStage(sh, kept, stdin)
  IN CASE name = "sudo" /\ (ops = << >> \/ sh.uid # "root") -> Reply(sh, Text, 1)
       [] name # "sudo" /\ ops = << >> -> Reply(sh, << >>, 0)
       [] name = "xargs" /\ ops # << >> -> RunStage(sh, ops \o Fields(stdin), << >>)
       [] name = "nohup" /\ ops # << >> -> [r EXCEPT !.out = Text \o @]
       [] OTHER -> r

Busybox(sh, args, stdin) ==
  IF args = << >> \/ args[1] = <<"-", "-", "list">> THEN Reply(sh, Text, 0)
  ELSE IF Len(args[1]) # 1 \/ args[1][1] \notin Applets THEN Reply(sh, Text, 127)
  ELSE IF args[1][1] = "sh" THEN Reply(sh, << >>, 0)
  ELSE Builtin(sh, args[1], Tail(args), stdin)

Unknown(sh, full) ==
  Reply(sh, Text, IF "/" \in ToSet(full) /\ Exists(sh.fs, At(sh, full)) THEN 126 ELSE 127)

\* The table, by the last name of the command's path; one name stands for its aliases.
Builtin(sh, full, args, stdin) ==
  LET name == IF full = << >> THEN "." ELSE Last(full) IN
  CASE name = "ls" -> LS(sh, args)
    [] name = "cd" -> CD(sh, args)
    [] name = "pwd" -> Reply(sh, Append(PathWord(sh.cwd), "nl"), 0)
    [] name = "cat" -> Cat(sh, args, stdin)
    [] name \in {"head", "tail"} -> HeadTail(sh, name, args, stdin)
    [] name \in {"echo", "printf"} -> Echo(sh, name, args)
    [] name \in {"whoami", "id", "groups", "uname", "hostname"} -> Identity(sh, name, args)
    [] name \in {"ps", "top", "uptime", "pgrep"} -> Processes(sh, name, args)
    [] name \in {"free", "df", "du", "nproc", "lscpu"} -> Resources(sh, name, args)
    [] name \in {"netstat", "ifconfig", "ip"} -> Network(sh, name, args)
    [] name \in {"w", "who", "users", "last"} -> Logins(sh, name)
    [] name = "wget" -> Wget(sh, args)
    [] name = "curl" -> Curl(sh, args)
    [] name = "tftp" -> Tftp(sh, args)
    [] name \in {"nc", "ftp"} -> Connect(sh, name, args)
    [] name = "chmod" -> ChmodCmd(sh, args)
    [] name = "chown" -> ChownCmd(sh, args)
    [] name = "rm" -> RM(sh, args)
    [] name = "mkdir" -> MkdirCmd(sh, args)
    [] name = "rmdir" -> RmdirCmd(sh, args)
    [] name = "touch" -> TouchCmd(sh, args)
    [] name = "mv" -> MV(sh, args)
    [] name = "cp" -> CP(sh, args)
    [] name = "ln" -> LN(sh, args)
    [] name = "history" -> History(sh, args)
    [] name = "crontab" -> Crontab(sh, args)
    [] name = "busybox" -> Busybox(sh, args, stdin)
    [] name \in {"which", "type"} -> Which(sh, name, args)
    [] name \in {"whereis", "stat", "file"} -> Describe(sh, name, args)
    [] name = "readlink" -> Readlink(sh, args)
    [] name = "md5sum" -> Hash(sh, args)
    [] name = "find" -> Find(sh, args)
    [] name = "grep" -> Grep(sh, args, stdin)
    [] name = "wc" -> WC(sh, args, stdin)
    [] name = "sort" -> Sort(sh, args, stdin)
    [] name = "uniq" -> Uniq(sh, stdin)
    [] name = "cut" -> Cut(sh, args, stdin)
    [] name = "tr" -> TR(sh, args, stdin)
    [] name = "sed" -> Sed(sh, args, stdin)
    [] name = "awk" -> Awk(sh, args, stdin)
    [] name \in {"xxd", "strings", "base64"} -> Dump(sh, name, args, stdin)
    [] name = "tee" -> Tee(sh, args, stdin)
    [] name = "yes" -> Yes(sh, args)
    [] name = "seq" -> Sequence(sh, args)
    [] name = "sleep" -> Sleep(sh, args)
    [] name \in {"true", "tar", "unzip", "gzip"} -> Reply(sh, << >>, 0)
    [] name = "false" -> Reply(sh, << >>, 1)
    [] name = "export" -> Export(sh, args)
    [] name = "env" -> Reply(sh, Text, 0)
    [] name = "unset" -> Unset(sh, args)
    [] name = "exit" -> Exit(sh)
    [] name = "su" -> SU(sh, args)
    [] name = "passwd" -> Reply(sh, Text, 1)
    [] name = "kill" -> Kill(sh, args)
    [] name \in {"mount", "lsof", "date", "umask", "clear", "dmesg", "tty"} -> Report(sh, name)
    [] name \in {"service", "systemctl"} -> Service(sh, name, args)
    [] name \in {"apt", "dpkg"} -> Packages(sh, name, args)
    [] name \in {"python", "make"} -> Interp(sh, name, args)
    [] name = "dd" -> DD(sh, args)
    [] name \in {"basename", "dirname", "realpath"} -> Names(sh, args)
    [] name = "reboot" -> Reboot(sh)
    [] name \in {"scp", "ssh", "vi"} -> Remote(sh, name)
    [] name \in {"iptables", "sysctl", "useradd"} -> Admin(sh, name, args)
    [] name \in {"sudo", "nohup", "timeout", "xargs"} -> Wrapped(sh, name, args, stdin)
    [] OTHER -> Unknown(sh, full)

RunStage(sh, argv, stdin) ==
  LET n == Max({k \in 0..Len(argv) : \A i \in 1..k : IsAssignment(argv[i])})
      set == FoldLeft(Store, sh, SubSeq(argv, 1, n))
  IN IF n = Len(argv) THEN Reply(set, << >>, 0)
     ELSE Builtin(set, argv[n + 1], SubSeq(argv, n + 2, Len(argv)), stdin)
=============================================================================
