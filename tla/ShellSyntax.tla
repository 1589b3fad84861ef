---------------------------- MODULE ShellSyntax ----------------------------
(***************************************************************************)
(* The command line of the emulated shell, node/internal/shell/parser.go.  *)
(* A line is a sequence of symbols; "\\", "'", "\"", " ", "|", "&", ";",   *)
(* ">" and "<" are the characters the parser knows, and every other symbol *)
(* stands for a character, or a whole word, that means nothing to it.      *)
(***************************************************************************)
EXTENDS Naturals, Sequences, SequencesExt

\* Three of them by name.
Blank == " "
Semicolon == ";"
Quote == "\""

None == [text |-> << >>, quoted |-> FALSE, some |-> FALSE]
Op(t) == [text |-> t, quoted |-> FALSE, some |-> TRUE]

\* tokenize's cur, hasCur and curQuoted, after more text and perhaps a quote.
Extend(cur, text, quote) ==
  [text |-> cur.text \o text, quoted |-> cur.quoted \/ quote, some |-> TRUE]

\* tokenize at a symbol: mode is "plain", "single" or "double" inside quotes, "escaped" or
\* "doubleEscaped" behind a backslash, and "second" at the second symbol of an operator.
Scanner(mode, cur, out) == [mode |-> mode, cur |-> cur, out |-> out]

Emitted(p) == IF p.cur.some THEN Append(p.out, p.cur) ELSE p.out
Write(p, mode, text, quote) == Scanner(mode, Extend(p.cur, text, quote), p.out)
Operator(p, mode, op) == Scanner(mode, None, Append(Emitted(p), Op(op)))
To(p, mode) == Scanner(mode, p.cur, p.out)

\* A symbol outside quotes.  A backslash that ends the line is a character.
Plain(p, s, i) ==
  LET more == i < Len(s)
      twice == s[i] \in {"|", "&", ">"} /\ more /\ s[i + 1] = s[i]
  IN CASE s[i] = "\\" /\ more -> To(p, "escaped")
       [] s[i] = "'" -> Write(p, "single", << >>, TRUE)
       [] s[i] = Quote -> Write(p, "double", << >>, TRUE)
       [] s[i] = Blank -> Scanner("plain", None, Emitted(p))
       [] twice -> Operator(p, "second", <<s[i], s[i]>>)
       [] s[i] \in {"|", "&", ">", Semicolon, "<"} /\ ~twice -> Operator(p, "plain", <<s[i]>>)
       [] OTHER -> Write(p, "plain", <<s[i]>>, FALSE)

Scan(p, s, i) ==
  CASE p.mode = "plain" -> Plain(p, s, i)
    [] p.mode = "second" -> To(p, "plain")
    [] p.mode = "escaped" -> Write(p, "plain", <<s[i]>>, FALSE)
    [] p.mode = "single" -> IF s[i] = "'" THEN To(p, "plain") ELSE Write(p, "single", <<s[i]>>, TRUE)
    [] p.mode = "double" -> IF s[i] = Quote THEN To(p, "plain")
                            ELSE IF s[i] = "\\" /\ i < Len(s) THEN To(p, "doubleEscaped")
                            ELSE Write(p, "double", <<s[i]>>, TRUE)
    [] p.mode = "doubleEscaped" -> Write(p, "double", <<s[i]>>, TRUE)

\* A quote that is still open ends with the line.
Tokenize(s) ==
  LET scan[i \in 0..Len(s)] ==
        IF i = 0 THEN Scanner("plain", None, << >>) ELSE Scan(scan[i - 1], s, i)
  IN Emitted(scan[Len(s)])
-----------------------------------------------------------------------------
NoTarget == << >>
EmptyStage == [argv |-> << >>, out |-> NoTarget, app |-> NoTarget, in |-> NoTarget]
EmptyPipeline == [stages |-> << >>, next |-> "", background |-> FALSE]

FlushStage(p) ==
  [p EXCEPT !.cur.stages = IF p.stage.argv # << >> \/ p.stage.out # NoTarget
                              \/ p.stage.app # NoTarget
                           THEN Append(@, p.stage) ELSE @,
            !.stage = EmptyStage]

\* Mutant: the pipeline in progress is not cleared.
FlushPipelineKeeps(p, op) ==
  LET q == FlushStage(p)
  IN [q EXCEPT !.done = IF q.cur.stages # << >> THEN Append(@, [q.cur EXCEPT !.next = op]) ELSE @]

\* An operator after nothing joins nothing: it is dropped with the empty pipeline.
FlushPipeline(p, op) ==
  LET q == FlushStage(p)
  IN [q EXCEPT !.done = IF q.cur.stages # << >> THEN Append(@, [q.cur EXCEPT !.next = op]) ELSE @,
               !.cur = EmptyPipeline]

\* An operator that was quoted is a word.
IsOp(t, op) == ~t.quoted /\ t.text = op

\* Parse's loop body.  A pending redirection takes the next token, whatever it is.
ParseToken(p, t) ==
  LET is(op) == IsOp(t, op)
  IN CASE p.pending = <<">">> -> [p EXCEPT !.stage.out = t.text, !.pending = << >>]
       [] p.pending = <<">", ">">> -> [p EXCEPT !.stage.app = t.text, !.pending = << >>]
       [] p.pending = <<"<">> -> [p EXCEPT !.stage.in = t.text, !.pending = << >>]
       [] p.pending = << >> /\ is(<<"|">>) -> FlushStage(p)
       [] p.pending = << >> /\ is(<<Semicolon>>) -> FlushPipeline(p, Semicolon)
       [] p.pending = << >> /\ is(<<"&", "&">>) -> FlushPipeline(p, "&&")
       [] p.pending = << >> /\ is(<<"|", "|">>) -> FlushPipeline(p, "||")
       [] p.pending = << >> /\ is(<<"&">>) ->
            FlushPipeline([p EXCEPT !.cur.background = TRUE], Semicolon)
       [] p.pending = << >> /\ (is(<<">">>) \/ is(<<">", ">">>) \/ is(<<"<">>)) ->
            [p EXCEPT !.pending = t.text]
       [] OTHER -> [p EXCEPT !.stage.argv = Append(@, t.text)]

Parse(line) ==
  LET tokens == Tokenize(line)
      start == [done |-> << >>, cur |-> EmptyPipeline, stage |-> EmptyStage, pending |-> << >>]
      parsed[i \in 0..Len(tokens)] ==
        IF i = 0 THEN start ELSE ParseToken(parsed[i - 1], tokens[i])
  IN FlushPipeline(parsed[Len(tokens)], "").done
-----------------------------------------------------------------------------
(* execLine's way through a line *)

Continues(next, ok) == /\ next = "&&" => ok
                       /\ next = "||" => ~ok

-----------------------------------------------------------------------------
(* ExtractURLs on words: "http" and "ftp" stand for two of the schemes, "tail" for   *)
(* letters that a scheme may have before them (isSchemeChar).                        *)

Terminators == {" ", "\"", "'", ";", "|", "&", ">", "<"}

\* urlCandidates: where the addresses of a word start; inside one the search for its own
\* scheme goes on behind it, that for another scheme does not.
URLsIn(w) ==
  LET starts == {i \in DOMAIN w : w[i] \in {"http", "ftp"} /\ (i = 1 \/ w[i - 1] # "tail")}
      within(j, i) == j < i /\ w[j] = w[i] /\ \A k \in j..i : w[k] \notin Terminators
  IN {i \in starts : \A j \in starts : ~within(j, i)}

\* The address that starts at i: up to the next terminator.
URLAt(w, i) ==
  LET ends == {j \in i..Len(w) : w[j] \in Terminators}
      e == IF ends = {} THEN Len(w) ELSE (CHOOSE j \in ends : \A k \in ends : j <= k) - 1
  IN SubSeq(w, i, e)

ExtractURLs(argv) == UNION {{URLAt(argv[k], i) : i \in URLsIn(argv[k])} : k \in DOMAIN argv}
=============================================================================
