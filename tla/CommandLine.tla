---------------------------- MODULE CommandLine ----------------------------
(***************************************************************************)
(* What the parser of node/internal/shell/parser.go makes of the lines     *)
(* that the terminal hands to it.                                          *)
(***************************************************************************)
EXTENDS Terminal, ShellSyntax

Commands(pipelines) == [i \in DOMAIN pipelines |-> pipelines[i].stages]

\* A line that another can follow: no quote is open and no character is escaped.
Closed(text) == Tokenize(Append(text, Blank)) = Tokenize(text)
-----------------------------------------------------------------------------
(* Properties *)

\* Parse: a semicolon outside quotes separates; no command, argument or redirection of one
\* part is moved to another, dropped or doubled, also if a part is empty or the semicolon
\* stands next to a pipe, a connector or an ampersand.  A semicolon right behind >, >> or <
\* is not meant: Parse takes it for the name of the file, and the next part joins this one.
PartsAreIndependent ==
  \A i \in DOMAIN line.buf :
    LET before == SubSeq(line.buf, 1, i - 1)
        after == SubSeq(line.buf, i + 1, Len(line.buf))
        tokens == Tokenize(before)
        redirects == tokens # << >> /\ Last(tokens) \in {Op(<<">">>), Op(<<">", ">">>), Op(<<"<">>)}
    IN (line.buf[i] = Semicolon /\ Closed(before) /\ ~redirects) =>
         Commands(Parse(line.buf)) = Commands(Parse(before)) \o Commands(Parse(after))

=============================================================================
