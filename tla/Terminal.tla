------------------------------ MODULE Terminal ------------------------------
(***************************************************************************)
(* How bytes become command lines: telnetConn.Read strips the telnet       *)
(* protocol (node/internal/protocols/telnet/server.go), telnetConn.readLine*)
(* reads the login prompts and Shell.readLine edits the command line       *)
(* (node/internal/shell/shell.go).                                         *)
(*                                                                         *)
(* The network cuts the client's bytes into segments as it likes; a Read   *)
(* returns a chunk of them.  One goroutine reads, so a segment is worked   *)
(* through in one step.                                                    *)
(***************************************************************************)
EXTENDS Naturals, Sequences, SequencesExt

CONSTANTS
  Keyboards,   \* [keys, max, prompts]: what a client may send, how much, logins to come
  MaxSegment,  \* bound: bytes that arrive together
  ChunkSize,   \* the shell's read buffer
  MaxInput,    \* Limits.MaxInputBytes
  MaxPrompt    \* the longest answer to a prompt

ASSUME TerminalAssumption ==
  /\ MaxSegment \in Nat /\ MaxInput \in Nat /\ MaxPrompt \in Nat
  /\ ChunkSize \in Nat \ {0}

Bytes == {"iac", "will", "sb", "se", "nul"} \cup UNION {k.keys : k \in Keyboards}

VARIABLES
  keyboard,  \* the client's element of Keyboards
  sent,      \* what has arrived
  conn,      \* telnetConn
  line       \* the caller of Read: a login prompt or the line editor

terminalVars == <<keyboard, sent, conn, line>>

Login(prompts) ==
  [prompts |-> prompts, buf |-> << >>, pos |-> 0, history |-> << >>, inBytes |-> 0,
   cut |-> FALSE, status |-> "open"]

\* conn: where Read is, the bytes it holds, all that it has returned, whether it failed.
\* line: logins to come, the line in progress and the place in the history; inBytes: what
\* the shell had; cut: a chunk's end or a line's end took something away; status "open",
\* "exit" or "limit".
TerminalInit ==
  /\ keyboard \in Keyboards
  /\ sent = << >>
  /\ conn = [phase |-> "data", got |-> << >>, read |-> << >>, eof |-> FALSE]
  /\ line = Login(keyboard.prompts)
-----------------------------------------------------------------------------
(* Shell.readLine *)

NewLine(s) == [s EXCEPT !.buf = << >>, !.pos = Len(s.history)]

\* RunInteractive drops a blank line and keeps the others.
EndLine(s) ==
  IF ToSet(s.buf) \subseteq {" "} THEN NewLine(s)
  ELSE NewLine([s EXCEPT !.history = Append(@, s.buf)])

Erase(buf) == IF buf = << >> THEN buf ELSE Front(buf)

\* Below the newest line of the history is an empty one.
Arrow(s, key) ==
  LET p == CASE key = "A" -> IF s.pos > 0 THEN s.pos - 1 ELSE s.pos
             [] key = "B" -> IF s.pos + 1 < Len(s.history) THEN s.pos + 1 ELSE Len(s.history)
             [] OTHER -> s.pos
      moved == (key = "A" /\ s.pos > 0) \/ key = "B"
  IN IF ~moved THEN s
     ELSE [s EXCEPT !.pos = p, !.buf = IF p = Len(s.history) THEN << >> ELSE s.history[p + 1]]

\* A key that is one byte; control bytes without a meaning do nothing.
Press(s, b) ==
  CASE b \in {"^C", "^U"} -> [s EXCEPT !.buf = << >>]
    [] b = "bs" -> [s EXCEPT !.buf = Erase(@)]
    [] b = "^D" -> IF s.buf = << >> THEN [s EXCEPT !.status = "exit"] ELSE s
    [] b \in {"nul", "tab", "esc"} -> s
    [] OTHER -> [s EXCEPT !.buf = Append(@, b)]

\* Mutant: a sequence at the very end of a chunk is not seen.
WholeShort(chunk, i) == i + 2 < Len(chunk) /\ chunk[i + 1] = "["
Whole(chunk, i) == i + 2 <= Len(chunk) /\ chunk[i + 1] = "["

\* One turn of the loop: an escape sequence is one only if the chunk has all of it.
Turn(s, chunk, i) ==
  CASE chunk[i] = "nl" -> EndLine([s EXCEPT !.cut = @ \/ i < Len(chunk)])
    [] chunk[i] = "esc" /\ Whole(chunk, i) -> Arrow(s, chunk[i + 2])
    [] chunk[i] = "esc" /\ ~Whole(chunk, i) ->
         [s EXCEPT !.cut = @ \/ i = Len(chunk) \/ (i + 1 = Len(chunk) /\ chunk[i + 1] = "[")]
    [] OTHER -> Press(s, chunk[i])

\* Where the next turn is; what follows a line end is gone.
NextTurn(chunk, i) ==
  CASE chunk[i] = "nl" -> 0
    [] chunk[i] = "esc" /\ Whole(chunk, i) -> i + 3
    [] OTHER -> i + 1

Edit(s, chunk) ==
  LET turns[i \in 0..Len(chunk)] ==
        IF i = 0 THEN [line |-> s, next |-> 1]
        ELSE LET p == turns[i - 1]
             IN IF p.next # i \/ p.line.status # "open" THEN p
                ELSE [line |-> Turn(p.line, chunk, i), next |-> NextTurn(chunk, i)]
  IN turns[Len(chunk)].line

\* The login prompts, a byte at a time: an empty answer is no answer.
Answer(s, b) ==
  CASE b = "nl" -> IF s.buf = << >> THEN s ELSE [s EXCEPT !.buf = << >>, !.prompts = @ - 1]
    [] b = "bs" -> [s EXCEPT !.buf = Erase(@)]
    [] b \in {"^C", "^D", "^U", "esc", "tab"} -> s
    [] OTHER -> IF Len(s.buf) = MaxPrompt THEN [s EXCEPT !.status = "limit"]
                ELSE [s EXCEPT !.buf = Append(@, b)]

\* What the caller makes of a Read.
Take(s, chunk) ==
  IF s.prompts > 0 THEN Answer(s, chunk[1])
  ELSE IF s.inBytes + Len(chunk) > MaxInput THEN [s EXCEPT !.status = "limit"]
  ELSE Edit([s EXCEPT !.inBytes = @ + Len(chunk)], chunk)
-----------------------------------------------------------------------------
(* telnetConn.Read *)

\* A Read returns what it holds.
Return(c, s) ==
  [conn |-> [c EXCEPT !.read = c.read \o c.got, !.got = << >>], line |-> Take(s, c.got)]

\* Mutant: any byte after IAC in a subnegotiation ends it.
InProtocolShort(phase, b) ==
  CASE phase = "cmd" /\ b = "will" -> "opt"
    [] phase = "cmd" /\ b = "sb" -> "sub"
    [] phase = "sub" -> IF b = "iac" THEN "subiac" ELSE "sub"
    [] OTHER -> "data"

\* The bytes after IAC: an option, a subnegotiation until IAC SE, or a command.
InProtocol(phase, b) ==
  CASE phase = "cmd" /\ b = "will" -> "opt"
    [] phase = "cmd" /\ b = "sb" -> "sub"
    [] phase = "sub" -> IF b = "iac" THEN "subiac" ELSE "sub"
    [] phase = "subiac" -> IF b = "se" THEN "data" ELSE "sub"
    [] OTHER -> "data"

Room(s) == IF s.prompts > 0 THEN 1 ELSE ChunkSize

\* Mutant: a Read waits until its buffer is full.
DrainedFull(more) == FALSE
\* Nothing is left in the buffered reader.
Drained(more) == ~more

\* One byte of the stream; more: others have come with it.
ReadByte(c, s, b, more) ==
  LET kept == [c EXCEPT !.phase = "data", !.got = Append(c.got, b)]
      full == Len(kept.got) = Room(s)
      on(d) == [conn |-> d, line |-> s]
  IN CASE c.phase = "data" /\ b = "iac" -> on([c EXCEPT !.phase = "cmd"])
       [] c.phase = "data" /\ b = "nul" -> on(c)
       [] c.phase = "data" /\ b \notin {"iac", "nul"} ->
            IF full \/ Drained(more) THEN Return(kept, s) ELSE on(kept)
       [] c.phase = "cmd" /\ b = "iac" -> IF full THEN Return(kept, s) ELSE on(kept)
       [] OTHER -> on([c EXCEPT !.phase = InProtocol(c.phase, b)])

\* The bytes of a segment, until the caller stops reading.
Feed(bytes) ==
  LET fed[i \in 0..Len(bytes)] ==
        IF i = 0 THEN [conn |-> conn, line |-> line]
        ELSE LET p == fed[i - 1]
             IN IF p.line.status # "open" THEN p
                ELSE ReadByte(p.conn, p.line, bytes[i], i < Len(bytes))
  IN fed[Len(bytes)]
-----------------------------------------------------------------------------
Reading == ~conn.eof /\ line.status = "open"

Arrive(segment) ==
  /\ Reading
  /\ Len(sent) + Len(segment) <= keyboard.max
  /\ sent' = sent \o segment
  /\ LET after == Feed(segment) IN conn' = after.conn /\ line' = after.line
  /\ UNCHANGED keyboard

\* The client is gone, or silent past its deadline.  An error in the data hands out what
\* Read holds first; one inside a protocol sequence comes back with it, and the caller
\* looks only at the error.
HangUp ==
  /\ Reading
  /\ LET last == IF conn.phase = "data" /\ conn.got # << >> THEN Return(conn, line)
                 ELSE [conn |-> conn, line |-> line]
     IN conn' = [last.conn EXCEPT !.eof = TRUE] /\ line' = last.line
  /\ UNCHANGED <<keyboard, sent>>

TerminalNext ==
  \/ \E n \in 1..MaxSegment : \E segment \in [1..n -> keyboard.keys] : Arrive(segment)
  \/ HangUp

TerminalSpec == TerminalInit /\ [][TerminalNext]_terminalVars
-----------------------------------------------------------------------------
(* The payload of a telnet stream by the grammar of RFC 854 and 855 *)

\* In a subnegotiation IAC SE is its end unless that IAC is the second of a pair.
Paired(s, i) ==
  \E k \in 3..i : /\ \A j \in k..i : s[j] = "iac"
                  /\ k = 3 \/ s[k - 1] # "iac"
                  /\ (i - k) % 2 = 1
SubEnds(s) == {i \in 3..(Len(s) - 1) : s[i] = "iac" /\ s[i + 1] = "se" /\ ~Paired(s, i)}

\* The bytes of the unit that a stream begins with, all that there are if it is not whole;
\* and what it means.
UnitLength(s) ==
  LET n == CASE s[1] # "iac" \/ Len(s) = 1 -> 1
             [] s[1] = "iac" /\ Len(s) > 1 /\ s[2] = "will" -> 3
             [] s[1] = "iac" /\ Len(s) > 1 /\ s[2] = "sb" ->
                  IF SubEnds(s) = {} THEN Len(s)
                  ELSE (CHOOSE i \in SubEnds(s) : \A j \in SubEnds(s) : i <= j) + 1
             [] OTHER -> 2
  IN IF n > Len(s) THEN Len(s) ELSE n

Meaning(s) ==
  IF s[1] \notin {"iac", "nul"} THEN <<s[1]>>
  ELSE IF s[1] = "iac" /\ Len(s) > 1 /\ s[2] = "iac" THEN <<"iac">>
  ELSE << >>

RestOf(s) == SubSeq(s, UnitLength(s) + 1, Len(s))

Strip[s \in Seq(Bytes)] == IF s = << >> THEN << >> ELSE Meaning(s) \o Strip[RestOf(s)]
-----------------------------------------------------------------------------
(* The terminal when every key comes in a Read of its own *)

ArrowAt(s, payload, i) ==
  ~(s.prompts > 0) /\ i + 2 <= Len(payload) /\ payload[i] = "esc" /\ payload[i + 1] = "["

Key(s, payload, i) ==
  IF s.prompts > 0 THEN Answer(s, payload[i])
  ELSE IF ArrowAt(s, payload, i) THEN Arrow(s, payload[i + 2])
  ELSE IF payload[i] = "nl" THEN EndLine(s)
  ELSE Press(s, payload[i])

KeyByKey(s, payload) ==
  LET keys[i \in 0..Len(payload)] ==
        IF i = 0 THEN [line |-> s, next |-> 1]
        ELSE LET p == keys[i - 1]
             IN IF p.next # i \/ p.line.status # "open" THEN p
                ELSE [line |-> Key(p.line, payload, i),
                      next |-> i + (IF ArrowAt(p.line, payload, i) THEN 3 ELSE 1)]
  IN keys[Len(payload)].line
-----------------------------------------------------------------------------
(* Properties *)

\* telnetConn.Read: however the network cuts the stream, inside an option or a
\* subnegotiation too, the callers get the payload and nothing else, in order; and all of
\* it when the connection ends, unless that is inside a protocol sequence.
PayloadInOrder ==
  /\ IsPrefix(conn.read \o conn.got, Strip[sent])
  /\ Reading => conn.read \o conn.got = Strip[sent]
  /\ (conn.eof /\ conn.phase = "data") => conn.read = Strip[sent]

\* The comment in Read: it returns "as soon as the buffered reader is drained".  A data
\* byte that came last is not kept from the shell while the client waits for its answer.
\* (Data before a final NUL or a final protocol sequence is: the client must send more.)
NothingWithheld ==
  (Reading /\ sent # << >>) =>
    LET plain == Last(sent) # "iac" /\ Strip[sent] = Append(Strip[Front(sent)], Last(sent))
    IN conn.got # << >> => ~plain

\* Login answers and command lines do not depend on how the bytes came: they are those of
\* the same keys in Reads of their own, unless a Read cut a key in two or had
\* bytes behind a line end (cut), which Shell.readLine takes for text or forgets.
LinesFaithful ==
  (~line.cut /\ line.status # "limit") =>
    LET alone == KeyByKey(Login(keyboard.prompts), conn.read)
    IN <<alone.prompts, alone.buf, alone.pos, alone.history>>
         = <<line.prompts, line.buf, line.pos, line.history>>
=============================================================================
