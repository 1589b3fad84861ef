------------------------------- MODULE Shell -------------------------------
(***************************************************************************)
(* One session of the emulated shell, node/internal/shell/shell.go: lines  *)
(* come in, each is reported to the hooks and then run against the         *)
(* session's own file system.  A panic in a command ends the session where *)
(* it stands.                                                              *)
(***************************************************************************)
EXTENDS ShellCommands

CONSTANTS
  Lines,         \* the lines a client may send
  Users,         \* the names it may have logged in with
  MaxCommands,   \* Limits.MaxCommands
  Payload        \* units that come from a client and from nowhere else

ASSUME ShellAssumption == MaxCommands \in Nat

VARIABLES
  sh,        \* the Shell and its file system
  commands,  \* the lines reported to OnCommand, in order
  artifacts, \* addresses reported to OnArtifact, with the tool that named them
  status     \* "open", or how the session ended

vars == <<sh, commands, artifacts, status>>

Parsed == [l \in Lines |-> Parse(l)]

\* New: a name that is not an account gets an identity made up for it.
Start(user, pty) ==
  LET home == CASE user = "root" -> <<"root">> [] user = "user" -> Home
                [] OTHER -> <<"home", user>>
      cwd == IF Exists(New, home) THEN home ELSE << >>
  IN [fs |-> New, user |-> user, uid |-> IF user = "root" THEN "root" ELSE "user",
      cwd |-> cwd, pty |-> pty, history |-> << >>, cmdIndex |-> 0, exitCode |-> 0,
      exitFlag |-> FALSE, uploads |-> {}, down |-> FALSE,
      env |-> [n \in {"HOME", "PWD", "PATH"} |->
                 CASE n = "HOME" -> PathWord(home) [] n = "PWD" -> PathWord(cwd)
                   [] n = "PATH" -> <<"/", "bin">>]]

Init ==
  /\ \E user \in Users, pty \in BOOLEAN : sh = Start(user, pty)
  /\ commands = << >> /\ artifacts = {} /\ status = "open"
-----------------------------------------------------------------------------
(* Running a line *)

\* Mutant: a redirection is not reported.
RedirectSilent(s, st, out) ==
  LET target == At(s, st.out)
      res == WriteFile(s.fs, target, Fresh(s.fs, out), s.uid)
  IN IF res.err # "" THEN [s EXCEPT !.exitCode = 1] ELSE [s EXCEPT !.fs = res.fs]

\* "> file": what was written is reported, unless it is nothing.
Redirect(s, st, out) ==
  LET target == At(s, st.out)
      res == WriteFile(s.fs, target, Fresh(s.fs, out), s.uid)
  IN IF res.err # "" THEN [s EXCEPT !.exitCode = 1]
     ELSE [s EXCEPT !.fs = res.fs,
                    !.uploads = IF out = << >> THEN @ ELSE @ \cup {[path |-> target, data |-> out]}]

\* ">> file": nothing is reported.
RedirectAppend(s, st, out) ==
  LET res == AppendFile(s.fs, At(s, st.app), out, s.uid)
  IN IF res.err # "" THEN [s EXCEPT !.exitCode = 1] ELSE [s EXCEPT !.fs = res.fs]

RECURSIVE RunPipeline(_, _, _), ExecLine(_, _)

\* What a stage leaves: the exit code, the target of its redirection, and what goes on
\* to the next; a redirection feeds nothing on, and a panic ends it all.
NextStage(r, stages) ==
  LET t == [r.sh EXCEPT !.exitCode = r.code]
      st == Head(stages)
  IN CASE t.down -> t
       [] ~t.down /\ st.out # NoTarget -> RunPipeline(Redirect(t, st, r.out), Tail(stages), << >>)
       [] ~t.down /\ st.out = NoTarget /\ st.app # NoTarget ->
            RunPipeline(RedirectAppend(t, st, r.out), Tail(stages), << >>)
       [] OTHER -> RunPipeline(t, Tail(stages), r.out)

\* runPipeline: a stage without a command is passed over.
RunPipeline(s, stages, carry) ==
  IF stages = << >> THEN s
  ELSE IF Head(stages).argv = << >> THEN RunPipeline(s, Tail(stages), carry)
  ELSE NextStage(RunStage(s, Head(stages).argv, carry), stages)

\* execLine: what a pipeline leaves behind may end the whole line.
NextPipeline(s, pipelines) ==
  IF s.down \/ s.exitFlag \/ ~Continues(Head(pipelines).next, s.exitCode = 0) THEN s
  ELSE ExecLine(s, Tail(pipelines))

ExecLine(s, pipelines) ==
  IF pipelines = << >> THEN s
  ELSE NextPipeline(RunPipeline(s, Head(pipelines).stages, << >>), pipelines)

\* The addresses observe reports: of every stage, with its first word.
ArtifactsOf(pipelines) ==
  UNION {UNION {{[url |-> u, tool |-> st.argv[1]] : u \in ExtractURLs(st.argv)}
                : st \in ToSet(pl.stages)} : pl \in ToSet(pipelines)}
-----------------------------------------------------------------------------
\* Mutant: a line is reported after it has run.
RunLineLate(line, t) ==
  LET done == ExecLine(t, Parsed[line])
  IN /\ sh' = [done EXCEPT !.cmdIndex = @ + 1]
     /\ commands' = IF done.down THEN commands ELSE Append(commands, line)
     /\ artifacts' = artifacts \cup ArtifactsOf(Parsed[line])

\* observe, then execLine.
RunLine(line, t) ==
  /\ commands' = Append(commands, line)
  /\ artifacts' = artifacts \cup ArtifactsOf(Parsed[line])
  /\ sh' = ExecLine([t EXCEPT !.cmdIndex = @ + 1], Parsed[line])

\* RunInteractive: limits, a line, the loop's end.
Interact(line) ==
  /\ status = "open" /\ ~sh.exitFlag
  /\ sh.cmdIndex < MaxCommands
  /\ RunLine(line, [sh EXCEPT !.history = Append(@, line)])
  /\ status' = IF sh'.down THEN "panicked" ELSE "open"

\* RunExec: one line, no limits, whatever it comes to.
RunExec(line) ==
  /\ status = "open" /\ sh.cmdIndex = 0
  /\ RunLine(line, sh)
  /\ status' = IF sh'.down THEN "panicked" ELSE "ended"

\* exit, Ctrl-D, or the client is gone.
Leave ==
  /\ status = "open"
  /\ status' = "ended"
  /\ UNCHANGED <<sh, commands, artifacts>>

\* The commands, the bytes or the time are used up.
ReachLimit ==
  /\ status = "open" /\ ~sh.exitFlag
  /\ status' = "limit"
  /\ UNCHANGED <<sh, commands, artifacts>>

Next ==
  \/ \E line \in Lines : Interact(line) \/ RunExec(line)
  \/ Leave
  \/ ReachLimit

Spec == Init /\ [][Next]_vars
-----------------------------------------------------------------------------
(* Properties *)

\* AttackerFiles names everything a session changed: a file it does not name is a file
\* of New with the bytes, the mode and the owner it had, at its old place or inside a
\* directory that is named.  Copies share their bytes with the original, so this is
\* also that no write through a copy reaches an original.  And whatever was moved,
\* removed or written through a path, the tree is one: every entry is in a directory.
ChangesAreMarked ==
  LET tree == sh.fs.tree
      mine == AttackerFiles(sh.fs)
      named(p) == \E i \in 1..(Len(p) - 1) : SubSeq(p, 1, i) \in mine
  IN \A p \in DOMAIN tree :
       /\ p # << >> => Front(p) \in DOMAIN tree /\ tree[Front(p)].kind = "dir"
       /\ (tree[p].kind # "dir" /\ p \notin mine) =>
            IF named(p) THEN \E q \in DOMAIN NewTree : NewTree[q] = tree[p]
            ELSE p \in DOMAIN NewTree /\ NewTree[p] = tree[p]

Size(tree) == FoldSet(LAMBDA p, n : n + Len(tree[p].content.data), 0, DOMAIN tree)

\* The quota bounds what a session can hold: whatever mix of writes, appends, copies,
\* moves and removals, the tree has at most what New planted and what was charged.
QuotaHolds ==
  /\ sh.fs.written <= MaxWriteBytes
  /\ Size(sh.fs.tree) <= Size(NewTree) + sh.fs.written

\* The comment in cmdHistory: clearing the history takes nothing from the record.
\* Every line that did anything is on record under its index, also one that the session
\* dies of; and so is every line the history still has, in its order.
OnRecordFirst ==
  /\ Len(commands) = sh.cmdIndex
  /\ IsSuffix(sh.history, commands)
  /\ \A p \in DOMAIN sh.fs.tree : \A u \in ToSet(sh.fs.tree[p].content.data) \cap Payload :
       \E l \in ToSet(commands) : u \in ToSet(l)

\* Bytes from a client that are in some file were reported as an upload, unless a line
\* on record appended: ">>" is the one way in that reports nothing but its line.
DropsAreUploads ==
  \A p \in DOMAIN sh.fs.tree : \A u \in ToSet(sh.fs.tree[p].content.data) \cap Payload :
    \/ \E up \in sh.uploads : u \in ToSet(up.data)
    \/ \E l \in ToSet(commands) : \E pl \in ToSet(Parsed[l]) : \E st \in ToSet(pl.stages) :
         st.app # NoTarget
=============================================================================
