-------------------------------- MODULE Vfs --------------------------------
(***************************************************************************)
(* The file system of one session, node/internal/vfs/vfs.go.               *)
(*                                                                         *)
(* A path is the sequence of its names, << >> the root.  A tree maps every *)
(* path that exists to its node.  A file's bytes are units in a backing    *)
(* array: ReadFile hands out the node's own slice, so that a file and its  *)
(* copy share one array, and Append writes into the room left in it.       *)
(*                                                                         *)
(* Every operation takes the file system and gives back the new one and an *)
(* error, "" for none; "panic" is an assignment to the nil map that a file *)
(* has for children.                                                       *)
(***************************************************************************)
EXTENDS Naturals, Sequences, SequencesExt

CONSTANTS
  MaxWriteBytes,   \* maxWriteBytes, in units
  Home             \* the session user's home directory

ASSUME VfsAssumption == MaxWriteBytes \in Nat

\* Capacity of a fresh array: the allocator rounds a length up to its size class.
Cap(n) == n + (n % 2)

Content(id, data) == [id |-> id, cap |-> Cap(Len(data)), data |-> data]
NoContent == Content(0, << >>)

Node(kind, content, owner) ==
  [kind |-> kind, content |-> content, owner |-> owner, open |-> TRUE, mine |-> FALSE]
Directory(owner) == Node("dir", NoContent, owner)

\* Where the link points to.
LinkTarget == "dash"

\* One node of every sort New plants: directories, homes, a dotfile, a file everyone may
\* read, one only root may, a computed one and the one symbolic link.
NewTree ==
  LET dirs == {<< >>, <<"bin">>, <<"cron">>, <<"etc">>, <<"proc">>, <<"root">>}
      file(id, unit, owner) == Node("file", Content(id, <<unit>>), owner)
  IN [p \in dirs |-> Directory("root")]
     @@ (Home :> Directory("user")) @@ (Append(Home, ".rc") :> file(1, "rc", "user"))
     @@ (<<"root", ".rc">> :> file(5, "rc", "root"))
     @@ (<<"bin", LinkTarget>> :> file(2, "elf", "root"))
     @@ (<<"bin", "sh">> :> Node("link", NoContent, "root"))
     @@ (<<"etc", "shadow">> :> [file(3, "hash", "root") EXCEPT !.open = FALSE])
     @@ (<<"proc", "mounts">> :> file(4, "mounts", "root"))
     @@ (<<"proc", "uptime">> :> Node("computed", NoContent, "root"))

New == [tree |-> NewTree, written |-> 0]
-----------------------------------------------------------------------------
(* Paths *)

DirOf(p) == IF p = << >> THEN << >> ELSE Front(p)
BaseOf(p) == IF p = << >> THEN "/" ELSE Last(p)

\* Clean: a word is names with "/" between them; ".." stops at the root.
Clean(cwd, w) ==
  LET step(p, c) == CASE c \in {"/", "."} -> p
                      [] c = ".." -> DirOf(p)
                      [] OTHER -> Append(p, c)
  IN FoldLeft(step, IF w # << >> /\ w[1] = "/" THEN << >> ELSE cwd, w)

\* lookup.  Below a link the walk resolves the target against a directory that goes
\* through the link again, until the depth runs out.
Lookup(fs, p, follow) ==
  LET prefix(i) == SubSeq(p, 1, i)
      deepest == Max({i \in 0..(Len(p) - 1) : prefix(i) \in DOMAIN fs.tree})
      kind == fs.tree[prefix(deepest)].kind   \* where the walk stops
      target == Append(DirOf(p), LinkTarget)
      found(q) == [at |-> q, err |-> ""]
      fails(e) == [at |-> p, err |-> e]
  IN IF p \notin DOMAIN fs.tree
     THEN CASE kind = "link" -> fails("loop")
            [] kind \in {"file", "computed"} -> fails("notdir")
            [] kind = "dir" -> fails("notfound")
     ELSE IF fs.tree[p].kind # "link" \/ ~follow THEN found(p)
     ELSE IF target \notin DOMAIN fs.tree THEN fails("notfound")
     ELSE IF fs.tree[target].kind = "link" THEN fails("loop") ELSE found(target)

Exists(fs, p) == Lookup(fs, p, TRUE).err = ""
KindAt(fs, p) == fs.tree[Lookup(fs, p, TRUE).at].kind
IsDir(fs, p) == Exists(fs, p) /\ KindAt(fs, p) = "dir"
Under(fs, d) == {q \in DOMAIN fs.tree : IsPrefix(d, q)}
Children(fs, d) == {q \in Under(fs, d) : Len(q) = Len(d) + 1}
-----------------------------------------------------------------------------
(* Reading *)

\* An array no file uses.
FreshId(fs) ==
  CHOOSE i \in 1..(Cardinality(DOMAIN fs.tree) + 1) :
    \A p \in DOMAIN fs.tree : fs.tree[p].content.id # i
Fresh(fs, data) == Content(FreshId(fs), data)

\* ReadFile: the node's own slice, unless the content is computed.
ReadFile(fs, p) ==
  LET l == Lookup(fs, p, TRUE)
      kind == fs.tree[l.at].kind
  IN IF l.err # "" THEN [content |-> NoContent, err |-> l.err]
     ELSE IF kind = "dir" THEN [content |-> NoContent, err |-> "isdir"]
     ELSE [content |-> IF kind = "computed" THEN Fresh(fs, <<"now">>) ELSE fs.tree[l.at].content,
           err |-> ""]

\* AttackerFiles: every marked entry below the root.
AttackerFiles(fs) == {p \in DOMAIN fs.tree \ {<< >>} : fs.tree[p].mine}
-----------------------------------------------------------------------------
(* Writing *)

Result(fs, err) == [fs |-> fs, err |-> err]
Full(fs, data) == fs.written + Len(data) > MaxWriteBytes
Put(fs, p, node) == [fs EXCEPT !.tree = (p :> node) @@ @]
Drop(fs, p) == [fs EXCEPT !.tree = Restrict(@, DOMAIN @ \ Under(fs, p))]

\* Mutants: nothing is marked; nothing is charged to the session.
Unmarked(fs, p) == fs
Uncharged(fs, data) == fs

Mark(fs, p) == [fs EXCEPT !.tree[p].mine = TRUE]
Charge(fs, data) == [fs EXCEPT !.written = @ + Len(data)]

WriteFile(fs, p, content, owner) ==
  LET l == Lookup(fs, DirOf(p), TRUE)
      q == Append(l.at, BaseOf(p))
  IN IF Full(fs, content.data) THEN Result(fs, "quota")
     ELSE IF l.err # "" THEN Result(fs, l.err)
     ELSE IF fs.tree[l.at].kind # "dir" THEN Result(fs, "notdir")
     ELSE IF q \in DOMAIN fs.tree /\ fs.tree[q].kind = "dir" THEN Result(fs, "isdir")
     ELSE Result(Mark(Put(Charge(fs, content.data), q, Node("file", content, owner)), q), "")

\* Go's append: in place when the array has room, and then every file that shares the
\* array and reaches as far reads the new units; else into an array of twice the size.
Grow(fs, p, data) ==
  LET old == fs.tree[p].content
      len == Len(old.data)
      now == old.data \o data
      over(s) == [i \in DOMAIN s |-> IF i \in (len + 1)..Len(now) THEN now[i] ELSE s[i]]
      sharing == {q \in DOMAIN fs.tree \ {p} : fs.tree[q].content.id = old.id}
      moved == [id |-> FreshId(fs), data |-> now,
                cap |-> IF Len(now) > 2 * old.cap THEN Cap(Len(now)) ELSE Cap(2 * old.cap)]
  IN IF Len(now) > old.cap THEN [fs EXCEPT !.tree[p].content = moved]
     ELSE [fs EXCEPT !.tree =
             [q \in sharing |-> [fs.tree[q] EXCEPT !.content.data = over(@)]]
             @@ [@ EXCEPT ![p].content.data = now]]

AppendFile(fs, p, data, owner) ==
  LET l == Lookup(fs, p, TRUE)
  IN IF l.err # "" THEN WriteFile(fs, p, Fresh(fs, data), owner)
     ELSE IF fs.tree[l.at].kind = "dir" THEN Result(fs, "isdir")
     ELSE IF Full(fs, data) THEN Result(fs, "quota")
     ELSE Result(Mark(Charge(Grow(fs, l.at, data), data), l.at), "")

Mkdir(fs, p, owner) ==
  LET l == Lookup(fs, DirOf(p), TRUE)
      q == Append(l.at, BaseOf(p))
  IN IF l.err # "" THEN Result(fs, l.err)
     ELSE IF fs.tree[l.at].kind # "dir" THEN Result(fs, "notdir")
     ELSE IF q \in DOMAIN fs.tree THEN Result(fs, "exists")
     ELSE Result(Mark(Put(fs, q, Directory(owner)), q), "")

\* Walks the children without looking at kinds, following no link, marking nothing.
MkdirAll(fs, p, owner) ==
  LET prefix(i) == SubSeq(p, 1, i)
      deepest == Max({i \in 0..Len(p) : prefix(i) \in DOMAIN fs.tree})
      missing == {prefix(i) : i \in (deepest + 1)..Len(p)}
  IN IF missing # {} /\ fs.tree[prefix(deepest)].kind # "dir" THEN Result(fs, "panic")
     ELSE Result([fs EXCEPT !.tree = [q \in missing |-> Directory(owner)] @@ @], "")

RemoveEntry(fs, p, recursive) ==
  LET l == Lookup(fs, DirOf(p), TRUE)
      q == Append(l.at, BaseOf(p))
  IN IF p = << >> THEN Result(fs, "permission")
     ELSE IF l.err # "" THEN Result(fs, l.err)
     ELSE IF q \notin DOMAIN fs.tree THEN Result(fs, "notfound")
     ELSE IF Children(fs, q) # {} /\ ~recursive THEN Result(fs, "notempty")
     ELSE Result(Drop(fs, q), "")

\* The entry leaves its directory before it enters the other one: a file there is a
\* panic with the entry gone, and a directory moved below itself goes with its subtree.
Rename(fs, from, to) ==
  LET f == Lookup(fs, DirOf(from), TRUE)
      q == Append(f.at, BaseOf(from))
      t == Lookup(fs, DirOf(to), TRUE)
      r == Append(t.at, BaseOf(to))
      rest == Drop(fs, q)
      below(d, p) == SubSeq(p, Len(d) + 1, Len(p))
      moved == [p \in {r \o below(q, u) : u \in Under(fs, q)} |-> fs.tree[q \o below(r, p)]]
  IN IF f.err # "" THEN Result(fs, f.err)
     ELSE IF q \notin DOMAIN fs.tree THEN Result(fs, "notfound")
     ELSE IF t.err # "" THEN Result(fs, t.err)
     ELSE IF fs.tree[t.at].kind # "dir" THEN Result(rest, "panic")
     ELSE IF IsPrefix(q, t.at) THEN Result(rest, "")
     ELSE Result(Mark([Drop(rest, r) EXCEPT !.tree = moved @@ @], r), "")

Chmod(fs, p, open) ==
  LET l == Lookup(fs, p, TRUE)
  IN IF l.err # "" THEN Result(fs, l.err)
     ELSE Result(Mark([fs EXCEPT !.tree[l.at].open = open], l.at), "")

Touch(fs, p, owner) ==
  IF Exists(fs, p) THEN Result(fs, "") ELSE WriteFile(fs, p, NoContent, owner)
=============================================================================
