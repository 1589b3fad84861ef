-------------------------------- MODULE Rdp --------------------------------
(***************************************************************************)
(* The RDP listener, node/internal/protocols/rdp: a goroutine for each     *)
(* connection, a limit per source, two Reads with a deadline each, and a   *)
(* parser for what the first of them returns.  A Read returns what has     *)
(* arrived, which may be any part of what the client sends.                *)
(*                                                                         *)
(* A request is a sequence of symbols: "3" and "1" are the bytes 0x03 and  *)
(* 0x01, "cookie" is the text before a cookie's value, any other symbol a  *)
(* character or a byte that is none, and the sizes of the parts are        *)
(* parameters.  A recorded text is a sequence of bytes: a pair of a        *)
(* character and the place of the byte in it.                              *)
(***************************************************************************)
EXTENDS Naturals, Sequences

CONSTANTS
  Conns, Ip,          \* connections and the source of each
  MaxSessionsPerIP,   \* 0 is no limit
  Requests,           \* what clients ask: [tpkt, token, mask]
  MinRead,            \* fewer bytes are not a session (7)
  MinRequest,         \* fewer are not parsed (11)
  TpktLen, FixedLen,  \* the two headers (4 and 7)
  NegLen,             \* the negotiation request (8)
  Letters, Junk,      \* the symbols of a text that have no other meaning; bytes that are no character
  Width,              \* the bytes of a character
  MaxText             \* the bytes kept of a cookie or token (256)

ASSUME RdpAssumption ==
  /\ MaxSessionsPerIP \in Nat
  /\ MinRead <= MinRequest /\ MinRequest = TpktLen + FixedLen
  /\ TpktLen \in Nat \ {0} /\ FixedLen \in Nat \ {0} /\ NegLen \in Nat \ {0, 1}
  /\ TpktLen <= NegLen
  /\ MaxText \in Nat

Controls == {"3", "1", "cr", "lf"}   \* the symbols that are control characters
Symbols == Controls \cup {"x", "cookie"} \cup Letters
Replacement == "fffd"                \* U+FFFD, what range makes of a byte that is no character
Nothing == << >>

ASSUME WidthAssumption == Junk \subseteq Letters /\ Width \in [Symbols \cup {Replacement} -> Nat \ {0}]

\* A client sends a cookie or a routing token, at most one, in a line of its own that is
\* longer than a header and may hold anything else, and names the protocols in one symbol.
ASSUME RequestAssumption ==
  \A r \in Requests :
    /\ r \in [tpkt : BOOLEAN, token : Seq(Symbols), mask : Seq(Symbols)]
    /\ r.token # Nothing =>
         /\ r.token[1] \in {"cookie", "3"}
         /\ \A i \in 1..(Len(r.token) - 1) : ~(r.token[i] = "cr" /\ r.token[i + 1] = "lf")
         /\ TpktLen <= Len(r.token) + 2
    /\ r.mask # Nothing => Len(r.mask) = 1

VARIABLES
  pc,         \* where each handler is; "new" before Accept
  perIP,      \* handlers per source; a deleted map entry is 0
  asked,      \* what each client asks, once the handler hears it
  heard,      \* what the Reads of each handler have returned
  log,        \* the events recorded for each connection
  cancelled   \* the node is shutting down

vars == <<pc, perIP, asked, heard, log, cancelled>>

Init ==
  /\ pc = [c \in Conns |-> "new"]
  /\ perIP = [ip \in {Ip[c] : c \in Conns} |-> 0]
  /\ asked = [c \in Conns |-> Nothing]
  /\ heard = [c \in Conns |-> Nothing]
  /\ log = [c \in Conns |-> << >>]
  /\ cancelled = FALSE
-----------------------------------------------------------------------------
(* The client, and the parser *)

\* Bytes that are not looked at.
Filler(n) == [i \in 1..n |-> "x"]

\* A request as its client sends it (MS-RDPBCGR 2.2.1.1): headers, token, negotiation.
Header(r) == (IF r.tpkt THEN <<"3">> \o Filler(TpktLen - 1) ELSE << >>) \o Filler(FixedLen)
Token(r) == IF r.token = Nothing THEN << >> ELSE r.token \o <<"cr", "lf">>
Negotiation(r) == IF r.mask = Nothing THEN << >> ELSE <<"1">> \o Filler(NegLen - 2) \o r.mask
Wire(r) == Header(r) \o (Token(r) \o Negotiation(r))

\* A CS_CORE block, or a part of it: marker, build, name.
ClientInfo == <<"core", "build", "name">>

\* Mutant: a line that has no end ends where the data ends.
LineEndAnywhere(b) ==
  LET ends == {i \in 1..(Len(b) - 1) : b[i] = "cr" /\ b[i + 1] = "lf"}
  IN IF ends = {} THEN Len(b) + 1 ELSE CHOOSE i \in ends : \A j \in ends : i <= j

\* indexCRLF; 0 is none.
LineEnd(b) ==
  LET ends == {i \in 1..(Len(b) - 1) : b[i] = "cr" /\ b[i + 1] = "lf"}
  IN IF ends = {} THEN 0 ELSE CHOOSE i \in ends : \A j \in ends : i <= j

\* WriteRune: the bytes of a symbol.
Rune(x) == IF x \in Junk THEN Replacement ELSE x
Utf8(x) == [i \in 1..Width[Rune(x)] |-> <<Rune(x), i>>]

\* What a field holds of a text: so many bytes, though a character may go on behind them.
Cut(t) == IF Len(t) > MaxText THEN SubSeq(t, 1, MaxText) ELSE t

\* sanitize: control characters are dropped, and then the text is cut.
Sanitize(s) ==
  LET kept[i \in 0..Len(s)] == IF i = 0 THEN << >>
                               ELSE IF s[i] \in Controls THEN kept[i - 1]
                               ELSE kept[i - 1] \o Utf8(s[i])
  IN Cut(kept[Len(s)])

\* parseNegRequest and protocolNames: no request is the one for plain RDP.
NegRequest(b) == IF Len(b) >= NegLen /\ b[1] = "1" THEN <<b[NegLen]>> ELSE <<"rdp">>

ParseConnectionRequest(data) ==
  LET body == IF data[1] = "3" THEN SubSeq(data, TpktLen + 1, Len(data)) ELSE data
      variable == SubSeq(body, FixedLen + 1, Len(body))
      e == LineEnd(variable)
      line == SubSeq(variable, 1, e - 1)
      is(b) == line # << >> /\ line[1] = b
  IN IF Len(data) < MinRequest \/ Len(body) < FixedLen
       THEN [cookie |-> Nothing, routing |-> Nothing, mask |-> <<"rdp">>]
     ELSE IF e = 0 THEN [cookie |-> Nothing, routing |-> Nothing, mask |-> NegRequest(variable)]
     ELSE [cookie |-> IF is("cookie") THEN Sanitize(Tail(line)) ELSE Nothing,
           routing |-> IF is("3") THEN Sanitize(line) ELSE Nothing,
           mask |-> NegRequest(SubSeq(variable, e + 2, Len(variable)))]

\* parseClientInfo: what follows the first marker, as far as it is there.
ParseClientInfo(data) ==
  LET marks == {i \in 1..(Len(data) - 1) : data[i] = "core"}
  IN IF marks = {} THEN Nothing
     ELSE LET i == CHOOSE m \in marks : \A j \in marks : m <= j
          IN SubSeq(data, i + 1, IF i + 2 <= Len(data) THEN i + 2 ELSE Len(data))
-----------------------------------------------------------------------------
(* The handler *)

MayAcquire(ip) == MaxSessionsPerIP = 0 \/ perIP[ip] < MaxSessionsPerIP

Step(c, from, to) == pc[c] = from /\ pc' = [pc EXCEPT ![c] = to]

\* utf8.ValidString, which a proto3 string has to pass: the last character is whole.
Valid(t) == t # << >> => t[Len(t)][2] = Width[t[Len(t)][1]]

\* emit and Append.  Marshal refuses a record with a text that is not valid, emit logs the
\* error, and the handler goes on.
Emit(c, event, texts) ==
  log' = [log EXCEPT ![c] = IF \A t \in texts : Valid(t) THEN Append(@, event) ELSE @]

\* Accept, and acquire at the start of handle.
Accept(c) ==
  /\ ~cancelled
  /\ MayAcquire(Ip[c])
  /\ Step(c, "new", "first")
  /\ perIP' = [perIP EXCEPT ![Ip[c]] = @ + 1]
  /\ UNCHANGED <<asked, heard, log, cancelled>>

Refuse(c) ==
  /\ ~cancelled
  /\ ~MayAcquire(Ip[c])
  /\ Step(c, "new", "closed")
  /\ UNCHANGED <<perIP, asked, heard, log, cancelled>>

\* The first Read.
ReadFirst(c) ==
  \E r \in Requests : \E n \in 1..Len(Wire(r)) :
    /\ Step(c, "first", IF n < MinRead THEN "release" ELSE "start")
    /\ asked' = [asked EXCEPT ![c] = r]
    /\ heard' = [heard EXCEPT ![c] = SubSeq(Wire(r), 1, n)]
    /\ UNCHANGED <<perIP, log, cancelled>>

\* Nothing came, or the client is gone: not a session.
FirstFails(c) ==
  /\ Step(c, "first", "release")
  /\ UNCHANGED <<perIP, asked, heard, log, cancelled>>

SessionStart(c) ==
  /\ Step(c, "start", "connect")
  /\ Emit(c, [kind |-> "start"], {})
  /\ UNCHANGED <<perIP, asked, heard, cancelled>>

\* RDPConnect, and the response.
Connect(c) ==
  LET cr == ParseConnectionRequest(heard[c])
  IN /\ Step(c, "connect", "second")
     /\ Emit(c, [kind |-> "connect", cookie |-> cr.cookie, routing |-> cr.routing, mask |-> cr.mask],
             {cr.cookie, cr.routing})
     /\ UNCHANGED <<perIP, asked, heard, cancelled>>

\* The second Read: the rest of the request, or a part of what a client says of itself.
ReadSecond(c) ==
  /\ Step(c, "second", "end")
  /\ LET rest == SubSeq(Wire(asked[c]), Len(heard[c]) + 1, Len(Wire(asked[c])))
         cookie == ParseConnectionRequest(heard[c]).cookie
     IN \E data \in {rest} \cup {SubSeq(ClientInfo, 1, n) : n \in DOMAIN ClientInfo} :
          /\ data # << >>
          /\ IF ParseClientInfo(data) = Nothing THEN UNCHANGED log
             ELSE Emit(c, [kind |-> "client", info |-> ParseClientInfo(data), cookie |-> cookie], {cookie})
  /\ UNCHANGED <<perIP, asked, heard, cancelled>>

\* Mutant: a second Read that fails ends the handler.
SecondFailsReturns(c) ==
  /\ Step(c, "second", "release")
  /\ UNCHANGED <<perIP, asked, heard, log, cancelled>>

SecondFails(c) ==
  /\ Step(c, "second", "end")
  /\ UNCHANGED <<perIP, asked, heard, log, cancelled>>

SessionEnd(c) ==
  /\ Step(c, "end", "release")
  /\ Emit(c, [kind |-> "end", reason |-> IF cancelled THEN "shutdown" ELSE "client"], {})
  /\ UNCHANGED <<perIP, asked, heard, cancelled>>

\* Mutant: the count of a source goes down for a recorded session only.
ReleaseRecorded(c) ==
  /\ Step(c, "release", "closed")
  /\ perIP' = [perIP EXCEPT ![Ip[c]] = IF log[c] = << >> THEN @ ELSE @ - 1]
  /\ UNCHANGED <<asked, heard, log, cancelled>>

\* The deferred release and Close.
Release(c) ==
  /\ Step(c, "release", "closed")
  /\ perIP' = [perIP EXCEPT ![Ip[c]] = @ - 1]
  /\ UNCHANGED <<asked, heard, log, cancelled>>

\* The context is cancelled and the listener closed; handlers are not told.
Shutdown ==
  /\ ~cancelled
  /\ cancelled' = TRUE
  /\ UNCHANGED <<pc, perIP, asked, heard, log>>

\* The process exits and waits for no handler.
Exit ==
  /\ cancelled
  /\ pc' = [c \in Conns |-> "gone"]
  /\ UNCHANGED <<perIP, asked, heard, log, cancelled>>

Recording(c) == SessionStart(c) \/ Connect(c) \/ SessionEnd(c) \/ Release(c)

Next ==
  \/ \E c \in Conns : \/ Accept(c) \/ Refuse(c)
                      \/ ReadFirst(c) \/ FirstFails(c)
                      \/ ReadSecond(c) \/ SecondFails(c)
                      \/ Recording(c)
  \/ Shutdown
  \/ Exit

\* Goroutines run, and each Read fails at its deadline if not before.
Fairness == \A c \in Conns : WF_vars(Recording(c)) /\ WF_vars(FirstFails(c)) /\ WF_vars(SecondFails(c))

Spec == Init /\ [][Next]_vars /\ Fairness
-----------------------------------------------------------------------------
(* Properties *)

\* What is recorded tells the beginning of a story.
Tells(events, story) ==
  Len(events) <= Len(story) /\ \A i \in DOMAIN events : events[i].kind = story[i]

\* What a record can have of a request.
CookieOf(r) == IF r.token # Nothing /\ r.token[1] = "cookie" THEN Sanitize(Tail(r.token)) ELSE Nothing
RoutingOf(r) == IF r.token # Nothing /\ r.token[1] = "3" THEN Sanitize(r.token) ELSE Nothing
MaskOf(r) == IF r.mask = Nothing THEN <<"rdp">> ELSE r.mask

\* The cookie or the routing token is cut inside a character.
Lossy(r) == ~Valid(CookieOf(r)) \/ ~Valid(RoutingOf(r))

\* handle: what is recorded of a connection is a beginning of one story, start, connect,
\* perhaps the client, end, and all of it once the handler has returned, if any.  Only a
\* request whose cookie or routing token is cut inside a character takes the connect out
\* of it; the start and the end are there all the same.
StoryWhole ==
  \A c \in Conns :
    /\ \/ Tells(log[c], <<"start", "connect", "client", "end">>)
       \/ Tells(log[c], <<"start", "connect", "end">>)
       \/ /\ Tells(log[c], <<"start", "client", "end">>) \/ Tells(log[c], <<"start", "end">>)
          /\ Lossy(asked[c])
    /\ (pc[c] \in {"release", "closed"} /\ log[c] # << >>)
         => log[c][Len(log[c])].kind = "end"

\* A text for the log.
Harmless(t) == Len(t) <= MaxText /\ \A i \in DOMAIN t : t[i][1] \notin Controls

\* The fields of a record, given a request and what was heard of it.
Faithful(e, r, data) ==
  /\ Harmless(e.cookie) /\ Harmless(e.routing)
  /\ e.cookie \in {CookieOf(r), Nothing} /\ e.routing \in {RoutingOf(r), Nothing}
  /\ e.mask \in {MaskOf(r), <<"rdp">>}
  /\ Len(data) >= Len(Header(r)) + Len(Token(r)) => e.cookie = CookieOf(r) /\ e.routing = RoutingOf(r)
  /\ data = Wire(r) => e.mask = MaskOf(r)

\* parseConnectionRequest and sanitize: wherever the network or the client cuts a request,
\* the record has the whole cookie or routing token, as far as a field holds it and without
\* control characters, or none, and it has it as soon as its line is heard to the end.  No
\* part of a token, of a header or of the negotiation is recorded as a cookie or a token.
\* The protocols are those the client named, or plain RDP, which is also what is recorded
\* of a negotiation request that did not come whole.  Every text is made of whole characters.
NeverHalfACookie ==
  \A c \in Conns : \A i \in DOMAIN log[c] :
    log[c][i].kind = "connect" =>
      /\ Faithful(log[c][i], asked[c], heard[c])
      /\ Valid(log[c][i].cookie) /\ Valid(log[c][i].routing)

\* acquire and release: no client keeps a place by saying nothing, and none is given back
\* twice or by a connection that was refused.  However its connections end, the count of
\* every source comes back to zero and stays there, unless the process exits first.
PlacesReturn ==
  \A ip \in {Ip[c] : c \in Conns} :
    <>[](perIP[ip] = 0 \/ \E c \in Conns : pc[c] = "gone")
=============================================================================
