------------------------------- MODULE RdpMC -------------------------------
(* Two connections of one source with room for one; headers of two and three symbols, *)
(* a negotiation request of three, and fields of three bytes: too few for the first   *)
(* cookie and for the first routing token, which are cut inside a character.          *)
EXTENDS Rdp

Sources == [c \in {"c1", "c2"} |-> "ip"]

Widths == [x \in Symbols \cup {Replacement} |->
             CASE x = "wide" -> 2 [] x = Replacement -> 3 [] OTHER -> 1]

Request(tpkt, token, mask) == [tpkt |-> tpkt, token |-> token, mask |-> mask]

SomeRequests == {
  Request(TRUE, <<"cookie", "a", "1", "b", "wide">>, Nothing),
  Request(FALSE, <<"cookie", "wide", "a", "b">>, <<"nla">>),
  Request(FALSE, <<"cookie", "lf", "cr", "junk">>, Nothing),
  Request(FALSE, <<"3", "a", "junk">>, Nothing),
  Request(TRUE, <<"3", "a">>, <<"nla">>),
  Request(FALSE, Nothing, <<"nla">>),
  Request(TRUE, Nothing, Nothing) }
=============================================================================
