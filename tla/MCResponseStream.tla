--------------------------- MODULE MCResponseStream ---------------------------
(* A small instance of ResponseStream for TLC. *)
EXTENDS ResponseStream

\* Handlers that set nothing, a length of their own, a Connection of either
\* kind, both, or a header that is no header.
HeaderLists ==
  {{}, {LengthLine(9)}, {Line("connection", "close")},
   {Line("connection", "keep-alive"), LengthLine(9)}, {Line("x", "broken")}}

AnyResponse ==
  [status : {"ok", "no_content", "not_modified", "switching"}, headers : HeaderLists, body : {0, 2}]

Policy(origins, methods, credentials) ==
  [origins |-> origins, methods |-> methods, credentials |-> credentials]
SomePolicies ==
  {NoPolicy, Policy({"*"}, "any", TRUE), Policy({"here"}, "any", FALSE), Policy({"here"}, "broken", FALSE)}
===============================================================================
