------------------------------- MODULE MCOpenApi -------------------------------
(* Small sources for TLC, put together from pieces laid out in several ways. *)
EXTENDS OpenApi

CONSTANT MaxPieces   \* how many pieces the two files have together

Tk(t, n) == [t |-> t, n |-> n]
Code(tokens) == [comment |-> FALSE, doc |-> "none", tokens |-> tokens]
Comment(key, value) ==
  [comment |-> TRUE, doc |-> [key |-> key, value |-> value], tokens |-> <<Tk("text", 0)>>]
Blank == Code(<<>>)
Other == Code(<<Tk("text", 0)>>)

\* route!("path", Rt::METHOD, handler) on one line, on a line for each argument
\* with a comment among them, and with an upgrade handler in parentheses.
Open == <<Tk("route!(", 0)>>
Path(p) == <<Tk("path", p), Tk(",", 0)>>
Method(m) == <<Tk("method", m), Tk(",", 0)>>
Handler(h) == <<Tk("handler", h)>>
Closed == <<Tk(")", 0), Tk(",", 0)>>
Upgrading == <<Tk(",", 0), Tk("text", 0), Tk("(", 0), Tk("text", 0), Tk(")", 0)>>

OneLine(p, m, h) == <<Code(Open \o Path(p) \o Method(m) \o Handler(h) \o Closed)>>
ManyLines(p, m, h) ==
  <<Code(Open), Code(Path(p)), Comment("permission", "p9"), Blank, Code(Method(m)), Code(Handler(h)), Code(Closed)>>
WithUpgrade(p, m, h) == <<Code(Open \o Path(p)), Code(Method(m) \o Handler(h) \o Upgrading), Code(Closed)>>

Piece(ls, rs) == [lines |-> ls, found |-> rs, unclear |-> {}]
Documented == [Undocumented(1, 1, 1) EXCEPT
  !.summary = <<"users">>, !.headers = {"token", "id"}, !.permission = "p1", !.responses = <<<<"200", "list">>>>]
Bare(p, m, h) == [Undocumented(p, m, h) EXCEPT !.summary = <<"humanized", h>>]

Pieces ==
  {Piece(<<Comment("openapi", <<"users">>), Comment("headers", {"token"}), Comment("headers", {"id"}),
           Comment("permission", "p1"), Blank, Comment("response", <<"200", "list">>)>>
         \o OneLine(1, 1, 1), <<Documented>>),
   Piece(OneLine(1, 1, 1), <<Bare(1, 1, 1)>>),
   Piece(ManyLines(2, 1, 2), <<Bare(2, 1, 2)>>),
   Piece(<<Comment("request", "json")>> \o WithUpgrade(1, 2, 1), <<[Bare(1, 2, 1) EXCEPT !.body = "json"]>>),
   Piece(<<Comment("errors", <<"bad">>), Comment("openapi", <<>>)>> \o ManyLines(2, 2, 1),
         <<[Bare(2, 2, 1) EXCEPT !.responses = <<<<"400", "bad">>>>]>>),
   Piece(<<Comment("permission", "p2"), Other>>, <<>>),
   Piece(<<Blank, [Comment("none", "") EXCEPT !.tokens = OneLine(3, 1, 1)[1].tokens]>>, <<>>)}

\* Two calls on a line; a comment between a call and its path; a call commented
\* out below its comments, directly above another.
OddPieces ==
  {[Piece(<<Comment("permission", "p5"), Code(OneLine(2, 1, 1)[1].tokens \o OneLine(3, 1, 1)[1].tokens)>>,
          <<[Bare(2, 1, 1) EXCEPT !.permission = "p5"], Bare(3, 1, 1)>>)
      EXCEPT !.unclear = {<<3, 1, 1>>}],
   [Piece(<<Comment("request", "json"), Code(Open), Comment("permission", "p6")>> \o Tail(ManyLines(3, 1, 2)),
          <<[Bare(3, 1, 2) EXCEPT !.body = "json"]>>)
      EXCEPT !.unclear = {<<3, 1, 2>>}],
   [Piece(<<Comment("permission", "p7"), [Comment("none", "") EXCEPT !.tokens = OneLine(3, 2, 2)[1].tokens]>>
            \o OneLine(3, 2, 1), <<Bare(3, 2, 1)>>)
      EXCEPT !.unclear = {<<3, 2, 1>>}]}

\* What may stand at the end of a file only.
Ends ==
  {Piece(<<>>, <<>>), Piece(<<Comment("permission", "p3")>>, <<>>),
   Piece(<<Comment("permission", "p4"), Code(Open \o Path(3))>>, <<>>)}

Joined(pieces) == FoldLeft(LAMBDA ls, p : ls \o p.lines, <<>>, pieces)
Source(first, end, second) ==
  [files |-> <<Joined(first) \o end.lines, Joined(second)>>,
   routes |-> FoldLeft(LAMBDA rs, p : rs \o p.found, <<>>, first \o second),
   unclear |-> UNION {p.unclear : p \in Range(first \o second)}]
MCSources ==
  UNION {{Source(SubSeq(ps, 1, k), end, SubSeq(ps, k + 1, Len(ps))) : k \in 0..Len(ps), end \in Ends} :
           ps \in BoundedSeq(Pieces \cup OddPieces, MaxPieces)}

\* The comments of README.md:180-181, above a route.
ReadmeSource ==
  {[files |-> <<<<Comment("response", <<"200", "OK">>),
                  Comment("errors", <<"invalid_token", "insufficient_permissions">>)>>
                \o OneLine(1, 1, 1)>>,
    routes |-> <<>>, unclear |-> {}]}
===============================================================================
