-------------------------------- MODULE OpenApi --------------------------------
(***************************************************************************)
(* cargo openapi (bin/openapi_from_code.rs): the scan of the source files  *)
(* line by line for route!(...) calls and the comments above them, the     *)
(* sorting of what was found, and the writing of the documents.  A line is *)
(* [comment, doc, tokens]: whether it starts with //, what parse_doc_-     *)
(* comments sees in it then, and the marks of a route call in its text.    *)
(***************************************************************************)
EXTENDS Naturals, SequencesExt

CONSTANT Sources   \* [files, routes, unclear]: lines of the sorted files, the routes in
                   \* them, and the keys of those that RoutesFound excepts

\* Paths, methods and handlers are numbers in the order of their names.
Token == [t : {"route!(", "(", ")", ",", "path", "method", "handler", "text"}, n : Nat]
ASSUME OpenApiAssumption ==
  \A s \in Sources : \A ls \in Range(s.files) : \A l \in Range(ls) :
    l.comment \in BOOLEAN /\ l.tokens \in Seq(Token)

VARIABLES source,     \* the files
          file, line, \* the next line
          comments,   \* the comments seen that no route has taken
          statement,  \* the route call being read; empty when reading_route is false
          above,      \* statement_comments
          routes,     \* the RouteDocs
          docs, public, \* the documents written, or Nothing
          pc          \* "scan", "write", "publish", or how run() ended

input == <<source, docs, public>>
vars == <<input, file, line, comments, statement, above, routes, pc>>

Nothing == <<>>   \* there is no document without routes
Ended == {"ok", "failed"}

-------------------------------------------------------------------------------
(* The text of a route call.                                               *)

Marks(text, t) == {i \in 1..Len(text) : text[i].t = t}
FirstMark(text, marks) == {i \in marks : \A j \in marks : i =< j}
IsRouteStatement(text) == Marks(text, "route!(") # {}

\* The parenthesis that the first route!( opens is closed.
RouteStatementComplete(text) ==
  \E start \in FirstMark(text, Marks(text, "route!(")) : \E last \in Marks(text, ")") :
    LET Inside(ts) == Cardinality({i \in start..last : text[i].t \in ts})
    IN start < last /\ Inside({"route!(", "("}) =< Inside({")"})

\* What a comment adds to the documentation of a route.
ParseDocComment(route, c) ==
  CASE c.key = "openapi" -> [route EXCEPT !.summary = c.value]
    [] c.key = "headers" -> [route EXCEPT !.headers = @ \cup c.value]
    [] c.key = "permission" -> [route EXCEPT !.permission = c.value]
    [] c.key = "request" -> [route EXCEPT !.body = c.value]
    [] c.key = "response" -> [route EXCEPT !.responses = Append(@, c.value)]
    [] c.key = "errors" -> [route EXCEPT !.responses =
                              @ \o [i \in 1..Len(c.value) |-> <<"400", c.value[i]>>]]
    [] OTHER -> route

\* humanize_handler gives the summary its default.
Undocumented(path, method, handler) ==
  [path |-> path, method |-> method, handler |-> handler, summary |-> <<>>,
   headers |-> {}, permission |-> "", body |-> "", responses |-> <<>>]
ParseDocComments(cs, route) ==
  LET documented == FoldLeft(ParseDocComment, route, cs)
  IN IF documented.summary # <<>> THEN documented
     ELSE [documented EXCEPT !.summary = <<"humanized", route.handler>>]

\* The path stands right behind the first route!(, the method at the first Rt::,
\* the handler behind the comma after it; without one of them there is no route.
ParseRoute(text, cs) ==
  {ParseDocComments(cs, Undocumented(text[start + 1].n, text[rt].n, text[comma + 1].n)) :
     <<start, rt, comma>> \in
       {<<s, r, c>> \in FirstMark(text, Marks(text, "route!(")) \X
                        FirstMark(text, Marks(text, "method")) \X Marks(text, ",") :
          /\ s < Len(text) /\ text[s + 1].t = "path"
          /\ c \in FirstMark(text, {i \in Marks(text, ",") : i > r})
          /\ c < Len(text) /\ \E i \in Marks(text, ",") \cup Marks(text, ")") : i > c}}

-------------------------------------------------------------------------------
(* parse_file: one line after the other.                                   *)

Lines == source.files[file]
HasLine == pc = "scan" /\ file =< Len(source.files) /\ line =< Len(Lines)
Text == Lines[line].tokens

\* A statement is read up to the line that completes it.
Statement(text, cs) ==
  IF RouteStatementComplete(text)
  THEN /\ routes' = routes \o SetToSeq(ParseRoute(text, cs))
       /\ statement' = <<>> /\ above' = <<>>
  ELSE /\ statement' = text /\ above' = cs
       /\ UNCHANGED routes

ContinueLine ==
  /\ HasLine /\ statement # <<>>
  /\ Statement(statement \o Text, above)
  /\ line' = line + 1
  /\ UNCHANGED <<input, file, comments, pc>>

CommentLine ==
  /\ HasLine /\ statement = <<>> /\ Lines[line].comment
  /\ comments' = Append(comments, Lines[line].doc)
  /\ line' = line + 1
  /\ UNCHANGED <<input, file, statement, above, routes, pc>>

RouteLine ==
  /\ HasLine /\ statement = <<>> /\ ~Lines[line].comment /\ IsRouteStatement(Text)
  /\ Statement(Text, comments)
  /\ comments' = <<>>
  /\ line' = line + 1
  /\ UNCHANGED <<input, file, pc>>

\* Other code ends the comments above a route, an empty line does not.
MutStillAbove == comments
StillAbove == IF Text = <<>> THEN comments ELSE <<>>
OtherLine ==
  /\ HasLine /\ statement = <<>> /\ ~Lines[line].comment /\ ~IsRouteStatement(Text)
  /\ comments' = StillAbove
  /\ line' = line + 1
  /\ UNCHANGED <<input, file, statement, above, routes, pc>>

\* The next file starts with nothing read; an unfinished call is dropped.
FileEnds ==
  /\ pc = "scan" /\ file =< Len(source.files) /\ line > Len(Lines)
  /\ file' = file + 1 /\ line' = 1
  /\ comments' = <<>> /\ statement' = <<>> /\ above' = <<>>
  /\ UNCHANGED <<input, routes, pc>>

\* A file or directory cannot be read: nothing is written.
ReadFails ==
  /\ pc = "scan" /\ file =< Len(source.files) /\ line = 1
  /\ pc' = "failed"
  /\ UNCHANGED <<input, file, line, comments, statement, above, routes>>

-------------------------------------------------------------------------------
(* load_routes, emit_openapi and run.                                      *)

Key(route) == <<route.path, route.method, route.handler>>
KeyBefore(k, l) ==
  \E i \in 1..3 : k[i] < l[i] /\ \A j \in 1..(i - 1) : k[j] = l[j]

\* A stable sort; of routes with the same key, then adjacent, the first stays.
SortRoutes(rs) ==
  LET Before(i, j) == KeyBefore(Key(rs[i]), Key(rs[j])) \/ (Key(rs[i]) = Key(rs[j]) /\ i < j)
      order == SetToSortSeq(1..Len(rs), Before)
  IN [i \in 1..Len(rs) |-> rs[order[i]]]
DedupRoutes(rs) ==
  FoldLeft(LAMBDA kept, r : IF kept # <<>> /\ Key(Last(kept)) = Key(r) THEN kept ELSE Append(kept, r),
           <<>>, rs)

Load ==
  /\ pc = "scan" /\ file > Len(source.files)
  /\ routes' = DedupRoutes(SortRoutes(routes))
  /\ pc' = IF routes = <<>> THEN "failed" ELSE "write"
  /\ UNCHANGED <<input, file, line, comments, statement, above>>

\* The operations under each path; one without responses says 200.
Operation(route) ==
  [route EXCEPT !.responses = IF @ = <<>> THEN <<<<"200", "OK">>>> ELSE @]
EmitOpenapi(rs) ==
  [path \in {r.path : r \in Range(rs)} |->
     LET of == SelectSeq(rs, LAMBDA r : r.path = path)
     IN [i \in 1..Len(of) |-> Operation(of[i])]]

WriteDocs ==
  /\ pc = "write"
  /\ docs' = EmitOpenapi(routes) /\ pc' = "publish"
  /\ UNCHANGED <<source, public, file, line, comments, statement, above, routes>>

\* The second document, if one is asked for.
WritePublic ==
  /\ pc = "publish"
  /\ public' \in {public, EmitOpenapi(routes)} /\ pc' = "ok"
  /\ UNCHANGED <<source, docs, file, line, comments, statement, above, routes>>

WriteFails ==
  /\ pc \in {"write", "publish"}
  /\ pc' = "failed"
  /\ UNCHANGED <<input, file, line, comments, statement, above, routes>>

Exited == pc \in Ended /\ UNCHANGED vars

Init ==
  /\ source \in Sources
  /\ file = 1 /\ line = 1
  /\ comments = <<>> /\ statement = <<>> /\ above = <<>>
  /\ routes = <<>> /\ docs = Nothing /\ public = Nothing /\ pc = "scan"

Next ==
  \/ ContinueLine \/ CommentLine \/ RouteLine \/ OtherLine \/ FileEnds \/ ReadFails
  \/ Load \/ WriteDocs \/ WritePublic \/ WriteFails \/ Exited

Spec == Init /\ [][Next]_vars

-------------------------------------------------------------------------------
(* Properties.                                                             *)

\* Every route of the sources is in the document once, with what the comments
\* above it say and nothing of what others say; where one is repeated, with the
\* comments of its first occurrence.  README.md:141 and 194 promise it of all
\* routes; the code keeps to it but for those that stand behind another call on
\* its line, have a comment before their path, or follow a commented-out call
\* that has comments (`unclear').  These may be missing or have others' comments,
\* yet they do no harm to the rest, and what is not in the code is not written.
RoutesFound ==
  \A document \in {docs, public} \ {Nothing} :
    LET First == {i \in 1..Len(source.routes) :
                    \A j \in 1..(i - 1) : Key(source.routes[j]) # Key(source.routes[i])}
        Due == {Operation(source.routes[i]) : i \in First}
        Written == UNION {Range(document[path]) : path \in DOMAIN document}
        Clear(rs) == {r \in rs : Key(r) \notin source.unclear}
    IN /\ Clear(Written) = Clear(Due)
       /\ {Key(r) : r \in Written} \subseteq {Key(r) : r \in Due}
       /\ \A path \in DOMAIN document :
            /\ document[path] # <<>> /\ \A r \in Range(document[path]) : r.path = path
            /\ IsInjective([i \in 1..Len(document[path]) |-> Key(document[path][i])])

\* README.md:141 promises an OpenAPI document: a mapping in it, of a path's
\* methods or of an operation's responses, has each key once.
KeysUnique ==
  \A path \in DOMAIN docs : docs # Nothing =>
    /\ IsInjective([i \in 1..Len(docs[path]) |-> docs[path][i].method])
    /\ \A i \in 1..Len(docs[path]) :
         LET responses == docs[path][i].responses
         IN IsInjective([k \in 1..Len(responses) |-> responses[k][1]])
===============================================================================
