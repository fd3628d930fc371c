------------------------------ MODULE MCRouting ------------------------------
(* A table of overlapping routes for TLC. *)
EXTENDS Routing

CONSTANTS plain, upgrading

MCKeyOf == ("{id}" :> "id") @@ ("{name}" :> "name")

\* Two patterns that overlap, one with a name twice, one that is a path of
\* another pattern's, exact routes among them, and the empty path.
MCRoutes ==
  {<<"GET", <<"user", "{id}">>>>, <<"GET", <<"{name}", "me">>>>, <<"GET", <<"user", "me">>>>,
   <<"GET", <<"{id}", "{id}">>>>, <<"GET", <<"">>>>,
   <<"POST", <<"user", "{name}">>>>, <<"POST", <<"user", "me">>>>}

MCPaths == {<<"user", "me">>, <<"user", "">>, <<"shop", "me">>, <<"user", "{id}">>, <<"user">>}
MCQueries == {<<>>, << <<"id", "1">>, <<"id", "2">> >>, << <<"name">>, <<"page", "3">> >>}

MCRequests ==
  [method : {"GET", "POST"}, path : MCPaths, query : MCQueries, valid : {TRUE}] \cup
  [method : {"POST"}, path : {<<"user", "me">>}, query : {<<>>}, valid : {FALSE}]
===============================================================================
