------------------------------- MODULE Routing -------------------------------
(***************************************************************************)
(* How a request finds its handler (core/request.rs, core/route.rs): the   *)
(* path parameters taken while the request is parsed, the routing before   *)
(* and, if it found nothing, once more after the reader returns, and the   *)
(* search for the route's upgrade handler.  Each of them goes through the  *)
(* table by itself, in the order of a HashMap, which is any order.         *)
(***************************************************************************)
EXTENDS Integers, FiniteSets, SequencesExt

CONSTANTS Routes,      \* the <<method, path>> that may be registered; a path is
                       \* the sequence of its segments, a segment a string
          KeyOf,       \* a parameter's name, for each segment in braces
          Entries,     \* RouteEntry: a handler and maybe an upgrade handler
          Upgrading,   \* the entries with an upgrade handler
          NoEntry,
          Requests,    \* the requests that may come
          MaxRoutes    \* a bound of the model on the table's size

ASSUME RoutingAssumption ==
  /\ Upgrading \subseteq Entries /\ NoEntry \notin Entries
  /\ \A r \in Requests : r.valid \in BOOLEAN

VARIABLES table,     \* HashMap<(Rt, String), RouteEntry>
          order,     \* the order in which the map is gone through
          stage,     \* how far the current request has come
          req,       \* the current request
          params,    \* its parameters
          response,  \* what will be answered
          upgrade,   \* the entry whose upgrade handler was found
          calls,     \* history: the handlers called for it, with what they saw
          taken      \* history: the entry whose upgrade handler got the stream

vars == <<table, order, stage, req, params, response, upgrade, calls, taken>>

-------------------------------------------------------------------------------
(* Parameters.                                                             *)

NoParams == <<>>
Orders(keys) == Surjection(1..Cardinality(keys), keys)

\* A map with the pairs of another inserted, or left where they are missing.
Over(f, g) == [x \in DOMAIN f \cup DOMAIN g |-> IF x \in DOMAIN f THEN f[x] ELSE g[x]]

\* The part of a request line behind `?': pairs, of which those without `=' are
\* ignored and the last of a name counts.
Pairs(query) == {i \in DOMAIN query : Len(query[i]) = 2}
QueryParams(query) ==
  [name \in {query[i][1] : i \in Pairs(query)} |->
     query[CHOOSE i \in Pairs(query) :
             query[i][1] = name /\ \A k \in Pairs(query) : query[k][1] = name => k =< i][2]]

IsParam(segment) == segment \in DOMAIN KeyOf
ParamAt(route, name) == {i \in DOMAIN route : IsParam(route[i]) /\ KeyOf[route[i]] = name}

Fits(route, path) ==
  Len(route) = Len(path) /\ \A i \in DOMAIN route : IsParam(route[i]) \/ route[i] = path[i]

\* A route that does not fit gives no parameters, as does one that has none.
ExtractParams(route, path) ==
  IF Fits(route, path)
  THEN [name \in {KeyOf[route[i]] : i \in {k \in DOMAIN route : IsParam(route[k])}} |->
          path[CHOOSE i \in ParamAt(route, name) : \A k \in ParamAt(route, name) : k =< i]]
  ELSE NoParams

MutMatches(key, r) == ExtractParams(key[2], r.path) # NoParams
Matches(key, r) == key[1] = r.method /\ ExtractParams(key[2], r.path) # NoParams

\* The first in the map's order: an empty set if there is none.
FirstMatch(r) ==
  {order[i] : i \in {k \in DOMAIN order :
                       Matches(order[k], r) /\ \A n \in 1..(k - 1) : ~Matches(order[n], r)}}

ExactKey(r) == <<r.method, r.path>>
HasExact(r) == ExactKey(r) \in DOMAIN table

-------------------------------------------------------------------------------
(* The steps of a request.                                                 *)

\* routes(): one registered again is replaced.  It needs the server for itself;
\* a call after the server has returned only leads to a table that an earlier
\* call leads to as well.
Register(key, entry) ==
  /\ stage = "setup"
  /\ key \in DOMAIN table \/ Cardinality(DOMAIN table) < MaxRoutes
  /\ table' = Over([k \in {key} |-> entry], table)
  /\ order' \in Orders(DOMAIN table')
  /\ UNCHANGED <<stage, req, params, response, upgrade, calls, taken>>

\* Request::default(), which stands in for what cannot be parsed.
DefaultRequest == [method |-> "GET", path |-> <<"">>, query |-> <<>>, valid |-> FALSE]

\* The parameters of the first pattern that matches, whatever the request will
\* be routed to, under those of the query.
MutPathParams(r) ==
  {ExtractParams(order[k][2], r.path) : k \in {n \in DOMAIN order : Matches(order[n], r)
     /\ \A m \in (n + 1)..Len(order) : ~Matches(order[m], r)}}
PathParams(r) == {ExtractParams(key[2], r.path) : key \in FirstMatch(r)}

Refused(r) ==
  /\ req' = DefaultRequest /\ params' = NoParams
  /\ response' = "refusal" /\ stage' = "ready"

ParseRawOnly(r) ==
  /\ stage \in {"setup", "answered"}
  /\ \/ ~r.valid /\ Refused(r)
     \/ /\ r.valid
        /\ req' = r /\ response' = "none" /\ stage' = "route"
        /\ \/ \E p \in PathParams(r) : params' = Over(QueryParams(r.query), p)
           \/ PathParams(r) = {} /\ params' = QueryParams(r.query)
  /\ upgrade' = NoEntry /\ calls' = <<>> /\ taken' = NoEntry
  /\ UNCHANGED <<table, order>>

\* A handler answers, with 101 or otherwise.
Call(key, seen) ==
  /\ params' = seen
  /\ calls' = Append(calls, [key |-> key, params |-> seen])
  /\ response' \in {"ok", "switch"}

\* route_sync, route_async: the exact route, else the first match, else a file.
RouteRequest(otherwise) ==
  \/ HasExact(req) /\ Call(ExactKey(req), params)
  \/ /\ ~HasExact(req)
     /\ \E key \in FirstMatch(req) : Call(key, Over(params, ExtractParams(key[2], req.path)))
  \/ /\ ~HasExact(req) /\ FirstMatch(req) = {}
     /\ response' = IF req.method = "GET" THEN "file" ELSE otherwise
     /\ UNCHANGED <<params, calls>>

RouteEarly ==
  /\ stage = "route"
  /\ RouteRequest("none")
  /\ stage' = "ready"
  /\ UNCHANGED <<table, order, req, upgrade, taken>>

\* upgrade_handler: the same search in a loop of its own.
MutUpgradeEntry(r) == {table[key] : key \in FirstMatch(r)}
UpgradeEntry(r) ==
  IF HasExact(r) THEN {table[ExactKey(r)]} ELSE {table[key] : key \in FirstMatch(r)}

FindUpgrade ==
  /\ stage = "ready"
  /\ \/ \E entry \in UpgradeEntry(req) \cap Upgrading : upgrade' = entry
     \/ UpgradeEntry(req) \cap Upgrading = {} /\ upgrade' = NoEntry
  /\ stage' = "respond"
  /\ UNCHANGED <<table, order, req, params, response, calls, taken>>

\* response_or_default.
Default == "default"

\* The request is routed again only if the reader brought no response.
MutNeedsRouting == req.valid
NeedsRouting == response = "none"

Respond ==
  /\ stage = "respond"
  /\ IF NeedsRouting THEN RouteRequest(Default) ELSE UNCHANGED <<params, calls, response>>
  /\ stage' = "reply"
  /\ UNCHANGED <<table, order, req, upgrade, taken>>

\* A 101 hands the stream over if an upgrade handler was found.
Reply ==
  /\ stage = "reply"
  /\ taken' = IF response = "switch" THEN upgrade ELSE NoEntry
  /\ stage' = "answered"
  /\ UNCHANGED <<table, order, req, params, response, upgrade, calls>>

Init ==
  /\ table = NoParams /\ order = <<>> /\ stage = "setup"
  /\ req = DefaultRequest /\ params = NoParams /\ response = "none"
  /\ upgrade = NoEntry /\ calls = <<>> /\ taken = NoEntry

Next ==
  \/ \E key \in Routes, entry \in Entries : Register(key, entry)
  \/ \E r \in Requests : ParseRawOnly(r)
  \/ RouteEarly \/ FindUpgrade \/ Respond \/ Reply

Spec == Init /\ [][Next]_vars

-------------------------------------------------------------------------------
(* Properties.                                                             *)

\* Types; the map's order goes through exactly the table, and when the reply
\* goes out there is a response.
TypeOK ==
  /\ DOMAIN table \subseteq Routes /\ \A key \in DOMAIN table : table[key] \in Entries
  /\ order \in Seq(DOMAIN table) /\ Range(order) = DOMAIN table
  /\ stage \in {"setup", "route", "ready", "respond", "reply", "answered"}
  /\ req \in Requests \cup {DefaultRequest}
  /\ response \in {"none", "refusal", "ok", "switch", "file", "default"}
  /\ stage \in {"reply", "answered"} => response # "none"
  /\ upgrade \in Upgrading \cup {NoEntry} /\ taken \in Upgrading \cup {NoEntry}

\* Although the parameters were taken before the route was chosen, by another
\* search, the handler of a pattern sees its own: each has the value of its
\* segment, or of the query, and none comes from another pattern.
OwnParams ==
  \A i \in DOMAIN calls :
    LET key == calls[i].key
        seen == calls[i].params
        own == ExtractParams(key[2], req.path)
        asked == QueryParams(req.query)
    IN key # ExactKey(req) => seen = Over(asked, own)

\* The upgrade handler that gets the stream is the one of the route whose
\* handler answered 101, although each was searched for separately.
UpgradeOfHandler ==
  taken # NoEntry => \E i \in DOMAIN calls : taken = table[calls[i].key]

\* No request with a route goes without its handler, an exact route comes
\* first whatever the order of the map, and no other handler is called.
RouteFound ==
  stage \in {"reply", "answered"} /\ req.valid =>
    /\ HasExact(req) => [i \in DOMAIN calls |-> calls[i].key] = <<ExactKey(req)>>
    /\ ~HasExact(req) /\ (\E key \in DOMAIN table : Matches(key, req)) => calls # <<>>
    /\ \A i \in DOMAIN calls : calls[i].key[1] = req.method /\ Fits(calls[i].key[2], req.path)

\* What cannot be parsed reaches no handler, no file and no upgrade handler,
\* although it goes on as a GET of the empty path, which may have a route.
RefusedReachesNobody ==
  stage # "setup" /\ ~req.valid => calls = <<>> /\ taken = NoEntry /\ response = "refusal"

\* A request is handled once at most, although it may be routed twice, and one
\* that cannot be parsed by nobody.
HandledOnce == Len(calls) =< 1 /\ RefusedReachesNobody
===============================================================================
