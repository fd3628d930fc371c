---------------------------- MODULE RoutingProofs ----------------------------
(***************************************************************************)
(* Theorems about Routing, for every table of routes, every order of the   *)
(* map and every request.                                                  *)
(***************************************************************************)
EXTENDS Routing, FiniteSetTheorems, WellFoundedInduction, TLAPS

-------------------------------------------------------------------------------
(* Maps that override one another.                                         *)

LEMMA OverrideTwice ==
  ASSUME NEW f, NEW g
  PROVE  Over(Over(f, g), g) = Over(f, g)
  BY DEF Over

LEMMA OverrideOne ==
  ASSUME NEW f, NEW k, NEW v
  PROVE  /\ DOMAIN Over([y \in {k} |-> v], f) = DOMAIN f \cup {k}
         /\ \A x \in DOMAIN f \cup {k} :
              Over([y \in {k} |-> v], f)[x] = IF x = k THEN v ELSE f[x]
  BY DEF Over

-------------------------------------------------------------------------------
(* The search for a route.                                                 *)

LEMMA SmallestPosition ==
  ASSUME NEW T, T \subseteq Nat, T # {}
  PROVE  \E m \in T : \A k \in T : ~(k < m)
  <1> DEFINE R == OpToRel(<, Nat)
  <1>1. \E m \in T : \A k \in T : ~(<<k, m>> \in R)
    <2> HIDE DEF R
    <2>1. IsWellFoundedOn(R, Nat)
      BY NatLessThanWellFounded DEF R
    <2>2. QED
      BY <2>1, WFMin
  <1>2. QED
    BY <1>1 DEF OpToRel

\* At most one key is the first match.
LEMMA OneFirstMatch ==
  ASSUME order \in Seq(DOMAIN table), NEW r,
         NEW k1 \in FirstMatch(r), NEW k2 \in FirstMatch(r)
  PROVE  k1 = k2
  <1> DEFINE First(i) == i \in DOMAIN order /\ Matches(order[i], r)
                         /\ \A n \in 1..(i - 1) : ~Matches(order[n], r)
  <1>1. PICK i : First(i) /\ k1 = order[i]
    BY DEF FirstMatch
  <1>2. PICK j : First(j) /\ k2 = order[j]
    BY DEF FirstMatch
  <1>3. i \in Nat \ {0} /\ j \in Nat \ {0}
    BY <1>1, <1>2
  <1>4. ~(i < j) /\ ~(j < i)
    BY <1>1, <1>2, <1>3
  <1>5. QED
    BY <1>1, <1>2, <1>3, <1>4

\* If a route of the table matches there is a first match, and it matches.
LEMMA FirstMatchFound ==
  ASSUME order \in Seq(DOMAIN table), Range(order) = DOMAIN table, NEW r
  PROVE  /\ \A key \in FirstMatch(r) : key \in DOMAIN table /\ Matches(key, r)
         /\ (\E key \in DOMAIN table : Matches(key, r)) => FirstMatch(r) # {}
  <1>1. \A key \in FirstMatch(r) : key \in DOMAIN table /\ Matches(key, r)
    BY DEF FirstMatch
  <1>2. ASSUME NEW key \in DOMAIN table, Matches(key, r) PROVE FirstMatch(r) # {}
    <2> DEFINE T == {k \in DOMAIN order : Matches(order[k], r)}
    <2>1. T # {} /\ T \subseteq Nat
      <3>1. \E k \in DOMAIN order : order[k] = key
        BY DEF Range
      <3>2. QED
        BY <3>1, <1>2
    <2>2. PICK m \in T : \A k \in T : ~(k < m)
      <3> HIDE DEF T
      <3>1. QED
        BY <2>1, SmallestPosition
    <2>3. \A n \in 1..(m - 1) : ~Matches(order[n], r)
      BY <2>2
    <2>4. order[m] \in FirstMatch(r)
      BY <2>3 DEF FirstMatch
    <2>5. QED
      BY <2>4
  <1>3. QED
    BY <1>1, <1>2

LEMMA MatchFits ==
  ASSUME NEW key, NEW r, Matches(key, r)
  PROVE  key[1] = r.method /\ Fits(key[2], r.path)
  BY DEF Matches, ExtractParams

-------------------------------------------------------------------------------
(* The inductive invariant.                                                *)

NoRoute == ~HasExact(req) /\ FirstMatch(req) = {}
Asked == QueryParams(req.query)

\* The parameters ParseRawOnly leaves for the routing.
ParamsTaken ==
  \/ \E p \in PathParams(req) : params = Over(Asked, p)
  \/ PathParams(req) = {} /\ params = Asked

\* Before the routing, and after one that found nothing.
BeforeRouting ==
  stage = "route" => req.valid /\ response = "none" /\ calls = <<>> /\ ParamsTaken
Unrouted ==
  stage \in {"ready", "respond"} /\ response = "none" =>
    req.valid /\ calls = <<>> /\ NoRoute

\* At most one handler was called, that of the exact route or of the first
\* match, the latter with its own parameters.
CallOK ==
  \/ calls = <<>>
  \/ /\ calls = <<calls[1]>>
     /\ \/ HasExact(req) /\ calls[1].key = ExactKey(req)
        \/ /\ ~HasExact(req) /\ calls[1].key \in FirstMatch(req)
           /\ calls[1].params = Over(Asked, ExtractParams(calls[1].key[2], req.path))

Routed ==
  stage \in {"ready", "respond", "reply", "answered"} /\ req.valid => calls # <<>> \/ NoRoute
SwitchIsAnswer == response = "switch" => calls # <<>>
UpgradeFound == stage \in {"respond", "reply"} /\ upgrade # NoEntry => upgrade \in UpgradeEntry(req)
TakenOK ==
  taken # NoEntry => stage = "answered" /\ response = "switch" /\ taken \in UpgradeEntry(req)
SetupOK == stage = "setup" => calls = <<>> /\ response = "none" /\ taken = NoEntry

IInv ==
  /\ TypeOK /\ IsFiniteSet(DOMAIN table)
  /\ BeforeRouting /\ Unrouted /\ CallOK /\ Routed
  /\ SwitchIsAnswer /\ UpgradeFound /\ TakenOK /\ SetupOK
  /\ RefusedReachesNobody

-------------------------------------------------------------------------------
(* Every step keeps it.                                                    *)

LEMMA InitOK == Init => IInv
  <1> SUFFICES ASSUME Init PROVE IInv
    OBVIOUS
  <1>1. DOMAIN table = {} /\ Range(order) = {} /\ IsFiniteSet(DOMAIN table)
    BY FS_EmptySet DEF Init, NoParams, Range
  <1>2. TypeOK
    <2>1. order \in Seq(DOMAIN table) /\ \A key \in DOMAIN table : table[key] \in Entries
      BY <1>1 DEF Init
    <2>2. QED
      BY <1>1, <2>1 DEF Init, TypeOK
  <1>3. QED
    BY <1>1, <1>2 DEF Init, IInv, BeforeRouting, Unrouted, CallOK, Routed, SwitchIsAnswer,
       UpgradeFound, TakenOK, SetupOK, RefusedReachesNobody, DefaultRequest

\* An order of the map goes through all of its keys.
LEMMA OrderRange ==
  ASSUME NEW S, NEW n \in Nat, NEW f \in Surjection(1..n, S)
  PROVE  f \in Seq(S) /\ Range(f) = S
  <1>1. f \in [1..n -> S] /\ \A t \in S : \E i \in 1..n : f[i] = t
    BY DEF Surjection
  <1>2. DOMAIN f = 1..n /\ \A i \in 1..n : f[i] \in S
    BY <1>1
  <1>3. Range(f) = S
    BY <1>1, <1>2, Zenon DEF Range
  <1>4. QED
    BY <1>1, <1>3

LEMMA DefaultRefused == DefaultRequest.valid = FALSE
  BY DEF DefaultRequest

LEMMA RegisterKeeps ==
  ASSUME IInv, NEW key \in Routes, NEW entry \in Entries, Register(key, entry)
  PROVE  IInv'
  <1> USE DEF Register
  <1>1. /\ DOMAIN table' = DOMAIN table \cup {key}
        /\ \A x \in DOMAIN table' : table'[x] = IF x = key THEN entry ELSE table[x]
    BY DEF Over
  <1>2. IsFiniteSet(DOMAIN table')
    BY <1>1, FS_AddElement DEF IInv
  <1>3. order' \in Seq(DOMAIN table') /\ Range(order') = DOMAIN table'
    BY <1>2, FS_CardinalityType, OrderRange DEF Orders
  <1>4. TypeOK'
    BY <1>1, <1>3 DEF IInv, TypeOK
  <1>5. QED
    BY <1>2, <1>4 DEF IInv, BeforeRouting, Unrouted, CallOK, Routed, SwitchIsAnswer,
       UpgradeFound, TakenOK, SetupOK, RefusedReachesNobody

LEMMA ParseKeeps ==
  ASSUME IInv, NEW r \in Requests, ParseRawOnly(r)
  PROVE  IInv'
  <1> USE DEF ParseRawOnly
  <1>1. stage' \in {"route", "ready"} /\ response' \in {"none", "refusal"}
        /\ req' \in Requests \cup {DefaultRequest}
    BY DEF Refused
  <1>2. TypeOK' /\ IsFiniteSet(DOMAIN table)'
    BY <1>1 DEF IInv, TypeOK
  <1>3. BeforeRouting'
    <2>1. CASE r.valid
      <3>1. PathParams(req)' = PathParams(r)
        BY <2>1 DEF PathParams, FirstMatch
      <3>2. QED
        BY <2>1, <3>1 DEF BeforeRouting, ParamsTaken, Asked
    <2>2. CASE ~r.valid
      BY <2>2 DEF BeforeRouting, Refused
    <2>3. QED
      BY <2>1, <2>2
  <1>4. Unrouted' /\ Routed' /\ RefusedReachesNobody'
    <2>1. CASE r.valid
      BY <2>1 DEF Unrouted, Routed, RefusedReachesNobody
    <2>2. CASE ~r.valid
      <3>1. req'.valid = FALSE /\ response' = "refusal" /\ calls' = <<>> /\ taken' = NoEntry
        BY <2>2, DefaultRefused DEF Refused
      <3>2. QED
        BY <3>1 DEF Unrouted, Routed, RefusedReachesNobody
    <2>3. QED
      BY <2>1, <2>2
  <1>5. CallOK' /\ SwitchIsAnswer' /\ UpgradeFound' /\ TakenOK' /\ SetupOK'
    BY <1>1 DEF CallOK, SwitchIsAnswer, UpgradeFound, TakenOK, SetupOK
  <1>6. QED
    BY <1>2, <1>3, <1>4, <1>5 DEF IInv

\* While the request and the table stay, so does what is found.
LEMMA SearchStays ==
  ASSUME UNCHANGED <<table, order, req>>
  PROVE  /\ FirstMatch(req)' = FirstMatch(req)
         /\ HasExact(req)' = HasExact(req) /\ ExactKey(req)' = ExactKey(req)
         /\ NoRoute' = NoRoute
         /\ UpgradeEntry(req)' = UpgradeEntry(req)
         /\ Asked' = Asked
  <1>1. FirstMatch(req)' = FirstMatch(req)
    BY DEF FirstMatch
  <1>2. HasExact(req)' = HasExact(req) /\ ExactKey(req)' = ExactKey(req)
    BY DEF HasExact, ExactKey
  <1>3. UpgradeEntry(req)' = UpgradeEntry(req)
    BY <1>1, <1>2 DEF UpgradeEntry, HasExact, ExactKey
  <1>4. QED
    BY <1>1, <1>2, <1>3 DEF NoRoute, Asked

\* The pattern that matches first is the one whose parameters were taken.
LEMMA SameParams ==
  ASSUME TypeOK, ParamsTaken, NEW key \in FirstMatch(req)
  PROVE  Over(params, ExtractParams(key[2], req.path))
           = Over(Asked, ExtractParams(key[2], req.path))
  <1> DEFINE E == ExtractParams(key[2], req.path)
  <1>1. PathParams(req) = {E}
    BY OneFirstMatch DEF PathParams, TypeOK
  <1>2. params = Over(Asked, E)
    BY <1>1 DEF ParamsTaken
  <1>3. QED
    BY <1>2, OverrideTwice

LEMMA EarlyKeeps == IInv /\ RouteEarly => IInv'
  <1> SUFFICES ASSUME IInv, RouteEarly PROVE IInv'
    OBVIOUS
  <1> USE DEF RouteEarly
  <1>1. req.valid /\ calls = <<>> /\ ParamsTaken /\ TypeOK /\ response = "none"
    BY DEF IInv, BeforeRouting
  <1>2. UNCHANGED <<table, order, req, upgrade, taken>> /\ stage' = "ready"
    OBVIOUS
  <1> DEFINE Outcome ==
        /\ CallOK'
        /\ calls' # <<>> \/ (NoRoute' /\ calls' = <<>>)
        /\ response' \in {"ok", "switch", "file", "none"}
        /\ response' = "switch" => calls' # <<>>
        /\ response' = "none" => calls' = <<>>
  <1>3. Outcome
    <2>1. CASE HasExact(req) /\ Call(ExactKey(req), params)
      <3>1. calls' = <<[key |-> ExactKey(req), params |-> params]>>
        BY <1>1, <2>1 DEF Call
      <3>2. calls'[1].key = ExactKey(req) /\ calls' = <<calls'[1]>>
        BY <3>1
      <3>3. CallOK'
        BY <1>2, <2>1, <3>2, SearchStays DEF CallOK
      <3>4. QED
        BY <2>1, <3>1, <3>3 DEF Call
    <2>2. ASSUME ~HasExact(req), NEW key \in FirstMatch(req),
                 Call(key, Over(params, ExtractParams(key[2], req.path)))
          PROVE  Outcome
      <3> DEFINE seen == Over(Asked, ExtractParams(key[2], req.path))
      <3>1. calls' = <<[key |-> key, params |-> seen]>>
        BY <1>1, <2>2, SameParams DEF Call
      <3>2. calls'[1].key = key /\ calls'[1].params = seen /\ calls' = <<calls'[1]>>
        BY <3>1
      <3>3. CallOK'
        BY <1>2, <2>2, <3>2, SearchStays DEF CallOK
      <3>4. QED
        BY <2>2, <3>1, <3>3 DEF Call
    <2>3. CASE /\ ~HasExact(req) /\ FirstMatch(req) = {}
               /\ response' = IF req.method = "GET" THEN "file" ELSE "none"
               /\ UNCHANGED <<params, calls>>
      BY <1>1, <1>2, <2>3, SearchStays DEF CallOK, NoRoute
    <2>4. QED
      BY <2>1, <2>2, <2>3 DEF RouteRequest
  <1>4. TypeOK' /\ IsFiniteSet(DOMAIN table)'
    BY <1>1, <1>2, <1>3 DEF IInv, TypeOK
  <1>5. BeforeRouting' /\ Unrouted' /\ Routed' /\ SwitchIsAnswer' /\ SetupOK' /\ RefusedReachesNobody'
    BY <1>1, <1>2, <1>3 DEF BeforeRouting, Unrouted, Routed, SwitchIsAnswer, SetupOK, RefusedReachesNobody
  <1>6. UpgradeFound' /\ TakenOK'
    BY <1>2 DEF IInv, UpgradeFound, TakenOK
  <1>7. QED
    BY <1>3, <1>4, <1>5, <1>6 DEF IInv

LEMMA FindUpgradeKeeps == IInv /\ FindUpgrade => IInv'
  <1> SUFFICES ASSUME IInv, FindUpgrade PROVE IInv'
    OBVIOUS
  <1> USE DEF FindUpgrade
  <1>1. UNCHANGED <<table, order, req, params, response, calls, taken>>
        /\ stage = "ready" /\ stage' = "respond"
    OBVIOUS
  <1>2. upgrade' \in Upgrading \cup {NoEntry} /\ (upgrade' # NoEntry => upgrade' \in UpgradeEntry(req))
    OBVIOUS
  <1>3. TypeOK' /\ IsFiniteSet(DOMAIN table)'
    BY <1>1, <1>2 DEF IInv, TypeOK
  <1>4. CallOK' /\ Unrouted' /\ Routed'
    BY <1>1, SearchStays DEF IInv, CallOK, Unrouted, Routed
  <1>5. UpgradeFound'
    BY <1>1, <1>2, SearchStays DEF UpgradeFound
  <1>6. BeforeRouting' /\ SwitchIsAnswer' /\ TakenOK' /\ SetupOK' /\ RefusedReachesNobody'
    BY <1>1 DEF IInv, BeforeRouting, SwitchIsAnswer, TakenOK, SetupOK, RefusedReachesNobody
  <1>7. QED
    BY <1>3, <1>4, <1>5, <1>6 DEF IInv

\* The second routing finds nothing either: no handler is called by it.
LEMMA RespondKeeps == IInv /\ Respond => IInv'
  <1> SUFFICES ASSUME IInv, Respond PROVE IInv'
    OBVIOUS
  <1> USE DEF Respond
  <1>1. UNCHANGED <<table, order, req, upgrade, taken>> /\ stage = "respond" /\ stage' = "reply"
    OBVIOUS
  <1>2. /\ UNCHANGED calls
        /\ response' # "none"
        /\ response' \in {"refusal", "ok", "switch", "file", "default"}
        /\ response' = response \/ (response' # "switch" /\ req.valid)
    <2>1. CASE NeedsRouting
      <3>1. NoRoute /\ req.valid
        BY <1>1, <2>1 DEF IInv, Unrouted, NeedsRouting
      <3>2. RouteRequest(Default)
        BY <2>1
      <3>3. UNCHANGED calls /\ response' \in {"file", "default"}
        BY <3>1, <3>2 DEF NoRoute, RouteRequest, Default
      <3>4. QED
        BY <3>1, <3>3
    <2>2. CASE ~NeedsRouting
      BY <2>2 DEF IInv, TypeOK, NeedsRouting
    <2>3. QED
      BY <2>1, <2>2
  <1>3. TypeOK' /\ IsFiniteSet(DOMAIN table)'
    BY <1>1, <1>2 DEF IInv, TypeOK
  <1>4. CallOK' /\ Routed'
    BY <1>1, <1>2, SearchStays DEF IInv, CallOK, Routed
  <1>5. UpgradeFound'
    BY <1>1, SearchStays DEF IInv, UpgradeFound
  <1>6. BeforeRouting' /\ Unrouted' /\ SwitchIsAnswer' /\ TakenOK' /\ SetupOK' /\ RefusedReachesNobody'
    BY <1>1, <1>2 DEF IInv, BeforeRouting, Unrouted, SwitchIsAnswer, TakenOK, SetupOK, RefusedReachesNobody
  <1>7. QED
    BY <1>3, <1>4, <1>5, <1>6 DEF IInv

LEMMA ReplyKeeps == IInv /\ Reply => IInv'
  <1> SUFFICES ASSUME IInv, Reply PROVE IInv'
    OBVIOUS
  <1> USE DEF Reply
  <1>1. UNCHANGED <<table, order, req, params, response, upgrade, calls>>
        /\ stage = "reply" /\ stage' = "answered"
    OBVIOUS
  <1>2. taken' # NoEntry => response = "switch" /\ taken' = upgrade
    OBVIOUS
  <1>3. TypeOK' /\ IsFiniteSet(DOMAIN table)'
    BY <1>1, <1>2 DEF IInv, TypeOK
  <1>4. CallOK' /\ Routed'
    BY <1>1, SearchStays DEF IInv, CallOK, Routed
  <1>5. TakenOK'
    BY <1>1, <1>2, SearchStays DEF IInv, UpgradeFound, TakenOK
  <1>6. BeforeRouting' /\ Unrouted' /\ SwitchIsAnswer' /\ UpgradeFound' /\ SetupOK' /\ RefusedReachesNobody'
    BY <1>1, <1>2 DEF IInv, BeforeRouting, Unrouted, SwitchIsAnswer, UpgradeFound, SetupOK, RefusedReachesNobody
  <1>7. QED
    BY <1>3, <1>4, <1>5, <1>6 DEF IInv

LEMMA StutterKeeps == IInv /\ UNCHANGED vars => IInv'
  <1> SUFFICES ASSUME IInv, UNCHANGED vars PROVE IInv'
    OBVIOUS
  <1> USE DEF vars
  <1>1. TypeOK' /\ IsFiniteSet(DOMAIN table)'
    BY DEF IInv, TypeOK
  <1>2. BeforeRouting'
    <2>1. PathParams(req)' = PathParams(req)
      BY SearchStays DEF PathParams
    <2>2. QED
      BY <2>1, SearchStays DEF IInv, BeforeRouting, ParamsTaken
  <1>3. CallOK' /\ Routed' /\ Unrouted' /\ UpgradeFound' /\ TakenOK'
    BY SearchStays DEF IInv, CallOK, Routed, Unrouted, UpgradeFound, TakenOK
  <1>4. SwitchIsAnswer' /\ SetupOK' /\ RefusedReachesNobody'
    BY DEF IInv, SwitchIsAnswer, SetupOK, RefusedReachesNobody
  <1>5. QED
    BY <1>1, <1>2, <1>3, <1>4 DEF IInv

\* The invariant of the routing, from which its properties follow.
THEOREM Inductive == Spec => []IInv
  <1>1. IInv /\ [Next]_vars => IInv'
    BY RegisterKeeps, ParseKeeps, EarlyKeeps, FindUpgradeKeeps, RespondKeeps, ReplyKeeps,
       StutterKeeps DEF Next
  <1>2. QED
    BY <1>1, InitOK, PTL DEF Spec

-------------------------------------------------------------------------------
(* Theorems.                                                               *)

\* parse_raw_only, route_sync, upgrade_handler: types, and a response for each
\* request.
THEOREM RoutingTypeCorrect == Spec => []TypeOK
  <1>1. IInv => TypeOK
    BY DEF IInv
  <1>2. QED
    BY <1>1, Inductive, PTL

\* route_sync: the handler of a pattern sees the parameters of its own pattern,
\* under those of the query.
THEOREM ParamsAreOwn == Spec => []OwnParams
  <1>1. IInv => OwnParams
    <2> SUFFICES ASSUME IInv, NEW i \in DOMAIN calls, calls[i].key # ExactKey(req)
                 PROVE  calls[i].params = Over(Asked, ExtractParams(calls[i].key[2], req.path))
      BY DEF OwnParams, Asked
    <2>1. CallOK /\ calls # <<>>
      BY DEF IInv
    <2>2. calls = <<calls[1]>>
      BY <2>1 DEF CallOK
    <2>3. i = 1
      BY <2>2
    <2>4. QED
      BY <2>1, <2>3 DEF CallOK
  <1>2. QED
    BY <1>1, Inductive, PTL

\* upgrade_handler: the stream goes to the route whose handler answered 101.
THEOREM UpgradeBelongs == Spec => []UpgradeOfHandler
  <1>1. IInv => UpgradeOfHandler
    <2> SUFFICES ASSUME IInv, taken # NoEntry PROVE taken = table[calls[1].key] /\ 1 \in DOMAIN calls
      BY DEF UpgradeOfHandler
    <2>1. calls # <<>> /\ taken \in UpgradeEntry(req)
      BY DEF IInv, TakenOK, SwitchIsAnswer
    <2>2. calls = <<calls[1]>> /\ CallOK
      BY <2>1 DEF IInv, CallOK
    <2>3. CASE HasExact(req)
      BY <2>1, <2>2, <2>3 DEF CallOK, UpgradeEntry
    <2>4. CASE ~HasExact(req)
      <3>1. calls[1].key \in FirstMatch(req)
        BY <2>1, <2>2, <2>4 DEF CallOK
      <3>2. PICK key \in FirstMatch(req) : taken = table[key]
        BY <2>1, <2>4 DEF UpgradeEntry
      <3>3. key = calls[1].key
        BY <3>1, OneFirstMatch DEF IInv, TypeOK
      <3>4. QED
        BY <2>2, <3>2, <3>3
    <2>5. QED
      BY <2>3, <2>4
  <1>2. QED
    BY <1>1, Inductive, PTL

\* handle_stream: routing twice calls one handler at most, and none for what
\* parse_raw_only cannot parse.
THEOREM OneHandler == Spec => []HandledOnce
  <1>1. IInv => HandledOnce
    <2>1. ASSUME CallOK PROVE Len(calls) =< 1
      <3>1. CASE calls = <<>>
        BY <3>1
      <3>2. CASE calls = <<calls[1]>>
        BY <3>2
      <3>3. QED
        BY <2>1, <3>1, <3>2 DEF CallOK
    <2>2. QED
      BY <2>1 DEF IInv, HandledOnce
  <1>2. QED
    BY <1>1, Inductive, PTL

\* route_sync: a request with a route is handled, by its exact route first.
THEOREM NoRouteMissed == Spec => []RouteFound
  <1>1. IInv => RouteFound
    <2> SUFFICES ASSUME IInv, stage \in {"reply", "answered"}, req.valid
                 PROVE  /\ HasExact(req) => [i \in DOMAIN calls |-> calls[i].key] = <<ExactKey(req)>>
                        /\ ~HasExact(req) /\ (\E key \in DOMAIN table : Matches(key, req)) => calls # <<>>
                        /\ \A i \in DOMAIN calls : calls[i].key[1] = req.method /\ Fits(calls[i].key[2], req.path)
      BY DEF RouteFound
    <2>1. (calls # <<>> \/ NoRoute) /\ CallOK
      BY DEF IInv, Routed
    <2>2. calls # <<>> => calls = <<calls[1]>> /\ DOMAIN calls = {1}
      <3>1. ASSUME calls = <<calls[1]>> PROVE DOMAIN calls = {1}
        BY <3>1
      <3>2. QED
        BY <2>1, <3>1 DEF CallOK
    <2>3. ASSUME HasExact(req) PROVE [i \in DOMAIN calls |-> calls[i].key] = <<ExactKey(req)>>
      <3>1. calls # <<>>
        BY <2>1, <2>3 DEF NoRoute
      <3>2. calls[1].key = ExactKey(req)
        BY <2>1, <2>3, <3>1 DEF CallOK
      <3>3. QED
        BY <2>2, <3>1, <3>2
    <2>4. ASSUME ~HasExact(req), NEW key \in DOMAIN table, Matches(key, req) PROVE calls # <<>>
      BY <2>1, <2>4, FirstMatchFound DEF IInv, TypeOK, NoRoute
    <2>5. ASSUME NEW i \in DOMAIN calls
          PROVE  calls[i].key[1] = req.method /\ Fits(calls[i].key[2], req.path)
      <3>1. calls # <<>> /\ i = 1
        BY <2>1, <2>2
      <3>2. CASE calls[1].key = ExactKey(req)
        BY <3>1, <3>2 DEF ExactKey, Fits
      <3>3. CASE calls[1].key \in FirstMatch(req)
        BY <3>1, <3>3, FirstMatchFound, MatchFits DEF IInv, TypeOK
      <3>4. QED
        BY <2>1, <3>1, <3>2, <3>3 DEF CallOK
    <2>6. QED
      BY <2>3, <2>4, <2>5
  <1>2. QED
    BY <1>1, Inductive, PTL

\* parse_raw_only: what it cannot parse reaches no handler.
THEOREM RefusedStaysOut == Spec => []RefusedReachesNobody
  <1>1. IInv => RefusedReachesNobody
    BY DEF IInv
  <1>2. QED
    BY <1>1, Inductive, PTL
===============================================================================
