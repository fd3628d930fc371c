----------------------------- MODULE MCFileServe -----------------------------
(* Small file systems for FileServe. *)
EXTENDS FileServe

Node(kind) == [kind |-> kind, to |-> NoPath]
LinkTo(path) == [kind |-> "link", to |-> path]

Current == <<"current">>   \* a link to the release in use
V1 == <<"v1">>
V2 == <<"v2">>
Theme == <<"theme">>       \* the second file source
Shared == <<"shared">>     \* a file that is in no source
Page == <<"page">>

\* The two releases, with a page that may be a file, a directory or a link out
\* of the release in the first; the link to them may not be there yet.
World(current, page, index, page2, themed) ==
  Current :> current @@ V1 :> Node("dir") @@ V1 \o Page :> page @@ V1 \o Page \o <<"index">> :> index
  @@ V2 :> Node("dir") @@ V2 \o Page :> page2
  @@ Theme :> Node("dir") @@ Theme \o Page :> themed @@ Shared :> Node("file")

FileOrNot == {Node("file"), Node("absent")}

SettledWorlds ==
  {World(current, page, index, page2, themed) :
     current \in {Node("absent"), LinkTo(V1), LinkTo(V2)},
     page \in {Node("absent"), Node("file"), LinkTo(Shared), LinkTo(V2 \o Page)},
     index \in {Node("absent")}, page2 \in FileOrNot, themed \in FileOrNot}
  \cup
  {World(current, Node("dir"), index, page2, themed) :
     current \in {Node("absent"), LinkTo(V1), LinkTo(V2)},
     index \in FileOrNot, page2 \in FileOrNot, themed \in FileOrNot}

\* The first release is removed, and a link to the second takes its place.
OfV1 == {V1, V1 \o Page, V1 \o Page \o <<"index">>}
Replaced(f) ==
  {[p \in DOMAIN f |-> IF p = V1 THEN node ELSE IF p \in OfV1 THEN Node("absent") ELSE f[p]] :
     node \in {Node("absent"), LinkTo(V2)}}

MCWorlds == SettledWorlds \cup UNION {Replaced(f) : f \in SettledWorlds}

MCGiven == <<Current, Theme>>
===============================================================================
