---------------------------- MODULE FileServeProofs ----------------------------
(***************************************************************************)
(* Theorems about FileServe, for every collection of file systems, all     *)
(* file sources, every wanted path and every number of changes.            *)
(***************************************************************************)
EXTENDS FileServe, FunctionTheorems, SequenceTheorems, WellFoundedInduction, TLAPS

\* A set of numbers has a smallest: what holds at 0 and of a number's successor
\* has no least counterexample.
LEMMA SmallestNumber ==
  ASSUME NEW T, T \subseteq Nat, T # {}
  PROVE  \E m \in T : \A k \in T : ~(k < m)
<1> DEFINE R == OpToRel(<, Nat)
<1>1. \E m \in T : \A k \in T : ~(<<k, m>> \in R)
  <2> HIDE DEF R
  <2>1. IsWellFoundedOn(R, Nat)
    BY NatLessThanWellFounded DEF R
  <2> QED
    BY <2>1, WFMin
<1> QED
  BY <1>1 DEF OpToRel

-------------------------------------------------------------------------------
(* The way of a path.                                                      *)

\* The first m links.
Begins(f, p, g, m) ==
  /\ g[0] = p
  /\ \A n \in 1..m : g[n] = FollowLink(f, g[n - 1])

LEMMA WayBegins ==
  ASSUME NEW f, NEW p, NEW m \in Nat
  PROVE  \E g : Begins(f, p, g, m)
<1> DEFINE T == {n \in Nat : ~\E g : Begins(f, p, g, n)}
<1> SUFFICES ASSUME T # {} PROVE FALSE
  OBVIOUS
<1>1. PICK n \in T : \A k \in T : ~(k < n)
  BY SmallestNumber
<1>2. n # 0
  <2>1. Begins(f, p, [i \in 0..0 |-> p], 0)
    BY DEF Begins
  <2> QED
    BY <2>1
<1>3. PICK g : Begins(f, p, g, n - 1)
  BY <1>1, <1>2
<1> DEFINE h == [i \in 0..n |-> IF i = n THEN FollowLink(f, g[n - 1]) ELSE g[i]]
<1>4. Begins(f, p, h, n)
  <2>1. n \in Nat \ {0} /\ g[0] = p /\ \A i \in 1..(n - 1) : g[i] = FollowLink(f, g[i - 1])
    BY <1>2, <1>3 DEF Begins
  <2>2. h[n] = FollowLink(f, g[n - 1]) /\ \A i \in 0..(n - 1) : h[i] = g[i]
    BY <2>1
  <2> HIDE DEF h
  <2>3. ASSUME NEW i \in 1..n PROVE h[i] = FollowLink(f, h[i - 1])
    <3>1. CASE i = n
      BY <2>1, <2>2, <3>1
    <3>2. CASE i # n
      BY <2>1, <2>2, <3>2
    <3> QED
      BY <3>1, <3>2
  <2> QED
    BY <2>1, <2>2, <2>3 DEF Begins
<1> QED
  BY <1>4

\* The way is a function: one link after the other.
LEMMA WayStepwise ==
  ASSUME NEW f, NEW p
  PROVE  /\ Way(f, p)[0] = p
         /\ \A n \in 1..MaxLinks : Way(f, p)[n] = FollowLink(f, Way(f, p)[n - 1])
<1>0. MaxLinks \in Nat
  BY FileAssumption
<1> DEFINE Def(g) == g = [n \in 0..MaxLinks |-> IF n = 0 THEN p ELSE FollowLink(f, g[n - 1])]
<1>1. \E g : Def(g)
  <2>1. PICK g : Begins(f, p, g, MaxLinks)
    BY <1>0, WayBegins
  <2> DEFINE h == [n \in 0..MaxLinks |-> g[n]]
  <2>2. ASSUME NEW n \in 0..MaxLinks
        PROVE  h[n] = IF n = 0 THEN p ELSE FollowLink(f, h[n - 1])
    BY <1>0, <2>1 DEF Begins
  <2>3. Def(h)
    BY <2>2
  <2> QED
    BY <2>3
<1>2. Way(f, p) = CHOOSE g : Def(g)
  BY DEF Way
<1>3. Def(Way(f, p))
  BY <1>1, <1>2
<1> DEFINE w == Way(f, p)
<1> HIDE DEF w
<1>4. w = [n \in 0..MaxLinks |-> IF n = 0 THEN p ELSE FollowLink(f, w[n - 1])]
  BY <1>3 DEF w
<1>5. /\ w[0] = p
      /\ \A n \in 1..MaxLinks : w[n] = FollowLink(f, w[n - 1])
  BY <1>0, <1>4
<1> QED
  BY <1>5 DEF w

-------------------------------------------------------------------------------
(* Links.                                                                  *)

Paths == Seq(STRING) \ {NoPath}

Links(f, p) == {k \in 1..Len(p) : KindIn(f, SubSeq(p, 1, k)) = "link"}
LinkFree(f, p) == Links(f, p) = {}

LEMMA NodesOfWorlds ==
  ASSUME NEW f \in Worlds, NEW p \in DOMAIN f
  PROVE  /\ p \in Paths
         /\ f[p].kind \in {"absent", "dir", "file", "link"}
         /\ f[p].to \in Seq(STRING)
         /\ f[p].kind = "link" => f[p].to \in Paths
         /\ f[p].kind # "absent" => \A r \in Ancestors(p) : KindIn(f, r) = "dir"
<1>1. f[p] \in [kind : {"absent", "dir", "file", "link"}, to : Seq(STRING)]
  BY FileAssumption
<1> QED
  BY <1>1, WorldAssumption DEF Paths

LEMMA FirstLink ==
  ASSUME NEW f, NEW p \in Paths, ~LinkFree(f, p)
  PROVE  \E k \in Links(f, p) :
           /\ \A j \in Links(f, p) : k =< j
           /\ FollowLink(f, p) = f[SubSeq(p, 1, k)].to \o SubSeq(p, k + 1, Len(p))
<1> DEFINE First(k) == k \in Links(f, p) /\ \A j \in Links(f, p) : k =< j
<1>1. Links(f, p) \subseteq Nat /\ Links(f, p) # {}
  BY DEF Links, LinkFree, Paths
<1>2. PICK k \in Links(f, p) : \A j \in Links(f, p) : ~(j < k)
  BY <1>1, SmallestNumber
<1>3. \A j \in Links(f, p) : k =< j
  BY <1>1, <1>2
<1>4. k = CHOOSE i \in Links(f, p) : \A j \in Links(f, p) : i =< j
  BY <1>1, <1>3
<1> QED
  BY <1>1, <1>3, <1>4 DEF FollowLink, Links

LEMMA FollowFree ==
  ASSUME NEW f, NEW p, LinkFree(f, p)
  PROVE  FollowLink(f, p) = p
  BY DEF FollowLink, LinkFree, Links

LEMMA FollowType ==
  ASSUME NEW f \in Worlds, NEW p \in Paths
  PROVE  FollowLink(f, p) \in Paths
<1>1. CASE LinkFree(f, p)
  BY <1>1, FollowFree
<1>2. CASE ~LinkFree(f, p)
  <2>1. PICK k \in Links(f, p) : FollowLink(f, p) = f[SubSeq(p, 1, k)].to \o SubSeq(p, k + 1, Len(p))
    BY <1>2, FirstLink
  <2>2. f[SubSeq(p, 1, k)].to \in Paths
    BY NodesOfWorlds DEF Links, KindIn
  <2>3. SubSeq(p, k + 1, Len(p)) \in Seq(STRING)
    BY DEF Links, Paths
  <2> QED
    BY <2>1, <2>2, <2>3 DEF Paths, NoPath
<1> QED
  BY <1>1, <1>2

LEMMA WayType ==
  ASSUME NEW f \in Worlds, NEW p \in Paths, NEW n \in 0..MaxLinks
  PROVE  Way(f, p)[n] \in Paths
<1> DEFINE T == {k \in 0..MaxLinks : Way(f, p)[k] \notin Paths}
<1> SUFFICES ASSUME T # {} PROVE FALSE
  OBVIOUS
<1>0. MaxLinks \in Nat
  BY FileAssumption
<1>1. PICK k \in T : \A j \in T : ~(j < k)
  <2>1. T \subseteq Nat
    BY <1>0
  <2> HIDE DEF T
  <2> QED
    BY <2>1, SmallestNumber
<1>2. k # 0 /\ k - 1 \in 0..MaxLinks /\ k - 1 \notin T
  BY <1>0, <1>1, WayStepwise
<1> QED
  BY <1>0, <1>1, <1>2, WayStepwise, FollowType

\* Once there is no link, the way stays where it is.
LEMMA WaySettles ==
  ASSUME NEW f, NEW p, NEW m \in 0..MaxLinks, LinkFree(f, Way(f, p)[m]),
         NEW n \in m..MaxLinks
  PROVE  Way(f, p)[n] = Way(f, p)[m]
<1> DEFINE T == {k \in m..MaxLinks : Way(f, p)[k] # Way(f, p)[m]}
<1> SUFFICES ASSUME T # {} PROVE FALSE
  OBVIOUS
<1>0. MaxLinks \in Nat
  BY FileAssumption
<1>1. PICK k \in T : \A j \in T : ~(j < k)
  <2>1. T \subseteq Nat
    BY <1>0
  <2> HIDE DEF T
  <2> QED
    BY <2>1, SmallestNumber
<1>2. k # m /\ k - 1 \in m..MaxLinks /\ k - 1 \notin T /\ k \in 1..MaxLinks
  BY <1>0, <1>1
<1>3. Way(f, p)[k - 1] = Way(f, p)[m]
  BY <1>2
<1> QED
  BY <1>1, <1>2, <1>3, WayStepwise, FollowFree

LEMMA LeadsToItself ==
  ASSUME NEW f, NEW p, LinkFree(f, p)
  PROVE  LeadsTo(f, p) = p
<1>1. MaxLinks \in Nat
  BY FileAssumption
<1> QED
  BY <1>1, WayStepwise, WaySettles DEF LeadsTo

-------------------------------------------------------------------------------
(* What a path leads to.                                                   *)

LEMMA PrefixOfPath ==
  ASSUME NEW p \in Seq(STRING), NEW k \in 1..Len(p)
  PROVE  /\ SubSeq(p, 1, k) \in Paths
         /\ Len(SubSeq(p, 1, k)) = k
         /\ IsPrefix(SubSeq(p, 1, k), p)
         /\ \A j \in 1..k : SubSeq(SubSeq(p, 1, k), 1, j) = SubSeq(p, 1, j)
  BY DEF Paths, IsPrefix, NoPath

LEMMA WholePath ==
  ASSUME NEW p \in Seq(STRING)
  PROVE  SubSeq(p, 1, Len(p)) = p
  BY DEF Paths

LEMMA CanonicalFacts ==
  ASSUME NEW f \in Worlds, NEW p, Canonicalize(f, p) # NoPath
  PROVE  LET q == Canonicalize(f, p)
         IN /\ q = LeadsTo(f, p) /\ q \in Paths /\ q \in DOMAIN f
            /\ KindIn(f, q) \in {"dir", "file"}
            /\ \A r \in Ancestors(q) : KindIn(f, r) = "dir"
            /\ LinkFree(f, q)
<1> DEFINE q == Canonicalize(f, p)
<1>1. /\ q = LeadsTo(f, p) /\ KindIn(f, q) \in {"dir", "file"}
      /\ \A r \in Ancestors(q) : KindIn(f, r) = "dir"
  BY DEF Canonicalize
<1> HIDE DEF q
<1>2. q \in DOMAIN f /\ q \in Paths
  BY <1>1, NodesOfWorlds DEF KindIn
<1>3. LinkFree(f, q)
  <2> SUFFICES ASSUME NEW k \in 1..Len(q) PROVE KindIn(f, SubSeq(q, 1, k)) # "link"
    BY DEF LinkFree, Links
  <2>1. CASE k = Len(q)
    BY <1>1, <1>2, <2>1, WholePath DEF Paths
  <2>2. CASE k # Len(q)
    <3>1. SubSeq(q, 1, k) \in Ancestors(q)
      BY <1>2, <2>2 DEF Ancestors, Paths
    <3> QED
      BY <1>1, <3>1
  <2> QED
    BY <2>1, <2>2
<1> QED
  BY <1>1, <1>2, <1>3 DEF q

\* Without links a path that leads there is as good as the canonical one.
LEMMA CanonicalAgain ==
  ASSUME NEW f, NEW p, LinkFree(f, LeadsTo(f, p))
  PROVE  /\ Canonicalize(f, LeadsTo(f, p)) = Canonicalize(f, p)
         /\ KindOf(f, LeadsTo(f, p)) = KindOf(f, p)
<1>1. LeadsTo(f, LeadsTo(f, p)) = LeadsTo(f, p)
  BY LeadsToItself
<1> QED
  BY <1>1 DEF Canonicalize, KindOf

LEMMA CanonicalKind ==
  ASSUME NEW f \in Worlds, NEW p
  PROVE  /\ KindOf(f, p) \in {"absent", "dir", "file"}
         /\ KindOf(f, p) = "absent" <=> Canonicalize(f, p) = NoPath
         /\ KindOf(f, p) # "absent" => KindOf(f, p) = KindIn(f, Canonicalize(f, p))
  BY CanonicalFacts DEF KindOf

-------------------------------------------------------------------------------
(* One change.                                                             *)

\* f becomes g by a change of p.
Changed(f, g, p) ==
  /\ f \in Worlds /\ g \in Worlds /\ p \in DOMAIN f /\ DOMAIN g = DOMAIN f
  /\ OneStep(f[p], g[p])
  /\ \A q \in DOMAIN f \ {p} : g[q] = f[q]

\* It does not make or unmake a link on the way of x.
Spares(f, g, p, x) ==
  "link" \in {f[p].kind, g[p].kind} => \A n \in 0..MaxLinks : ~IsPrefix(p, Way(f, x)[n])

LEMMA ChangedKinds ==
  ASSUME NEW f, NEW g, NEW p, Changed(f, g, p)
  PROVE  \A q : KindIn(g, q) = IF q = p THEN g[p].kind ELSE KindIn(f, q)
  BY DEF Changed, KindIn

LEMMA FollowSpared ==
  ASSUME NEW f, NEW g, NEW p, Changed(f, g, p), NEW x \in Paths,
         "link" \in {f[p].kind, g[p].kind} => ~IsPrefix(p, x)
  PROVE  FollowLink(g, x) = FollowLink(f, x) /\ Links(g, x) = Links(f, x)
<1>1. ASSUME NEW k \in 1..Len(x)
      PROVE  KindIn(g, SubSeq(x, 1, k)) = "link" <=> KindIn(f, SubSeq(x, 1, k)) = "link"
  <2>1. CASE SubSeq(x, 1, k) = p
    <3>1. IsPrefix(p, x)
      BY <2>1, PrefixOfPath DEF Paths
    <3> QED
      BY <2>1, <3>1, ChangedKinds DEF KindIn, Changed
  <2>2. CASE SubSeq(x, 1, k) # p
    <3>1. \A q : KindIn(g, q) = IF q = p THEN g[p].kind ELSE KindIn(f, q)
      BY ChangedKinds
    <3>2. KindIn(g, SubSeq(x, 1, k)) = KindIn(f, SubSeq(x, 1, k))
      BY <2>2, <3>1
    <3> QED
      BY <3>2
  <2> QED
    BY <2>1, <2>2
<1>2. Links(g, x) = Links(f, x)
  BY <1>1 DEF Links
<1>3. CASE LinkFree(f, x)
  BY <1>2, <1>3, FollowFree DEF LinkFree
<1>4. CASE ~LinkFree(f, x)
  <2>1. PICK k \in Links(f, x) :
          /\ \A j \in Links(f, x) : k =< j
          /\ FollowLink(f, x) = f[SubSeq(x, 1, k)].to \o SubSeq(x, k + 1, Len(x))
    BY <1>4, FirstLink
  <2>2. PICK i \in Links(g, x) :
          /\ \A j \in Links(g, x) : i =< j
          /\ FollowLink(g, x) = g[SubSeq(x, 1, i)].to \o SubSeq(x, i + 1, Len(x))
    BY <1>2, <1>4, FirstLink DEF LinkFree
  <2>3. i = k
    BY <1>2, <2>1, <2>2 DEF Links, Paths
  <2>4. IsPrefix(SubSeq(x, 1, k), x) /\ KindIn(f, SubSeq(x, 1, k)) = "link"
    BY PrefixOfPath DEF Links, Paths
  <2>5. g[SubSeq(x, 1, k)] = f[SubSeq(x, 1, k)]
    BY <2>4 DEF Changed, KindIn
  <2> QED
    BY <1>2, <2>1, <2>2, <2>3, <2>5
<1> QED
  BY <1>2, <1>3, <1>4

LEMMA WaySpared ==
  ASSUME NEW f, NEW g, NEW p, Changed(f, g, p), NEW x \in Paths, Spares(f, g, p, x)
  PROVE  /\ \A n \in 0..MaxLinks : Way(g, x)[n] = Way(f, x)[n]
         /\ LeadsTo(g, x) = LeadsTo(f, x)
<1>0. MaxLinks \in Nat
  BY FileAssumption
<1> DEFINE T == {n \in 0..MaxLinks : Way(g, x)[n] # Way(f, x)[n]}
<1>1. T = {}
  <2> SUFFICES ASSUME T # {} PROVE FALSE
    OBVIOUS
  <2>1. PICK k \in T : \A j \in T : ~(j < k)
    <3>1. T \subseteq Nat
      BY <1>0
    <3> HIDE DEF T
    <3> QED
      BY <3>1, SmallestNumber
  <2>2. k # 0 /\ k - 1 \in 0..MaxLinks /\ Way(g, x)[k - 1] = Way(f, x)[k - 1]
    BY <1>0, <2>1, WayStepwise
  <2>3. Way(f, x)[k - 1] \in Paths
    BY <2>2, WayType DEF Changed
  <2>4. FollowLink(g, Way(f, x)[k - 1]) = FollowLink(f, Way(f, x)[k - 1])
    BY <2>2, <2>3, FollowSpared DEF Spares
  <2> QED
    BY <1>0, <2>1, <2>2, <2>4, WayStepwise
<1> QED
  BY <1>0, <1>1 DEF LeadsTo

\* What is there stays what it is or goes.
LEMMA KindSpared ==
  ASSUME NEW f, NEW g, NEW p, Changed(f, g, p), NEW x \in Paths, Spares(f, g, p, x),
         KindOf(f, x) # "absent"
  PROVE  KindOf(g, x) \in {KindOf(f, x), "absent"}
<1> SUFFICES ASSUME KindOf(g, x) # "absent" PROVE KindOf(g, x) = KindOf(f, x)
  OBVIOUS
<1> DEFINE q == LeadsTo(f, x)
<1>1. f \in Worlds /\ g \in Worlds /\ LeadsTo(g, x) = q
  BY WaySpared DEF Changed
<1>2. /\ Canonicalize(f, x) = q /\ Canonicalize(g, x) = q /\ q \in Paths
      /\ KindOf(f, x) = KindIn(f, q) /\ KindOf(g, x) = KindIn(g, q)
      /\ KindIn(f, q) \in {"dir", "file"} /\ KindIn(g, q) \in {"dir", "file"}
  BY <1>1, CanonicalKind, CanonicalFacts
<1> QED
  BY <1>2, ChangedKinds DEF Changed, OneStep, KindIn

-------------------------------------------------------------------------------
(* The index of a directory.                                               *)

In(x) == x \o <<Index>>

LEMMA InPath ==
  ASSUME NEW x \in Paths
  PROVE  /\ In(x) \in Paths /\ Len(In(x)) = Len(x) + 1 /\ Len(x) \in Nat \ {0}
         /\ \A k \in 1..Len(x) : SubSeq(In(x), 1, k) = SubSeq(x, 1, k)
         /\ \A k \in 1..Len(x) : SubSeq(In(x), k + 1, Len(In(x))) = In(SubSeq(x, k + 1, Len(x)))
         /\ x \in Ancestors(In(x)) /\ Ancestors(x) \subseteq Ancestors(In(x))
<1>1. <<Index>> \in Seq(STRING) /\ Len(<<Index>>) = 1 /\ x \in Seq(STRING) /\ Len(x) \in Nat \ {0}
  BY FileAssumption DEF Paths, NoPath
<1>2. In(x) \in Seq(STRING) /\ Len(In(x)) = Len(x) + 1
  BY <1>1, ConcatProperties DEF In
<1>3. In(x) # NoPath
  BY <1>1, <1>2 DEF NoPath
<1>4. \A k \in 1..Len(x) : SubSeq(In(x), 1, k) = SubSeq(x, 1, k)
  BY <1>1, SubSeqOfConcat1 DEF In
<1>5. ASSUME NEW k \in 1..Len(x)
      PROVE  SubSeq(In(x), k + 1, Len(In(x))) = In(SubSeq(x, k + 1, Len(x)))
  <2>1. SubSeq(In(x), k + 1, Len(x) + 1) = SubSeq(In(x), k + 1, Len(x)) \o <<In(x)[Len(x) + 1]>>
    <3> DEFINE y == In(x)
               n == Len(y)
    <3> HIDE DEF y
    <3>1. y \in Seq(STRING) /\ k + 1 \in 1..Len(y) /\ n \in (k + 1)..Len(y) /\ n = Len(x) + 1
      BY <1>1, <1>2 DEF y
    <3>2. SubSeq(y, k + 1, n) = SubSeq(y, k + 1, n - 1) \o <<y[n]>>
      BY <3>1, SubSeqRecursiveSecond
    <3>3. n - 1 = Len(x)
      BY <1>1, <3>1
    <3> QED
      BY <3>1, <3>2, <3>3 DEF y
  <2>2. In(x)[Len(x) + 1] = Index
    BY <1>1, ConcatProperties DEF In
  <2>3. SubSeq(In(x), k + 1, Len(x)) = SubSeq(x, k + 1, Len(x))
    <3>1. CASE k = Len(x)
      BY <1>1, <3>1, SubSeqEmpty
    <3>2. CASE k # Len(x)
      BY <1>1, <3>2, SubSeqOfConcat1 DEF In
    <3> QED
      BY <3>1, <3>2
  <2> QED
    BY <1>2, <2>1, <2>2, <2>3 DEF In
<1>6. x \in Ancestors(In(x))
  <2>1. SubSeq(In(x), 1, Len(x)) = x /\ Len(x) \in 1..(Len(In(x)) - 1)
    BY <1>1, <1>2, <1>4, WholePath
  <2> QED
    BY <2>1 DEF Ancestors
<1>7. Ancestors(x) \subseteq Ancestors(In(x))
  <2> SUFFICES ASSUME NEW k \in 1..(Len(x) - 1) PROVE SubSeq(x, 1, k) \in Ancestors(In(x))
    BY DEF Ancestors
  <2>1. k \in 1..(Len(In(x)) - 1) /\ SubSeq(x, 1, k) = SubSeq(In(x), 1, k)
    BY <1>1, <1>2, <1>4
  <2> QED
    BY <2>1 DEF Ancestors
<1> QED
  BY <1>1, <1>2, <1>3, <1>4, <1>5, <1>6, <1>7 DEF Paths

\* A link on the way to a directory is one on the way to its index.
LEMMA FollowIn ==
  ASSUME NEW f \in Worlds, NEW x \in Paths, ~LinkFree(f, x)
  PROVE  FollowLink(f, In(x)) = In(FollowLink(f, x)) /\ ~LinkFree(f, In(x))
<1>1. PICK k \in Links(f, x) :
        /\ \A j \in Links(f, x) : k =< j
        /\ FollowLink(f, x) = f[SubSeq(x, 1, k)].to \o SubSeq(x, k + 1, Len(x))
  BY FirstLink
<1>2. /\ In(x) \in Paths /\ Len(In(x)) = Len(x) + 1 /\ Len(x) \in Nat /\ k \in 1..Len(x)
      /\ \A i \in 1..Len(x) : SubSeq(In(x), 1, i) = SubSeq(x, 1, i)
      /\ SubSeq(In(x), k + 1, Len(In(x))) = In(SubSeq(x, k + 1, Len(x)))
  BY InPath DEF Links
<1>3. k \in Links(f, In(x)) /\ \A j \in Links(f, In(x)) : k =< j
  <2>1. k \in Links(f, In(x))
    <3>1. k \in 1..Len(In(x)) /\ SubSeq(In(x), 1, k) = SubSeq(x, 1, k)
      BY <1>2
    <3>2. KindIn(f, SubSeq(x, 1, k)) = "link"
      BY DEF Links
    <3> QED
      BY <3>1, <3>2 DEF Links
  <2>2. ASSUME NEW j \in Links(f, In(x)) PROVE k =< j
    <3>1. CASE j \in 1..Len(x)
      BY <1>1, <1>2, <3>1 DEF Links
    <3>2. CASE j \notin 1..Len(x)
      BY <1>2, <3>2 DEF Links
    <3> QED
      BY <3>1, <3>2
  <2> QED
    BY <2>1, <2>2
<1>4. ~LinkFree(f, In(x))
  BY <1>3 DEF LinkFree
<1>5. PICK i \in Links(f, In(x)) :
        /\ \A j \in Links(f, In(x)) : i =< j
        /\ FollowLink(f, In(x)) = f[SubSeq(In(x), 1, i)].to \o SubSeq(In(x), i + 1, Len(In(x)))
  BY <1>2, <1>4, FirstLink
<1>6. i = k
  BY <1>2, <1>3, <1>5 DEF Links
<1>7. f[SubSeq(x, 1, k)].to \in Seq(STRING)
  BY NodesOfWorlds DEF Links, KindIn
<1>8. SubSeq(x, k + 1, Len(x)) \in Seq(STRING) /\ <<Index>> \in Seq(STRING)
  BY <1>2, FileAssumption DEF Paths
<1>9. (f[SubSeq(x, 1, k)].to \o SubSeq(x, k + 1, Len(x))) \o <<Index>>
        = f[SubSeq(x, 1, k)].to \o (SubSeq(x, k + 1, Len(x)) \o <<Index>>)
  <2>1. \A u, v, w \in Seq(STRING) : (u \o v) \o w = u \o (v \o w)
    BY ConcatAssociative
  <2> QED
    BY <1>7, <1>8, <2>1
<1> QED
  BY <1>1, <1>2, <1>4, <1>5, <1>6, <1>9 DEF In

\* The way to the index goes by the directory's, for as long as that has links.
LEMMA WayIn ==
  ASSUME NEW f \in Worlds, NEW x \in Paths, NEW n \in 0..MaxLinks
  PROVE  \E m \in 0..n : /\ Way(f, x)[m] = Way(f, x)[n]
                         /\ Way(f, In(x))[m] = In(Way(f, x)[m])
                         /\ m = n \/ LinkFree(f, Way(f, x)[n])
<1> DEFINE Goes(k, m) == /\ Way(f, x)[m] = Way(f, x)[k]
                         /\ Way(f, In(x))[m] = In(Way(f, x)[m])
                         /\ m = k \/ LinkFree(f, Way(f, x)[k])
           T == {k \in 0..MaxLinks : \A m \in 0..k : ~Goes(k, m)}
<1> SUFFICES ASSUME T # {} PROVE FALSE
  OBVIOUS
<1>0. MaxLinks \in Nat
  BY FileAssumption
<1>1. PICK k \in T : \A j \in T : ~(j < k)
  <2>1. T \subseteq Nat
    BY <1>0
  <2> HIDE DEF T
  <2> QED
    BY <2>1, SmallestNumber
<1>2. Goes(0, 0)
  BY WayStepwise
<1>3. k # 0
  BY <1>2
<1>4. k \in 1..MaxLinks /\ k - 1 \in 0..MaxLinks /\ k - 1 \notin T
  BY <1>0, <1>1, <1>3
<1>5. PICK m \in 0..(k - 1) : Goes(k - 1, m)
  BY <1>4
<1>6. Way(f, x)[k] = FollowLink(f, Way(f, x)[k - 1]) /\ Way(f, x)[k - 1] \in Paths
  BY <1>4, WayStepwise, WayType
<1>7. CASE LinkFree(f, Way(f, x)[k - 1])
  <2>1. Way(f, x)[k] = Way(f, x)[k - 1]
    BY <1>6, <1>7, FollowFree
  <2>2. Goes(k, m) /\ m \in 0..k
    BY <1>4, <1>5, <1>7, <2>1
  <2> QED
    BY <2>2
<1>8. CASE ~LinkFree(f, Way(f, x)[k - 1])
  <2>1. Way(f, In(x))[k - 1] = In(Way(f, x)[k - 1])
    BY <1>5, <1>8
  <2>2. Way(f, In(x))[k] = FollowLink(f, In(Way(f, x)[k - 1]))
    BY <1>4, <2>1, WayStepwise
  <2>3. Goes(k, k) /\ k \in 0..k
    BY <1>4, <1>6, <1>8, <2>2, FollowIn
  <2> QED
    BY <2>3
<1> QED
  BY <1>7, <1>8

LEMMA PrefixIn ==
  ASSUME NEW p \in Paths, NEW x \in Paths, IsPrefix(p, x)
  PROVE  IsPrefix(p, In(x))
<1>1. Len(p) \in 1..Len(x) /\ Len(x) \in Nat /\ Len(In(x)) = Len(x) + 1
  BY InPath DEF IsPrefix, Paths, NoPath
<1>2. SubSeq(In(x), 1, Len(p)) = SubSeq(x, 1, Len(p))
  BY <1>1, InPath
<1> QED
  BY <1>1, <1>2 DEF IsPrefix

\* What spares the way to the index spares the way to the directory.
LEMMA SparesIn ==
  ASSUME NEW f, NEW g, NEW p, Changed(f, g, p), NEW x \in Paths, Spares(f, g, p, In(x))
  PROVE  Spares(f, g, p, x)
<1> SUFFICES ASSUME "link" \in {f[p].kind, g[p].kind}, NEW n \in 0..MaxLinks,
                    IsPrefix(p, Way(f, x)[n])
             PROVE  FALSE
  BY DEF Spares
<1>0. MaxLinks \in Nat /\ f \in Worlds /\ p \in Paths
  BY FileAssumption, NodesOfWorlds DEF Changed
<1>1. PICK m \in 0..n : Way(f, x)[m] = Way(f, x)[n] /\ Way(f, In(x))[m] = In(Way(f, x)[m])
  BY <1>0, WayIn
<1>2. m \in 0..MaxLinks
  BY <1>0
<1>3. IsPrefix(p, Way(f, In(x))[m])
  BY <1>0, <1>1, <1>2, WayType, PrefixIn
<1> QED
  BY <1>2, <1>3 DEF Spares

\* An index can only be where there is a directory.
LEMMA IndexMeansDir ==
  ASSUME NEW f \in Worlds, NEW x \in Paths, Canonicalize(f, In(x)) # NoPath
  PROVE  KindOf(f, x) = "dir"
<1> DEFINE q == LeadsTo(f, x)
           r == Canonicalize(f, In(x))
<1>0. MaxLinks \in 0..MaxLinks /\ MaxLinks \in Nat
  BY FileAssumption
<1>1. q \in Paths /\ In(q) \in Paths
  BY <1>0, WayType, InPath DEF LeadsTo
<1>2. /\ r = LeadsTo(f, In(x)) /\ LinkFree(f, r) /\ KindIn(f, r) \in {"dir", "file"}
      /\ \A a \in Ancestors(r) : KindIn(f, a) = "dir"
  BY CanonicalFacts
<1>3. PICK m \in 0..MaxLinks : /\ Way(f, x)[m] = q /\ Way(f, In(x))[m] = In(q)
                               /\ m = MaxLinks \/ LinkFree(f, q)
  BY <1>0, WayIn DEF LeadsTo
<1>4. LinkFree(f, q)
  <2> SUFFICES ASSUME ~LinkFree(f, q) PROVE FALSE
    OBVIOUS
  <2>1. r = In(q)
    BY <1>2, <1>3 DEF LeadsTo
  <2> QED
    BY <1>1, <1>2, <2>1, FollowIn
<1>5. \A a \in Ancestors(In(q)) : KindIn(f, a) = "dir"
  <2>1. CASE LinkFree(f, In(q))
    <3>1. r = In(q)
      BY <1>0, <1>2, <1>3, <2>1, WaySettles DEF LeadsTo
    <3> QED
      BY <1>2, <3>1
  <2>2. CASE ~LinkFree(f, In(q))
    <3>1. PICK k \in Links(f, In(q)) : TRUE
      BY <2>2 DEF LinkFree
    <3>2. k \in 1..(Len(q) + 1) /\ Len(q) \in Nat /\ Len(In(q)) = Len(q) + 1
          /\ KindIn(f, SubSeq(In(q), 1, k)) = "link"
      BY <1>1, InPath DEF Links
    <3>3. k \notin 1..Len(q)
      <4> SUFFICES ASSUME k \in 1..Len(q) PROVE FALSE
        OBVIOUS
      <4>1. KindIn(f, SubSeq(q, 1, k)) = "link"
        BY <1>1, <3>2, InPath
      <4> QED
        BY <1>4, <4>1 DEF LinkFree, Links
    <3>4. SubSeq(In(q), 1, k) = In(q)
      BY <1>1, <3>2, <3>3, WholePath DEF Paths
    <3> QED
      BY <3>2, <3>4, NodesOfWorlds DEF KindIn
  <2> QED
    BY <2>1, <2>2
<1>6. KindIn(f, q) = "dir" /\ \A a \in Ancestors(q) : KindIn(f, a) = "dir"
  BY <1>1, <1>5, InPath
<1>7. Canonicalize(f, x) = q
  BY <1>6 DEF Canonicalize
<1> QED
  BY <1>1, <1>6, <1>7 DEF KindOf, Paths

-------------------------------------------------------------------------------
(* The answers of a file system at rest.                                   *)

LEMMA AnswersAre ==
  ASSUME NEW f, NEW b, NEW q
  PROVE  q \in Answers(f, b) <=>
           /\ q \in DOMAIN f /\ f[q].kind = "file" /\ Inside(Canonicalize(f, b), q)
           /\ \/ q = Canonicalize(f, b \o Wanted)
              \/ (KindOf(f, b \o Wanted) = "dir" /\ q = Canonicalize(f, In(b \o Wanted)))
  BY DEF Answers, In, Inside, NoPath

LEMMA OneAnswer ==
  ASSUME NEW f, NEW b
  PROVE  /\ \A q : Answers(f, b) = {q} => Answer(f, b) = q
         /\ Answers(f, b) = {} => Answer(f, b) = NoPath
  BY DEF Answer

LEMMA AnswerType ==
  ASSUME NEW f \in Worlds, NEW b
  PROVE  Answer(f, b) \in Paths \cup {NoPath}
<1>1. CASE Answers(f, b) = {}
  BY <1>1 DEF Answer
<1>2. CASE Answers(f, b) # {}
  BY <1>2, AnswersAre, NodesOfWorlds DEF Answer
<1> QED
  BY <1>1, <1>2

LEMMA AnswerOfNothing ==
  ASSUME NEW f \in Worlds, NEW b, KindOf(f, b \o Wanted) = "absent"
  PROVE  Answer(f, b) = NoPath
<1>1. Canonicalize(f, b \o Wanted) = NoPath
  BY CanonicalKind
<1>2. Answers(f, b) = {}
  BY <1>1, AnswersAre, NodesOfWorlds DEF Paths
<1> QED
  BY <1>2, OneAnswer

LEMMA AnswerOfFile ==
  ASSUME NEW f \in Worlds, NEW b, KindOf(f, b \o Wanted) = "file"
  PROVE  Answer(f, b) = IF Inside(Canonicalize(f, b), Canonicalize(f, b \o Wanted))
                        THEN Canonicalize(f, b \o Wanted) ELSE NoPath
<1> DEFINE c == Canonicalize(f, b \o Wanted)
<1>1. c \in DOMAIN f /\ f[c].kind = "file"
  BY CanonicalKind, CanonicalFacts DEF KindIn
<1>2. CASE Inside(Canonicalize(f, b), c)
  <2>1. Answers(f, b) = {c}
    BY <1>1, <1>2, AnswersAre
  <2> QED
    BY <1>2, <2>1, OneAnswer
<1>3. CASE ~Inside(Canonicalize(f, b), c)
  <2>1. Answers(f, b) = {}
    BY <1>1, <1>3, AnswersAre
  <2> QED
    BY <1>3, <2>1, OneAnswer
<1> QED
  BY <1>2, <1>3

LEMMA AnswerOfDir ==
  ASSUME NEW f \in Worlds, NEW b, KindOf(f, b \o Wanted) = "dir"
  PROVE  LET c == Canonicalize(f, In(b \o Wanted))
         IN Answer(f, b) = IF KindOf(f, In(b \o Wanted)) = "file" /\ Inside(Canonicalize(f, b), c)
                           THEN c ELSE NoPath
<1> DEFINE c == Canonicalize(f, In(b \o Wanted))
           d == Canonicalize(f, b \o Wanted)
<1>1. d \in DOMAIN f /\ f[d].kind = "dir"
  BY CanonicalKind, CanonicalFacts DEF KindIn
<1>2. (c \in DOMAIN f /\ f[c].kind = "file") <=> KindOf(f, In(b \o Wanted)) = "file"
  <2>1. CASE c = NoPath
    BY <2>1, CanonicalKind, NodesOfWorlds DEF Paths
  <2>2. CASE c # NoPath
    BY <2>2, CanonicalKind, CanonicalFacts DEF KindIn
  <2> QED
    BY <2>1, <2>2
<1>3. CASE KindOf(f, In(b \o Wanted)) = "file" /\ Inside(Canonicalize(f, b), c)
  <2>1. Answers(f, b) = {c}
    BY <1>1, <1>2, <1>3, AnswersAre
  <2> QED
    BY <1>3, <2>1, OneAnswer
<1>4. CASE ~(KindOf(f, In(b \o Wanted)) = "file" /\ Inside(Canonicalize(f, b), c))
  <2>1. Answers(f, b) = {}
    BY <1>1, <1>2, <1>4, AnswersAre
  <2> QED
    BY <1>4, <2>1, OneAnswer
<1> QED
  BY <1>3, <1>4

-------------------------------------------------------------------------------
(* The state.                                                              *)

Looking == pc \in {"is_dir", "canonicalize", "base", "read"}
Named == Base \o Wanted
Results == [path : Seq(STRING), through : Seq(STRING), looks : SUBSET Seq(STRING), relinked : BOOLEAN]

\* The types of TypeOK, and of the rest.
Types ==
  /\ TypeOK
  /\ bases \in Seq(Paths) /\ homes \in Seq(Paths \cup {NoPath})
  /\ results \in Seq(Results)
  /\ canon \in Seq(STRING) /\ looks \in SUBSET Seq(STRING) /\ relinked \in BOOLEAN
  /\ pc = "setup" => results = <<>>
  /\ Looking => Len(results) < Len(bases)

\* The lookup ends with the first path it finds, or with the last base.
EndsWell ==
  /\ \A k \in 1..Len(results) :
       results[k].path # NoPath => pc = "done" /\ response = "ok" /\ k = Len(results)
  /\ pc = "done" /\ response = "not_found" => Len(results) = Len(bases)

\* A registered directory is what its base says, without links.
HomesStand ==
  /\ \A k \in 1..Len(homes) : homes[k] # NoPath => homes[k] = bases[k] /\ LinkFree(fs, homes[k])
  /\ pc = "read" /\ homes[Len(results) + 1] # NoPath => IsPrefix(homes[Len(results) + 1], canon)

\* What the lookup has learned by its questions still holds, or there was a
\* moment without an answer, as long as no link on the way was changed.
Learned ==
  Looking =>
    /\ Answer(fs, Base) \in looks
    /\ full = Named \/ (full = In(Named) /\ pc # "is_dir")
    /\ ~relinked =>
         /\ full = Named /\ pc # "is_dir" => NoPath \in looks \/ KindOf(fs, Named) = "file"
         /\ full = In(Named) => NoPath \in looks \/ KindOf(fs, Named) = "dir"
         /\ pc \in {"base", "read"} =>
              canon = LeadsTo(fs, full) /\ canon \in Paths /\ LinkFree(fs, canon)
         /\ pc = "read" => LeadsTo(fs, Base) \in Paths /\ IsPrefix(LeadsTo(fs, Base), canon)

IInv == Types /\ EndsWell /\ HomesStand /\ StaysInside /\ Learned /\ LookIsAtomic

LEMMA NamedPath ==
  ASSUME NEW b \in Paths
  PROVE  /\ b \o Wanted \in Paths /\ In(b \o Wanted) \in Paths
         /\ In(b \o Wanted) # b \o Wanted
<1>1. b \o Wanted \in Paths
  BY FileAssumption, ConcatProperties, ConcatSimplifications DEF Paths, NoPath
<1>2. /\ In(b \o Wanted) \in Paths /\ Len(In(b \o Wanted)) = Len(b \o Wanted) + 1
      /\ Len(b \o Wanted) \in Nat
  BY <1>1, InPath
<1> QED
  BY <1>1, <1>2

LEMMA BaseAndNamed ==
  ASSUME Types, Looking
  PROVE  /\ Base \in Paths /\ Named \in Paths /\ In(Named) \in Paths /\ In(Named) # Named
         /\ Len(results) + 1 \in 1..Len(bases) /\ Len(results) + 1 \in 1..Len(homes)
         /\ Len(results) \in Nat /\ fs \in Worlds
<1>1. Len(results) \in Nat /\ Len(results) + 1 \in 1..Len(bases) /\ Len(homes) = Len(bases)
  BY DEF Types, TypeOK
<1>2. Base \in Paths
  BY <1>1 DEF Base, Types
<1> QED
  BY <1>1, <1>2, NamedPath DEF Named, Types, TypeOK

LEMMA InitOK == Init => IInv
<1> SUFFICES ASSUME Init PROVE IInv
  OBVIOUS
<1>1. \A S : <<>> \in Seq(S) /\ Len(<<>>) = 0
  BY EmptySeq
<1>2. TypeOK
  BY <1>1, FileAssumption DEF Init, TypeOK
<1>3. Types
  BY <1>1, <1>2 DEF Init, Types, Looking, NoPath
<1>4. EndsWell /\ HomesStand /\ StaysInside /\ Learned /\ LookIsAtomic
  BY <1>1 DEF Init, EndsWell, HomesStand, StaysInside, Learned, LookIsAtomic, Looking
<1> QED
  BY <1>3, <1>4 DEF IInv

-------------------------------------------------------------------------------
(* The steps of the lookup.                                                *)

\* Turning to the next base, or to the end.
LEMMA TurnToKeeps ==
  ASSUME IInv, pc # "done", TurnTo(Len(results') + 1), UNCHANGED <<fs, bases, homes, changes>>,
         results' \in Seq(Results), Len(results') =< Len(bases),
         \A k \in 1..Len(results') :
           /\ results'[k].path = NoPath
           /\ results'[k].relinked \/ NoPath \in results'[k].looks
  PROVE  IInv'
<1> DEFINE k == Len(results') + 1
<1>1. /\ fs \in Worlds /\ response = "none" /\ bases \in Seq(Paths) /\ homes \in Seq(Paths \cup {NoPath})
      /\ bases \in Seq(Seq(STRING)) /\ Len(homes) = Len(bases) /\ changes \in 0..MaxChanges /\ Len(bases) \in Nat
      /\ k \in Nat /\ k \in 1..(Len(bases) + 1)
  BY DEF IInv, Types, TypeOK
<1>2. canon' = NoPath /\ relinked' = FALSE /\ canon' \in Seq(STRING)
  BY EmptySeq DEF TurnTo, NoPath
<1>3. CASE k > Len(bases)
  <2>1. pc' = "done" /\ response' = "not_found" /\ looks' = {} /\ ~Looking'
    BY <1>3 DEF TurnTo, NotFound, Looking
  <2>2. Len(results') = Len(bases)
    BY <1>1, <1>3
  <2>3. Types'
    BY <1>1, <1>2, <2>1, <2>2 DEF Types, TypeOK
  <2>4. EndsWell' /\ StaysInside' /\ LookIsAtomic' /\ Learned'
    BY <2>1, <2>2 DEF EndsWell, StaysInside, LookIsAtomic, Learned
  <2>5. HomesStand'
    BY <2>1 DEF IInv, HomesStand
  <2> QED
    BY <2>3, <2>4, <2>5 DEF IInv
<1>4. CASE ~(k > Len(bases))
  <2>1. /\ pc' = "is_dir" /\ full' = bases[k] \o Wanted /\ looks' = {Answer(fs, bases[k])}
        /\ response' = "none" /\ k \in 1..Len(bases)
    BY <1>1, <1>4 DEF TurnTo
  <2>2. Answer(fs, bases[k]) \in Seq(STRING)
    BY <1>1, AnswerType, EmptySeq DEF Paths, NoPath
  <2>3. Types'
    <3>1. Len(results') < Len(bases) /\ looks' \in SUBSET Seq(STRING)
      BY <1>1, <2>1, <2>2
    <3>2. TypeOK'
      BY <1>1, <2>1, <3>1 DEF TypeOK
    <3> QED
      BY <1>1, <1>2, <2>1, <3>1, <3>2 DEF Types
  <2>4. Base' = bases[k] /\ full' = Named'
    BY <2>1 DEF Base, Named
  <2>5. In(Named') # Named'
    <3>1. bases[k] \in Paths /\ Named' = bases[k] \o Wanted
      BY <1>1, <2>1, <2>4 DEF Named
    <3> QED
      BY <3>1, NamedPath
  <2>6. Learned'
    BY <1>2, <2>1, <2>4, <2>5 DEF Learned
  <2>7. EndsWell' /\ StaysInside' /\ LookIsAtomic'
    BY <2>1 DEF EndsWell, StaysInside, LookIsAtomic
  <2>8. HomesStand'
    BY <2>1 DEF IInv, HomesStand
  <2> QED
    BY <2>3, <2>6, <2>7, <2>8 DEF IInv
<1> QED
  BY <1>3, <1>4

\* A question whose answer ends the look: there was a moment without an answer.
LEMMA FailsKeeps ==
  ASSUME IInv, Looking, Fails, UNCHANGED <<fs, bases, homes, changes>>,
         relinked \/ NoPath \in looks
  PROVE  IInv'
<1>1. results \in Seq(Results) /\ Len(results) \in Nat /\ Len(results) < Len(bases) /\ pc # "done"
  BY DEF IInv, Types, Looking
<1>2. Result(NoPath) \in Results
  BY EmptySeq DEF IInv, Types, Result, Results, NoPath
<1>3. /\ results' \in Seq(Results) /\ Len(results') = Len(results) + 1
      /\ results'[Len(results) + 1] = Result(NoPath)
      /\ \A k \in 1..Len(results) : results'[k] = results[k]
  BY <1>1, <1>2 DEF Fails
<1>4. Len(results') =< Len(bases) /\ Len(results') + 1 = Len(results) + 2
  BY <1>1, <1>3 DEF IInv, Types, TypeOK
<1>5. TurnTo(Len(results') + 1)
  BY <1>4 DEF Fails
<1>6. ASSUME NEW k \in 1..Len(results')
      PROVE  /\ results'[k].path = NoPath
             /\ results'[k].relinked \/ NoPath \in results'[k].looks
  <2>1. CASE k = Len(results) + 1
    BY <1>3, <2>1 DEF Result
  <2>2. CASE k \in 1..Len(results)
    BY <1>1, <1>3, <2>2 DEF IInv, EndsWell, LookIsAtomic
  <2> QED
    BY <1>1, <1>3, <2>1, <2>2
<1> QED
  BY <1>1, <1>3, <1>4, <1>5, <1>6, TurnToKeeps

LEMMA ServeKeeps == IInv /\ Serve => IInv'
<1> SUFFICES ASSUME IInv, Serve PROVE IInv'
  OBVIOUS
<1>1. /\ pc # "done" /\ results' = <<>> /\ Len(results') + 1 = 1 /\ results' \in Seq(Results)
      /\ Len(results') =< Len(bases)
  BY EmptySeq DEF Serve, IInv, Types, TypeOK
<1> QED
  BY <1>1, TurnToKeeps DEF Serve

\* What is registered has no links, if it is there.
LEMMA AddKeeps == IInv /\ AddFilesSource => IInv'
<1> SUFFICES ASSUME IInv, AddFilesSource PROVE IInv'
  OBVIOUS
<1> DEFINE n == Len(bases) + 1
           b == Given[n]
           c == Canonicalize(fs, b)
<1>1. /\ pc = "setup" /\ bases' = Append(bases, Pinned(fs, b)) /\ homes' = Append(homes, c)
      /\ UNCHANGED <<fs, pc, full, canon, response, results, looks, relinked, changes>>
  BY DEF AddFilesSource, lookup
<1>2. /\ fs \in Worlds /\ bases \in Seq(Paths) /\ homes \in Seq(Paths \cup {NoPath})
      /\ Len(homes) = Len(bases) /\ Len(bases) \in Nat /\ results = <<>>
  BY <1>1 DEF IInv, Types, TypeOK
<1>3. b \in Paths
  BY <1>2, FileAssumption DEF AddFilesSource, Paths, NoPath
<1>4. c # NoPath => c \in Paths /\ LinkFree(fs, c)
  BY <1>2, CanonicalFacts
<1>5. Pinned(fs, b) \in Paths /\ (c # NoPath => Pinned(fs, b) = c)
  BY <1>3, <1>4 DEF Pinned
<1> HIDE DEF b, c
<1>6. /\ bases' \in Seq(Paths) /\ homes' \in Seq(Paths \cup {NoPath})
      /\ Len(bases') = n /\ Len(homes') = n /\ homes'[n] = c /\ bases'[n] = Pinned(fs, b)
      /\ \A k \in 1..Len(bases) : bases'[k] = bases[k] /\ homes'[k] = homes[k]
  BY <1>1, <1>2, <1>4, <1>5
<1>7. bases' \in Seq(Seq(STRING)) /\ Len(results') = 0
  BY <1>1, <1>2, <1>6, SeqMonotonic, EmptySeq DEF Paths
<1>8. Types'
  BY <1>1, <1>2, <1>6, <1>7 DEF IInv, Types, TypeOK, Looking
<1>9. EndsWell' /\ StaysInside' /\ LookIsAtomic' /\ Learned'
  BY <1>1, <1>7 DEF EndsWell, StaysInside, LookIsAtomic, Learned, Looking
<1>10. HomesStand'
  <2>1. ASSUME NEW k \in 1..Len(homes'), homes'[k] # NoPath
        PROVE  homes'[k] = bases'[k] /\ LinkFree(fs', homes'[k])
    <3>1. CASE k = n
      BY <1>1, <1>4, <1>5, <1>6, <2>1, <3>1
    <3>2. CASE k \in 1..Len(bases)
      BY <1>1, <1>2, <1>6, <2>1, <3>2 DEF IInv, HomesStand
    <3> QED
      BY <1>2, <1>6, <3>1, <3>2
  <2> QED
    BY <1>1, <2>1 DEF HomesStand
<1> QED
  BY <1>8, <1>9, <1>10 DEF IInv

\* A question whose answer leads on.
LEMMA AnsweredKeeps ==
  ASSUME IInv, Looking, Looking', canon' \in Seq(STRING), Learned',
         UNCHANGED <<fs, bases, response, results, looks, relinked, homes, changes>>,
         pc' = "read" /\ homes[Len(results) + 1] # NoPath => IsPrefix(homes[Len(results) + 1], canon')
  PROVE  IInv'
<1>1. Types'
  BY DEF IInv, Types, TypeOK, Looking
<1>2. EndsWell' /\ StaysInside' /\ LookIsAtomic' /\ HomesStand'
  BY DEF IInv, EndsWell, StaysInside, LookIsAtomic, HomesStand, Looking
<1> QED
  BY <1>1, <1>2 DEF IInv

LEMMA AskIsDirKeeps == IInv /\ AskIsDir => IInv'
<1> SUFFICES ASSUME IInv, AskIsDir PROVE IInv'
  OBVIOUS
<1>1. /\ pc = "is_dir" /\ pc' = "canonicalize" /\ Looking /\ Looking'
      /\ UNCHANGED <<fs, bases, canon, response, results, looks, relinked, homes, changes>>
      /\ Base' = Base /\ Named' = Named
  BY DEF AskIsDir, Looking, Base, Named
<1>2. /\ full = Named /\ Answer(fs, Base) \in looks /\ In(Named) # Named /\ fs \in Worlds
      /\ full' = IF KindOf(fs, Named) = "dir" THEN In(Named) ELSE Named
  BY <1>1, BaseAndNamed DEF IInv, Learned, AskIsDir, In
<1>3. KindOf(fs, Named) = "dir" \/ KindOf(fs, Named) = "file" \/ NoPath \in looks
  BY <1>2, CanonicalKind, AnswerOfNothing DEF Named
<1>4. Learned'
  BY <1>1, <1>2, <1>3 DEF Learned
<1>5. canon' \in Seq(STRING)
  BY <1>1 DEF IInv, Types
<1> QED
  BY <1>1, <1>4, <1>5, AnsweredKeeps

\* What the questions have come to at the canonical path of full: the file,
\* or the index of the directory, is the answer if the base holds it.
LEMMA AnswerAtFull ==
  ASSUME IInv, Looking, pc # "is_dir", ~relinked, NoPath \notin looks
  PROVE  /\ KindOf(fs, full) = "file" /\ Inside(Canonicalize(fs, Base), Canonicalize(fs, full)) =>
              Answer(fs, Base) = Canonicalize(fs, full)
         /\ ~(KindOf(fs, full) = "file" /\ Inside(Canonicalize(fs, Base), Canonicalize(fs, full))) =>
              Answer(fs, Base) = NoPath
<1>1. fs \in Worlds /\ (full = Named \/ full = In(Named))
  BY BaseAndNamed DEF IInv, Learned
<1>2. CASE full = Named
  <2>1. KindOf(fs, Base \o Wanted) = "file"
    BY <1>2 DEF IInv, Learned, Named
  <2> QED
    BY <1>1, <1>2, <2>1, AnswerOfFile DEF Named
<1>3. CASE full = In(Named)
  <2>1. KindOf(fs, Base \o Wanted) = "dir"
    BY <1>3 DEF IInv, Learned, Named
  <2> QED
    BY <1>1, <1>3, <2>1, AnswerOfDir DEF Named
<1> QED
  BY <1>1, <1>2, <1>3

LEMMA AskCanonicalKeeps == IInv /\ AskCanonical => IInv'
<1> SUFFICES ASSUME IInv, AskCanonical PROVE IInv'
  OBVIOUS
<1> DEFINE q == Canonicalize(fs, full)
<1>1. pc = "canonicalize" /\ Looking /\ UNCHANGED <<fs, bases, homes, changes>> /\ fs \in Worlds
  BY BaseAndNamed DEF AskCanonical, Looking, IInv
<1>2. Answer(fs, Base) \in looks
  BY <1>1 DEF IInv, Learned
<1>3. CASE q = NoPath
  <2>1. Fails
    BY <1>3 DEF AskCanonical
  <2>2. relinked \/ NoPath \in looks
    <3> SUFFICES ASSUME ~relinked, NoPath \notin looks PROVE FALSE
      OBVIOUS
    <3>1. ~Inside(Canonicalize(fs, Base), q)
      BY <1>3, CanonicalKind, <1>1, AnswerAtFull, <1>2 DEF Inside
    <3> QED
      BY <1>1, <1>2, <3>1, AnswerAtFull
  <2> QED
    BY <1>1, <2>1, <2>2, FailsKeeps
<1>4. CASE q # NoPath
  <2>1. /\ canon' = q /\ pc' = "base" /\ UNCHANGED <<full, response, results, looks, relinked>>
        /\ Looking' /\ Base' = Base /\ Named' = Named
    BY <1>1, <1>4 DEF AskCanonical, Looking, Base, Named
  <2>2. q = LeadsTo(fs, full) /\ q \in Paths /\ LinkFree(fs, q)
    BY <1>1, <1>4, CanonicalFacts
  <2> HIDE DEF q
  <2>3. Learned'
    BY <1>1, <2>1, <2>2 DEF IInv, Learned, Looking
  <2>4. canon' \in Seq(STRING)
    BY <2>1, <2>2 DEF Paths
  <2> QED
    BY <1>1, <2>1, <2>3, <2>4, AnsweredKeeps
<1> QED
  BY <1>3, <1>4

LEMMA AskBaseKeeps == IInv /\ AskBase => IInv'
<1> SUFFICES ASSUME IInv, AskBase PROVE IInv'
  OBVIOUS
<1> DEFINE b == Canonicalize(fs, Base)
           k == Len(results) + 1
<1>1. /\ pc = "base" /\ Looking /\ UNCHANGED <<fs, bases, homes, changes>> /\ fs \in Worlds
      /\ Answer(fs, Base) \in looks /\ k \in 1..Len(homes)
  BY BaseAndNamed DEF AskBase, Looking, IInv, Learned
<1>2. CASE ~Inside(b, canon)
  <2>1. Fails
    BY <1>2 DEF AskBase
  <2>2. relinked \/ NoPath \in looks
    <3> SUFFICES ASSUME ~relinked, NoPath \notin looks PROVE FALSE
      OBVIOUS
    <3>1. canon = LeadsTo(fs, full)
      BY <1>1 DEF IInv, Learned
    <3>2. KindOf(fs, full) = "file" => Canonicalize(fs, full) = canon
      BY <1>1, <3>1, CanonicalKind, CanonicalFacts
    <3> QED
      BY <1>1, <1>2, <3>2, AnswerAtFull
  <2> QED
    BY <1>1, <2>1, <2>2, FailsKeeps
<1>3. CASE Inside(b, canon)
  <2>1. /\ pc' = "read" /\ UNCHANGED <<full, canon, response, results, looks, relinked>>
        /\ Looking' /\ Base' = Base /\ Named' = Named
    BY <1>1, <1>3 DEF AskBase, Looking, Base, Named
  <2>2. b = LeadsTo(fs, Base) /\ b \in Paths /\ IsPrefix(b, canon)
    BY <1>1, <1>3, CanonicalFacts DEF Inside, NoPath
  <2>3. ASSUME homes[k] # NoPath PROVE IsPrefix(homes[k], canon)
    <3>1. Base = homes[k] /\ LinkFree(fs, homes[k])
      BY <1>1, <2>3 DEF IInv, HomesStand, Base
    <3>2. b = homes[k]
      BY <2>2, <3>1, LeadsToItself
    <3> QED
      BY <2>2, <3>2
  <2> HIDE DEF b
  <2>4. Learned'
    BY <1>1, <2>1, <2>2 DEF IInv, Learned, Looking
  <2>5. canon' \in Seq(STRING)
    BY <2>1 DEF IInv, Types
  <2> QED
    BY <1>1, <2>1, <2>3, <2>4, <2>5, AnsweredKeeps
<1> QED
  BY <1>2, <1>3

\* The directories above a path are those above its prefixes, and the prefixes.
LEMMA PrefixIsAbove ==
  ASSUME NEW x \in Paths, NEW c \in Paths, IsPrefix(x, c)
  PROVE  x = c \/ (x \in Ancestors(c) /\ Ancestors(x) \subseteq Ancestors(c))
<1>1. /\ Len(x) \in 1..Len(c) /\ Len(x) \in Nat /\ Len(c) \in Nat
      /\ x = SubSeq(c, 1, Len(x))
      /\ \A j \in 1..Len(x) : SubSeq(x, 1, j) = SubSeq(c, 1, j)
  <2>1. Len(x) \in Nat \ {0} /\ Len(c) \in Nat /\ Len(x) =< Len(c) /\ SubSeq(x, 1, Len(x)) = SubSeq(c, 1, Len(x))
    BY DEF Paths, NoPath, IsPrefix
  <2>2. x = SubSeq(c, 1, Len(x))
    BY <2>1, WholePath DEF Paths
  <2>3. \A j \in 1..Len(x) : SubSeq(SubSeq(c, 1, Len(x)), 1, j) = SubSeq(c, 1, j)
    BY <2>1, PrefixOfPath DEF Paths
  <2> QED
    BY <2>1, <2>2, <2>3
<1>2. CASE Len(x) = Len(c)
  BY <1>1, <1>2, WholePath DEF Paths
<1>3. CASE Len(x) # Len(c)
  <2>1. x \in Ancestors(c)
    <3>1. Len(x) \in 1..(Len(c) - 1)
      BY <1>1, <1>3
    <3> QED
      BY <1>1, <3>1 DEF Ancestors
  <2>2. ASSUME NEW j \in 1..(Len(x) - 1) PROVE SubSeq(x, 1, j) \in Ancestors(c)
    <3>1. SubSeq(x, 1, j) = SubSeq(c, 1, j) /\ j \in 1..(Len(c) - 1)
      BY <1>1
    <3> QED
      BY <3>1 DEF Ancestors
  <2> QED
    BY <2>1, <2>2 DEF Ancestors
<1> QED
  BY <1>2, <1>3

\* What holds a file is a directory, or the file.
LEMMA HolderIsThere ==
  ASSUME NEW f \in Worlds, NEW x, NEW c, KindOf(f, c) # "absent", LeadsTo(f, c) = c,
         LeadsTo(f, x) \in Paths, IsPrefix(LeadsTo(f, x), c)
  PROVE  Canonicalize(f, x) = LeadsTo(f, x)
<1> DEFINE h == LeadsTo(f, x)
<1>1. /\ c \in Paths /\ KindIn(f, c) \in {"dir", "file"}
      /\ \A r \in Ancestors(c) : KindIn(f, r) = "dir"
  BY CanonicalKind, CanonicalFacts
<1>2. h = c \/ (h \in Ancestors(c) /\ Ancestors(h) \subseteq Ancestors(c))
  BY <1>1, PrefixIsAbove
<1>3. KindIn(f, h) \in {"dir", "file"} /\ \A r \in Ancestors(h) : KindIn(f, r) = "dir"
  BY <1>1, <1>2
<1> QED
  BY <1>3 DEF Canonicalize

LEMMA ReadKeeps == IInv /\ ReadFile => IInv'
<1> SUFFICES ASSUME IInv, ReadFile PROVE IInv'
  OBVIOUS
<1> DEFINE c == Canonicalize(fs, canon)
           n == Len(results) + 1
<1>1. /\ pc = "read" /\ Looking /\ UNCHANGED <<fs, bases, homes, changes>> /\ fs \in Worlds
      /\ Answer(fs, Base) \in looks /\ n \in 1..Len(homes) /\ n \in 1..Len(bases)
      /\ Base \in Paths /\ Named \in Paths
      /\ Len(results) \in Nat /\ results \in Seq(Results) /\ Len(homes) = Len(bases)
  BY BaseAndNamed DEF ReadFile, Looking, IInv, Learned, Types, TypeOK
<1>2. ~relinked => /\ canon = LeadsTo(fs, full) /\ canon \in Paths /\ LinkFree(fs, canon)
                   /\ LeadsTo(fs, Base) \in Paths /\ IsPrefix(LeadsTo(fs, Base), canon)
                   /\ LeadsTo(fs, canon) = canon
                   /\ Canonicalize(fs, full) = c /\ KindOf(fs, full) = KindOf(fs, canon)
  BY <1>1, CanonicalAgain, LeadsToItself DEF IInv, Learned
<1>3. CASE KindOf(fs, canon) # "file"
  <2>1. Fails
    BY <1>3 DEF ReadFile
  <2>2. relinked \/ NoPath \in looks
    BY <1>1, <1>2, <1>3, AnswerAtFull
  <2> QED
    BY <1>1, <2>1, <2>2, FailsKeeps
<1>4. CASE KindOf(fs, canon) = "file"
  <2>1. /\ results' = Append(results, Result(c)) /\ pc' = "done" /\ response' = "ok" /\ ~Looking'
        /\ UNCHANGED <<full, canon, looks, relinked>>
    BY <1>4 DEF ReadFile, Looking
  <2>2. c \in Paths /\ c # NoPath
    BY <1>1, <1>4, CanonicalKind, CanonicalFacts
  <2>3. ASSUME ~relinked PROVE c \in looks
    <3>1. LeadsTo(fs, canon) = canon /\ c = canon
      BY <1>1, <1>2, <2>2, <2>3, CanonicalFacts
    <3>2. Canonicalize(fs, Base) = LeadsTo(fs, Base)
      BY <1>1, <1>2, <1>4, <2>3, HolderIsThere
    <3>3. Inside(Canonicalize(fs, Base), c)
      BY <1>2, <2>3, <3>1, <3>2 DEF Inside, Paths, NoPath
    <3>4. CASE full = Named
      BY <1>1, <1>2, <1>4, <2>3, <3>3, <3>4, AnswerOfFile DEF Named
    <3>5. CASE full = In(Named)
      <4>1. KindOf(fs, Named) = "dir"
        BY <1>1, <1>2, <2>2, <2>3, <3>5, IndexMeansDir
      <4> QED
        BY <1>1, <1>2, <1>4, <2>3, <3>3, <3>5, <4>1, AnswerOfDir DEF Named
    <3> QED
      BY <1>1, <3>4, <3>5 DEF IInv, Learned
  <2> HIDE DEF c
  <2>4. Result(c) \in Results /\ Result(c).path = c /\ Result(c).through = canon
        /\ Result(c).looks = looks /\ Result(c).relinked = relinked
    BY <2>2 DEF IInv, Types, Result, Results, Paths
  <2>5. /\ results' \in Seq(Results) /\ Len(results') = n /\ results'[n] = Result(c)
        /\ \A k \in 1..Len(results) : results'[k] = results[k]
    BY <1>1, <2>1, <2>4
  <2>6. Types'
    <3>1. TypeOK'
      BY <1>1, <2>1, <2>5 DEF IInv, Types, TypeOK
    <3> QED
      BY <1>1, <2>1, <2>5, <3>1 DEF IInv, Types
  <2>7. \A k \in 1..Len(results') : k = n \/ k \in 1..Len(results)
    BY <1>1, <2>5
  <2>8. EndsWell'
    BY <1>1, <2>1, <2>5, <2>7 DEF IInv, EndsWell
  <2>9. StaysInside'
    BY <1>1, <2>1, <2>4, <2>5, <2>7 DEF IInv, StaysInside, HomesStand
  <2>10. LookIsAtomic'
    BY <1>1, <2>1, <2>3, <2>4, <2>5, <2>7 DEF IInv, LookIsAtomic
  <2>11. HomesStand' /\ Learned'
    BY <1>1, <2>1 DEF IInv, HomesStand, Learned
  <2> QED
    BY <2>6, <2>8, <2>9, <2>10, <2>11 DEF IInv
<1> QED
  BY <1>3, <1>4

-------------------------------------------------------------------------------
(* The steps of the others.                                                *)

LEMMA StillLinkFree ==
  ASSUME NEW f, NEW g, NEW p, Changed(f, g, p), NEW x \in Paths, LinkFree(f, x),
         ~(g[p].kind = "link" /\ IsPrefix(p, x))
  PROVE  LinkFree(g, x)
<1>1. p \in Paths /\ p \in DOMAIN f
  BY NodesOfWorlds DEF Changed
<1>2. ASSUME f[p].kind = "link", IsPrefix(p, x) PROVE FALSE
  <2>1. Len(p) \in 1..Len(x) /\ SubSeq(x, 1, Len(p)) = p
    BY <1>1, <1>2, WholePath DEF IsPrefix, Paths, NoPath
  <2> QED
    BY <1>1, <1>2, <2>1 DEF LinkFree, Links, KindIn
<1>3. Links(g, x) = Links(f, x)
  BY <1>2, FollowSpared
<1> QED
  BY <1>3 DEF LinkFree

\* A kind once learned stays, or there is a moment without an answer.
LEMMA KindStays ==
  ASSUME NEW f, NEW g, NEW p, Changed(f, g, p), NEW b \in Paths, Spares(f, g, p, b \o Wanted),
         KindOf(f, b \o Wanted) \in {"dir", "file"}
  PROVE  KindOf(g, b \o Wanted) = KindOf(f, b \o Wanted) \/ Answer(g, b) = NoPath
<1>1. b \o Wanted \in Paths /\ g \in Worlds
  BY NamedPath DEF Changed
<1> QED
  BY <1>1, KindSpared, AnswerOfNothing

\* What the lookup has learned survives a change.
LEMMA ChangeKeepsLearned ==
  ASSUME IInv, Looking, NEW f, NEW p, Changed(fs, f, p), fs' = f, UNCHANGED <<bases, lookup>>,
         looks' = looks \cup {Answer(f, Base)},
         relinked' = (relinked \/ ("link" \in {fs[p].kind, f[p].kind} /\ OnTheWay(fs, p)))
  PROVE  Learned'
<1>1. /\ Looking' /\ Base' = Base /\ Named' = Named /\ pc' = pc /\ full' = full /\ canon' = canon
      /\ Answer(f, Base) \in looks' /\ looks \subseteq looks'
      /\ full = Named \/ (full = In(Named) /\ pc # "is_dir")
  BY DEF Looking, Base, Named, lookup, IInv, Learned
<1>2. /\ Base \in Paths /\ Named \in Paths /\ In(Named) \in Paths /\ In(Named) # Named
      /\ full \in Paths /\ f \in Worlds /\ MaxLinks \in Nat
  BY <1>1, BaseAndNamed, FileAssumption DEF IInv, Changed
<1>3. ASSUME ~relinked'
      PROVE  /\ full = Named /\ pc # "is_dir" => NoPath \in looks' \/ KindOf(f, Named) = "file"
             /\ full = In(Named) => NoPath \in looks' \/ KindOf(f, Named) = "dir"
             /\ pc \in {"base", "read"} =>
                  canon = LeadsTo(f, full) /\ canon \in Paths /\ LinkFree(f, canon)
             /\ pc = "read" => LeadsTo(f, Base) \in Paths /\ IsPrefix(LeadsTo(f, Base), canon)
  <2>1. ~relinked /\ Spares(fs, f, p, full) /\ Spares(fs, f, p, Base)
    BY <1>3 DEF OnTheWay, Spares
  <2>2. Spares(fs, f, p, Named)
    BY <1>1, <1>2, <2>1, SparesIn
  <2>3. LeadsTo(f, full) = LeadsTo(fs, full) /\ LeadsTo(f, Base) = LeadsTo(fs, Base)
    BY <1>2, <2>1, WaySpared
  <2>4. ASSUME full = Named, pc # "is_dir" PROVE NoPath \in looks' \/ KindOf(f, Named) = "file"
    BY <1>1, <1>2, <2>1, <2>2, <2>4, KindStays DEF IInv, Learned, Named
  <2>5. ASSUME full = In(Named) PROVE NoPath \in looks' \/ KindOf(f, Named) = "dir"
    BY <1>1, <1>2, <2>1, <2>2, <2>5, KindStays DEF IInv, Learned, Named
  <2>6. ASSUME pc \in {"base", "read"}
        PROVE  canon = LeadsTo(f, full) /\ canon \in Paths /\ LinkFree(f, canon)
    <3>1. canon = LeadsTo(fs, full) /\ canon \in Paths /\ LinkFree(fs, canon)
      BY <2>1, <2>6 DEF IInv, Learned
    <3>2. "link" \in {fs[p].kind, f[p].kind} => ~IsPrefix(p, canon)
      BY <1>2, <2>1, <3>1 DEF Spares, LeadsTo
    <3>3. LinkFree(f, canon)
      BY <3>1, <3>2, FollowSpared DEF LinkFree
    <3> QED
      BY <2>3, <3>1, <3>3
  <2>7. pc = "read" => LeadsTo(f, Base) \in Paths /\ IsPrefix(LeadsTo(f, Base), canon)
    BY <2>1, <2>3 DEF IInv, Learned
  <2> QED
    BY <2>4, <2>5, <2>6, <2>7
<1> QED
  BY <1>1, <1>3 DEF Learned

LEMMA ChangeKeeps == IInv /\ Change => IInv'
<1> SUFFICES ASSUME IInv, Change PROVE IInv'
  OBVIOUS
<1>1. PICK f \in Worlds, p \in DOMAIN fs :
        /\ DOMAIN f = DOMAIN fs /\ f[p] # fs[p] /\ OneStep(fs[p], f[p])
        /\ \A q \in DOMAIN fs \ {p} : f[q] = fs[q]
        /\ fs' = f
        /\ IF pc = "setup" THEN UNCHANGED <<looks, relinked>>
           ELSE /\ looks' = looks \cup {Answer(f, Base)}
                /\ relinked' = (relinked \/ ("link" \in {fs[p].kind, f[p].kind} /\ OnTheWay(fs, p)))
        /\ homes' = [k \in DOMAIN homes |-> IF Displaced(k, p, f[p]) THEN NoPath ELSE homes[k]]
  BY DEF Change
<1>2. /\ changes < MaxChanges /\ pc # "done" /\ changes' = changes + 1
      /\ UNCHANGED <<bases, pc, full, canon, response, results>> /\ Base' = Base
  BY DEF Change, lookup, Base
<1>3. fs \in Worlds /\ MaxChanges \in Nat /\ Changed(fs, f, p)
  BY <1>1, FileAssumption DEF IInv, Types, TypeOK, Changed
<1>4. /\ homes \in Seq(Paths \cup {NoPath}) /\ Len(homes) = Len(bases) /\ Len(homes) \in Nat
      /\ DOMAIN homes = 1..Len(homes)
  BY DEF IInv, Types, TypeOK
<1>5. /\ homes' \in Seq(Paths \cup {NoPath}) /\ Len(homes') = Len(homes)
      /\ \A k \in 1..Len(homes) :
           homes'[k] # NoPath => homes'[k] = homes[k] /\ ~Displaced(k, p, f[p])
  <2>1. homes' \in [1..Len(homes) -> Paths \cup {NoPath}]
    BY <1>1, <1>4
  <2>2. homes' \in Seq(Paths \cup {NoPath}) /\ Len(homes') = Len(homes)
    BY <1>4, <2>1
  <2> QED
    BY <1>1, <1>4, <2>2
<1>6. looks' \in SUBSET Seq(STRING) /\ looks \subseteq looks' /\ relinked' \in BOOLEAN
      /\ (relinked => relinked')
  <2>1. Answer(f, Base) \in Seq(STRING)
    BY <1>1, AnswerType, EmptySeq DEF Paths, NoPath
  <2> QED
    BY <1>1, <2>1 DEF IInv, Types
<1>7. Types'
  <2>1. TypeOK'
    BY <1>1, <1>2, <1>3, <1>4, <1>5 DEF IInv, Types, TypeOK
  <2> QED
    BY <1>1, <1>2, <1>5, <1>6, <2>1 DEF IInv, Types, Looking
<1>8. EndsWell' /\ LookIsAtomic'
  BY <1>2 DEF IInv, EndsWell, LookIsAtomic
<1>9. StaysInside'
  <2>1. Len(results) \in Nat /\ Len(results) =< Len(homes)
    BY <1>4 DEF IInv, Types, TypeOK
  <2> QED
    BY <1>2, <1>4, <1>5, <2>1 DEF IInv, StaysInside
<1>10. HomesStand'
  <2>1. ASSUME NEW k \in 1..Len(homes'), homes'[k] # NoPath
        PROVE  homes'[k] = bases'[k] /\ LinkFree(fs', homes'[k])
    <3>1. homes'[k] = homes[k] /\ homes[k] = bases[k] /\ LinkFree(fs, homes[k])
          /\ ~(f[p].kind = "link" /\ IsPrefix(p, homes[k])) /\ homes[k] \in Paths
      BY <1>4, <1>5, <2>1 DEF IInv, HomesStand, Displaced
    <3>2. LinkFree(f, homes[k])
      BY <1>3, <3>1, StillLinkFree
    <3> QED
      BY <1>1, <1>2, <3>1, <3>2
  <2>2. ASSUME pc' = "read", homes'[Len(results') + 1] # NoPath
        PROVE  IsPrefix(homes'[Len(results') + 1], canon')
    <3>1. Looking
      BY <1>2, <2>2 DEF Looking
    <3>2. Len(results) + 1 \in 1..Len(homes)
      BY <3>1, BaseAndNamed DEF IInv
    <3> QED
      BY <1>2, <1>5, <2>2, <3>2 DEF IInv, HomesStand
  <2> QED
    BY <2>1, <2>2 DEF HomesStand
<1>11. Learned'
  <2>1. CASE pc = "setup"
    BY <1>2, <2>1 DEF Learned, Looking
  <2>2. CASE pc # "setup"
    <3>1. Looking
      BY <1>2, <2>2 DEF Looking, IInv, Types, TypeOK
    <3> QED
      BY <1>1, <1>2, <1>3, <2>2, <3>1, ChangeKeepsLearned DEF lookup
  <2> QED
    BY <2>1, <2>2
<1> QED
  BY <1>7, <1>8, <1>9, <1>10, <1>11 DEF IInv

-------------------------------------------------------------------------------
(* The theorems.                                                           *)

LEMMA Step == IInv /\ [Next]_vars => IInv'
<1> SUFFICES ASSUME IInv, [Next]_vars PROVE IInv'
  OBVIOUS
<1>1. ASSUME UNCHANGED vars PROVE IInv'
  <2>1. UNCHANGED <<fs, bases, pc, full, canon, response, results, looks, relinked, homes, changes>>
    BY <1>1 DEF vars, lookup
  <2>2. Types' /\ Base' = Base /\ Named' = Named /\ (Looking' <=> Looking)
    BY <2>1 DEF IInv, Types, TypeOK, Looking, Base, Named
  <2>3. EndsWell' /\ HomesStand' /\ StaysInside' /\ LookIsAtomic'
    BY <2>1 DEF IInv, EndsWell, HomesStand, StaysInside, LookIsAtomic
  <2>4. Learned'
    BY <2>1, <2>2 DEF IInv, Learned
  <2> QED
    BY <2>2, <2>3, <2>4 DEF IInv
<1> QED
  BY <1>1, AddKeeps, ServeKeeps, AskIsDirKeeps, AskCanonicalKeeps, AskBaseKeeps, ReadKeeps,
     ChangeKeeps DEF Next, Rest

LEMMA Invariance == Spec => []IInv
  BY InitOK, Step, PTL DEF Spec

\* The lookup keeps its types, and has at most one result for each base.
THEOREM TypeCorrect == Spec => []TypeOK
<1>1. IInv => TypeOK
  BY DEF IInv, Types
<1> QED
  BY <1>1, Invariance, PTL

\* serve_file's questions, asked one after the other while files come and go,
\* come to the answer of one look at some moment between them, unless a link on
\* the way was changed.
THEOREM LookupIsAtomic == Spec => []LookIsAtomic
<1>1. IInv => LookIsAtomic
  BY DEF IInv
<1> QED
  BY <1>1, Invariance, PTL

\* secure_path's check against the base that file_source_path has pinned holds
\* for what is read, whatever is relinked, as long as no link takes the place of
\* the directory or of a parent.
THEOREM FilesStayInside == Spec => []StaysInside
<1>1. IInv => StaysInside
  BY DEF IInv
<1> QED
  BY <1>1, Invariance, PTL

\* A 404, or the file of a later base, means that each base before had at some
\* moment of its look no answer, or was relinked.
THEOREM EarlierBases == Spec => []EarlierBasesHadNothing
<1>1. IInv => EarlierBasesHadNothing
  <2> SUFFICES ASSUME IInv, pc = "done", NEW k \in 1..Len(bases),
                      response = "not_found" \/ k < Len(results)
               PROVE  k =< Len(results) /\ (results[k].relinked \/ NoPath \in results[k].looks)
    BY DEF EarlierBasesHadNothing
  <2>1. Len(results) \in Nat /\ Len(bases) \in Nat
    BY DEF IInv, Types, TypeOK
  <2>2. k \in 1..Len(results)
    BY <2>1 DEF IInv, EndsWell
  <2>3. results[k].path = NoPath
    BY <2>1, <2>2 DEF IInv, EndsWell
  <2> QED
    BY <2>2, <2>3 DEF IInv, LookIsAtomic
<1> QED
  BY <1>1, Invariance, PTL
===============================================================================
