------------------------------- MODULE FileServe -------------------------------
(***************************************************************************)
(* A GET that no route answers, looked up in the file sources: serve_file  *)
(* (core/request.rs) and secure_path (core/utils.rs) ask the file system   *)
(* four questions about each source, one after the other, while others     *)
(* deploy, remove and relink files.  A path is the sequence of its names.  *)
(***************************************************************************)
EXTENDS Integers, SequencesExt

CONSTANTS Worlds,      \* the file systems considered: path -> [kind, to], to for links
          Given,       \* the file sources as given to add_files_source
          Wanted,      \* the request's path
          Index,       \* index.html
          MaxLinks,    \* links on one path
          MaxChanges   \* bound on the changes of the file system

ASSUME FileAssumption ==
  /\ Given \in Seq(Seq(STRING) \ {<<>>}) /\ Wanted \in Seq(STRING) /\ Index \in STRING
  /\ \A f \in Worlds : f \in [DOMAIN f -> [kind : {"absent", "dir", "file", "link"}, to : Seq(STRING)]]
  /\ MaxLinks \in Nat /\ MaxChanges \in Nat

VARIABLES fs,         \* the file system
          bases,      \* files_sources
          pc,         \* where the lookup is: secure_path's questions, the read, or "done"
          full,       \* the path asked about
          canon,      \* what it leads to, once known
          response,   \* "none" yet, "ok" or "not_found"
          results,    \* history: what came of each base, in order
          looks,      \* history: all right answers for this base since it was turned to
          relinked,   \* history: a link on the way was changed since
          homes,      \* history: the directory each base led to when it was registered,
                      \* unless a link has since taken its place or a parent's
          changes     \* the number of changes, bounded

lookup == <<pc, full, canon, response, results>>
vars == <<fs, bases, lookup, looks, relinked, homes, changes>>

-------------------------------------------------------------------------------
(* The operating system's part: what a path leads to.                      *)

NoPath == <<>>
KindIn(f, p) == IF p \in DOMAIN f THEN f[p].kind ELSE "absent"
Ancestors(p) == {SubSeq(p, 1, k) : k \in 1..(Len(p) - 1)}

\* The first link on a path is replaced by what it points to.
FollowLink(f, p) ==
  LET links == {k \in 1..Len(p) : KindIn(f, SubSeq(p, 1, k)) = "link"}
      first == CHOOSE k \in links : \A j \in links : k =< j
  IN IF links = {} THEN p ELSE f[SubSeq(p, 1, first)].to \o SubSeq(p, first + 1, Len(p))

\* The paths on the way, one link after the other.
Way(f, p) ==
  LET follow[n \in 0..MaxLinks] == IF n = 0 THEN p ELSE FollowLink(f, follow[n - 1])
  IN follow

LeadsTo(f, p) == Way(f, p)[MaxLinks]

Canonicalize(f, p) ==
  LET q == LeadsTo(f, p)
  IN IF KindIn(f, q) \in {"dir", "file"} /\ \A r \in Ancestors(q) : KindIn(f, r) = "dir"
     THEN q ELSE NoPath

KindOf(f, p) == LET q == Canonicalize(f, p) IN IF q = NoPath THEN "absent" ELSE KindIn(f, q)

\* Paths have names, and whatever there is is in a directory.
ASSUME WorldAssumption ==
  \A f \in Worlds : \A p \in DOMAIN f :
    /\ p \in Seq(STRING) \ {NoPath}
    /\ f[p].kind = "link" => f[p].to # NoPath
    /\ f[p].kind # "absent" => \A r \in Ancestors(p) : KindIn(f, r) = "dir"

-------------------------------------------------------------------------------
(* What a base should answer in a file system at rest: the regular file in *)
(* the directory it leads to which the wanted path names, or whose         *)
(* directory it names.                                                     *)

Answers(f, base) ==
  LET home == Canonicalize(f, base)
      named == base \o Wanted
      files == {p \in DOMAIN f : f[p].kind = "file" /\ home # NoPath /\ IsPrefix(home, p)}
  IN {p \in files : \/ p = Canonicalize(f, named)
                   \/ (KindOf(f, named) = "dir" /\ p = Canonicalize(f, named \o <<Index>>))}

Answer(f, base) == IF Answers(f, base) = {} THEN NoPath ELSE CHOOSE p \in Answers(f, base) : TRUE

-------------------------------------------------------------------------------
(* Registration and the lookup.                                            *)

\* file_source_path
MutPinned(f, base) == base
Pinned(f, base) == IF Canonicalize(f, base) = NoPath THEN base ELSE Canonicalize(f, base)

AddFilesSource ==
  /\ pc = "setup" /\ Len(bases) < Len(Given)
  /\ LET base == Given[Len(bases) + 1]
     IN bases' = Append(bases, Pinned(fs, base)) /\ homes' = Append(homes, Canonicalize(fs, base))
  /\ UNCHANGED <<fs, lookup, looks, relinked, changes>>

Base == bases[Len(results) + 1]

\* The loop is through with all bases; Response::new() is a 404.
MutNotFound == pc' = "done" /\ UNCHANGED response
NotFound == pc' = "done" /\ response' = "not_found"

\* The loop turns to the k-th base.
TurnTo(k) ==
  /\ canon' = NoPath
  /\ relinked' = FALSE
  /\ IF k > Len(bases)
     THEN NotFound /\ full' = NoPath /\ looks' = {}
     ELSE pc' = "is_dir" /\ full' = bases[k] \o Wanted /\ looks' = {Answer(fs, bases[k])} /\ UNCHANGED response

Serve ==
  /\ pc = "setup" /\ Len(bases) = Len(Given)
  /\ TurnTo(1)
  /\ UNCHANGED <<fs, bases, results, homes, changes>>

Result(path) ==
  [path |-> path, through |-> canon, looks |-> looks, relinked |-> relinked]

MutFails == results' = Append(results, Result(NoPath)) /\ TurnTo(Len(bases) + 1)
Fails == results' = Append(results, Result(NoPath)) /\ TurnTo(Len(results) + 2)

AskIsDir ==
  /\ pc = "is_dir"
  /\ full' = IF KindOf(fs, full) = "dir" THEN full \o <<Index>> ELSE full
  /\ pc' = "canonicalize"
  /\ UNCHANGED <<fs, bases, canon, response, results, looks, relinked, homes, changes>>

AskCanonical ==
  /\ pc = "canonicalize"
  /\ LET q == Canonicalize(fs, full)
     IN IF q = NoPath THEN Fails
        ELSE canon' = q /\ pc' = "base" /\ UNCHANGED <<full, response, results, looks, relinked>>
  /\ UNCHANGED <<fs, bases, homes, changes>>

MutInside(base, path) == base # NoPath
Inside(base, path) == base # NoPath /\ IsPrefix(base, path)

AskBase ==
  /\ pc = "base"
  /\ IF Inside(Canonicalize(fs, Base), canon)
     THEN pc' = "read" /\ UNCHANGED <<full, canon, response, results, looks, relinked>>
     ELSE Fails
  /\ UNCHANGED <<fs, bases, homes, changes>>

\* fs::read goes by the canonical path, which may lead elsewhere by now.
ReadFile ==
  /\ pc = "read"
  /\ IF KindOf(fs, canon) = "file"
     THEN /\ results' = Append(results, Result(Canonicalize(fs, canon)))
          /\ pc' = "done" /\ response' = "ok"
          /\ UNCHANGED <<full, canon, looks, relinked>>
     ELSE Fails
  /\ UNCHANGED <<fs, bases, homes, changes>>

-------------------------------------------------------------------------------
(* The others: files and directories come and go one at a time; a link, or *)
(* a file in its place, is replaced in one step (rename).                  *)

OneStep(old, new) ==
  \/ "absent" \in {old.kind, new.kind}
  \/ {old.kind, new.kind} \subseteq {"file", "link"}

OnTheWay(f, p) ==
  \E n \in 0..MaxLinks : IsPrefix(p, Way(f, full)[n]) \/ IsPrefix(p, Way(f, Base)[n])

\* Base k's directory is no longer what it was: a link has taken the place of p.
Displaced(k, p, node) == node.kind = "link" /\ IsPrefix(p, homes[k])

Change ==
  /\ changes < MaxChanges /\ pc # "done"
  /\ changes' = changes + 1
  /\ \E f \in Worlds, p \in DOMAIN fs :
       /\ DOMAIN f = DOMAIN fs /\ f[p] # fs[p] /\ OneStep(fs[p], f[p])
       /\ \A q \in DOMAIN fs \ {p} : f[q] = fs[q]
       /\ fs' = f
       /\ IF pc = "setup" THEN UNCHANGED <<looks, relinked>>
          ELSE /\ looks' = looks \cup {Answer(f, Base)}
               /\ relinked' = (relinked \/ ("link" \in {fs[p].kind, f[p].kind} /\ OnTheWay(fs, p)))
       /\ homes' = [k \in DOMAIN homes |-> IF Displaced(k, p, f[p]) THEN NoPath ELSE homes[k]]
  /\ UNCHANGED <<bases, lookup>>

Rest == pc = "done" /\ UNCHANGED vars

Init ==
  /\ fs \in Worlds
  /\ bases = <<>> /\ homes = <<>>
  /\ pc = "setup" /\ full = NoPath /\ canon = NoPath /\ response = "none" /\ results = <<>>
  /\ looks = {} /\ relinked = FALSE /\ changes = 0

Next ==
  \/ AddFilesSource \/ Serve
  \/ AskIsDir \/ AskCanonical \/ AskBase \/ ReadFile
  \/ Change \/ Rest

Spec == Init /\ [][Next]_vars

-------------------------------------------------------------------------------
(* Properties.                                                             *)

\* Types; one result for each base looked at, at most.
TypeOK ==
  /\ fs \in Worlds
  /\ pc \in {"setup", "is_dir", "canonicalize", "base", "read", "done"}
  /\ bases \in Seq(Seq(STRING)) /\ Len(homes) = Len(bases) /\ Len(results) =< Len(bases)
  /\ response \in {"none", "ok", "not_found"} /\ (response = "none" <=> pc # "done")
  /\ changes \in 0..MaxChanges

\* The four questions come to what one look would have found at some moment
\* between them, whatever comes and goes, unless a link on the way was changed.
LookIsAtomic ==
  \A k \in 1..Len(results) : results[k].relinked \/ results[k].path \in results[k].looks

\* A base that was there when it was registered keeps its meaning: whatever is
\* relinked afterwards, files are read only by paths in that very directory,
\* as long as no link takes the place of the directory itself or of a parent.
StaysInside ==
  \A k \in 1..Len(results) :
    results[k].path # NoPath /\ homes[k] # NoPath => IsPrefix(homes[k], results[k].through)

\* The client is told that there is no such file only if each base, when it was
\* its turn, was without an answer at some moment or was relinked; and it gets
\* the file of a later base only under the same condition on the earlier ones.
EarlierBasesHadNothing ==
  pc = "done" =>
    \A k \in 1..Len(bases) :
      response = "not_found" \/ k < Len(results) =>
        k =< Len(results) /\ (results[k].relinked \/ NoPath \in results[k].looks)
===============================================================================
