-------------------------------- MODULE Dedup --------------------------------
(***************************************************************************)
(* internal/dedup/group.go: raw findings into groups. Findings are put in  *)
(* buckets by path; inside a bucket every pair is compared and merged with *)
(* a union-find; each cluster becomes one Finding with a representative.   *)
(*                                                                         *)
(* Titles are model values, and which of them the Jaro-Winkler score calls *)
(* similar is a constant. RawFinding.Confidence is left out: FromComment,  *)
(* the only maker of raw findings, never sets it, so comparing it is never *)
(* decisive.                                                               *)
(***************************************************************************)
EXTENDS Integers, Sequences, SequencesExt, Grouping, Positions,
        Findings

CONSTANTS
  Pool,          \* the findings a run may report
  MaxRaw,        \* bound: raw findings in a run
  SimilarTitles, \* pairs {t, u} of different titles that score as similar
  MinOverlap     \* LineOverlapMinRatio, in percent

NoCode == "none"  \* a comment without existing_code

ASSUME DedupAssumption ==
  /\ MaxRaw \in Nat
  /\ MinOverlap \in 1..100
  /\ \A f \in Pool :
       f.path \in Nat /\ f.start \in Int /\ f.end \in Int

VARIABLES
  raw,      \* the scanners' findings, in scanner order
  config,   \* RequireSamePath and ExistingCodeExactBoost
  keys,     \* buckets not opened yet
  idxs,     \* the open bucket: positions in raw
  parent,   \* its union-find
  i, j      \* the pair compared next

dedupVars == <<raw, config, keys, idxs, parent, i, j, groups>>

-------------------------------------------------------------------------------
(* Pairs of findings. *)

Unresolved(f) == f.start <= 0 /\ f.end <= 0

Degenerate(f, g) ==
  \/ Unresolved(f) \/ Unresolved(g)
  \/ f.end < f.start \/ g.end < g.start
  \/ f.start < 0 \/ g.start < 0

Smaller(a, b) == IF a < b THEN a ELSE b
Larger(a, b)  == IF a < b THEN b ELSE a
Length(f)     == f.end - f.start + 1

Intersection(f, g) ==
  IF Degenerate(f, g) THEN 0
  ELSE Larger(0, Smaller(f.end, g.end) - Larger(f.start, g.start) + 1)

(* lineIoU(f, g) >= percent / 100, for a positive percent. *)
OverlapAtLeast(f, g, percent) ==
  LET common == Intersection(f, g)
  IN  common > 0 /\ 100 * common >= percent * (Length(f) + Length(g) - common)

SimilarTitle(f, g) == f.title = g.title \/ {f.title, g.title} \in SimilarTitles

ShouldMerge(f, g) ==
  \/ config.exactBoost /\ f.code # NoCode /\ f.code = g.code
  \/ OverlapAtLeast(f, g, 80)
  \/ OverlapAtLeast(f, g, MinOverlap) /\ SimilarTitle(f, g)

BucketOf(f) == IF config.samePath THEN f.path ELSE 0
-------------------------------------------------------------------------------
(* The union-find. find walks up, and hangs each member it passes from its
   grandparent. *)

Halve(at) ==
  LET up == at.parent[at.parent[at.root]]
  IN  IF at.parent[at.root] = at.root THEN at
      ELSE [root |-> up, parent |-> [at.parent EXCEPT ![at.root] = up]]

(* The loop ends at a root, which is never further than there are members. *)
Find(p, x) ==
  LET walk[n \in 0..Len(p)] ==
        IF n = 0 THEN [root |-> x, parent |-> p] ELSE Halve(walk[n - 1])
  IN  walk[Len(p)]

UnionOfMembers(p, a, b) == [p EXCEPT ![a] = b]  \* mutant: members, not roots
Union(p, a, b) ==
  LET fa == Find(p, a)
      fb == Find(fa.parent, b)
  IN  [fb.parent EXCEPT ![fa.root] = fb.root]

(* The clusters by smallest member, each in the order of the bucket. *)
Clusters(p) ==
  LET root   == [k \in DOMAIN p |-> Find(p, k).root]
      firsts == Ascending(Firsts(root))
  IN  [c \in DOMAIN firsts |->
        Ascending({k \in DOMAIN p : root[k] = root[firsts[c]]})]

(* buildFinding: the first member with a line range, or the first one. *)
FirstIsBest(members) == members[1]  \* mutant
Best(members) ==
  LET located == {k \in DOMAIN members : ~Unresolved(raw[members[k]])}
  IN  members[IF located = {} THEN 1 ELSE Nth(located, 1)]

SourceOfEach(members) ==  \* mutant: not deduplicated
  [k \in DOMAIN members |-> raw[members[k]].scanner]
Sources(members) ==
  LET scanner == [k \in DOMAIN members |-> raw[members[k]].scanner]
      firsts  == Ascending(Firsts(scanner))
  IN  [n \in DOMAIN firsts |-> scanner[firsts[n]]]

BuildFinding(id, members) ==
  LET best == raw[Best(members)]
  IN  [id |-> id, path |-> best.path, start |-> best.start, end |-> best.end,
       members |-> members, sources |-> Sources(members)]
-------------------------------------------------------------------------------
DedupInit ==
  /\ raw \in UNION {[1..n -> Pool] : n \in 0..MaxRaw}
  /\ config \in [samePath : BOOLEAN, exactBoost : BOOLEAN]
  /\ keys = {BucketOf(raw[k]) : k \in DOMAIN raw}
  /\ idxs = <<>>
  /\ parent = <<>>
  /\ i = 0 /\ j = 0
  /\ groups = <<>>

(* The buckets come in the order of their keys. *)
BucketOfAll ==  \* mutant: the bucket is not restricted to its key
  /\ idxs = <<>> /\ keys # {}
  /\ keys' = keys \ {CHOOSE k \in keys : \A l \in keys : k <= l}
  /\ idxs' = [k \in DOMAIN raw |-> k]
  /\ parent' = idxs'
  /\ i' = 1 /\ j' = 2
  /\ UNCHANGED <<raw, config, groups>>
OpenBucket ==
  /\ idxs = <<>> /\ keys # {}
  /\ LET key == CHOOSE k \in keys : \A l \in keys : k <= l
     IN  /\ keys' = keys \ {key}
         /\ idxs' = Ascending({k \in DOMAIN raw : BucketOf(raw[k]) = key})
         /\ parent' = [k \in DOMAIN idxs' |-> k]
         /\ i' = 1 /\ j' = 2
  /\ UNCHANGED <<raw, config, groups>>

(* The next pair: j runs from i + 1 to the end, then i advances. *)
NextPair == IF j < Len(idxs) THEN <<i, j + 1>> ELSE <<i + 1, i + 2>>

Compare ==
  /\ idxs # <<>> /\ j <= Len(idxs)
  /\ parent' = IF ShouldMerge(raw[idxs[i]], raw[idxs[j]]) THEN Union(parent, i, j)
               ELSE parent
  /\ i' = NextPair[1] /\ j' = NextPair[2]
  /\ UNCHANGED <<raw, config, keys, idxs, groups>>

IdsPerBucket ==  \* mutant: group numbers start again in each bucket
  /\ idxs # <<>> /\ j > Len(idxs)
  /\ LET clusters == Clusters(parent)
         members(c) == [k \in DOMAIN clusters[c] |-> idxs[clusters[c][k]]]
     IN  groups' = groups \o [c \in DOMAIN clusters |-> BuildFinding(c, members(c))]
  /\ idxs' = <<>>
  /\ UNCHANGED <<raw, config, keys, parent, i, j>>
CloseBucket ==
  /\ idxs # <<>> /\ j > Len(idxs)
  /\ LET clusters == Clusters(parent)
         members(c) == [k \in DOMAIN clusters[c] |-> idxs[clusters[c][k]]]
     IN  groups' = groups \o [c \in DOMAIN clusters |->
                               BuildFinding(Len(groups) + c, members(c))]
  /\ idxs' = <<>>
  /\ UNCHANGED <<raw, config, keys, parent, i, j>>

DedupNext == OpenBucket \/ Compare \/ CloseBucket

Grouped == keys = {} /\ idxs = <<>>
-------------------------------------------------------------------------------
(* Two findings of raw that dedup must not keep apart. *)
MergeRaw(k, l) ==
  BucketOf(raw[k]) = BucketOf(raw[l]) /\ ShouldMerge(raw[k], raw[l])

MergingPairs == {p \in (DOMAIN raw) \X (DOMAIN raw) : MergeRaw(p[1], p[2])}

(* The groups are exactly the connected components of "should merge" within
   a bucket, whatever order the pairs were compared and united in
   (Group, group.go:61-96). *)
MembersAreComponents ==
  Grouped => {ToSet(groups[g].members) : g \in DOMAIN groups}
             = Components(DOMAIN raw, MergingPairs)

(* No finding is in two groups or twice in one, and a group lists its members in
   the order the scanners reported them (group.go:58-60). *)
MembersOnceInOrder ==
  /\ \A g \in DOMAIN groups : \A k, l \in DOMAIN groups[g].members :
       k < l => groups[g].members[k] < groups[g].members[l]
  /\ \A g, h \in DOMAIN groups :
       g # h => ToSet(groups[g].members) \cap ToSet(groups[h].members) = {}

(* A group with one member whose lines were found is rendered at real lines
   (buildFinding, group.go:175-178). *)
ResolvedWhenPossible ==
  \A g \in DOMAIN groups :
    (\E k \in ToSet(groups[g].members) : ~Unresolved(raw[k])) => ~Unresolved(groups[g])

(* A group names each scanner that reported one of its members, once
   (buildFinding, group.go:197-206). *)
EverySourceOnce ==
  \A g \in DOMAIN groups :
    /\ ToSet(groups[g].sources) = {raw[k].scanner : k \in ToSet(groups[g].members)}
    /\ Len(groups[g].sources) = Cardinality(ToSet(groups[g].sources))

(* Dedup neither keeps apart what belongs together, nor joins what does not, nor
   shows of a group less than its members say: the four above together. *)
GroupsFaithful ==
  MembersAreComponents /\ MembersOnceInOrder /\ ResolvedWhenPossible /\ EverySourceOnce
===============================================================================
