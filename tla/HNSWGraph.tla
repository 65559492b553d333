----------------------------- MODULE HNSWGraph -----------------------------
(***************************************************************************)
(* The proximity graph of hnsw_wrapper.go: nodes with one neighbour list   *)
(* per level, built by addUnlocked, thinned by pruneConnections and        *)
(* Delete, walked by searchLayer and Search, written and read back by Save *)
(* and Load.  Every exported method holds hw.mu, so a step here is a whole *)
(* method.                                                                 *)
(*                                                                         *)
(* A vector is a number and the metric is the squared distance.  Vector is *)
(* chosen by the MC module so that no two live vectors are equally far     *)
(* from a third: the order in which the heaps break ties never matters.    *)
(***************************************************************************)
EXTENDS Integers, Sequences, FiniteSets, SequencesExt, FiniteSetsExt

CONSTANTS ID,             \* vector ids
          Vector,         \* vectors
          Query,          \* vectors that are searched for
          Level,          \* what randomLevel can draw
          M,              \* links a node chooses on each level
          EfConstruction, \* breadth of the search of an insertion
          EfSearch,       \* least breadth of a query
          MaxDeletes      \* bound: calls of Delete in one behaviour

ASSUME GraphAssumption ==
         /\ ID \subseteq Nat
         /\ Vector \subseteq Nat /\ Query \subseteq Nat
         /\ Level \subseteq Nat /\ 0 \in Level
         /\ MaxDeletes \in Nat
         /\ {M, EfConstruction, EfSearch} \subseteq Nat \ {0}

VARIABLES nodes,      \* hw.nodes: id -> [vec, level, nbrs: level -> list]
          entryPoint, \* hw.entryPoint
          hasEntry,   \* hw.hasEntry
          maxLevel,   \* hw.MaxLevel
          cut,        \* auxiliary: <<id, level>> whose list was pruned
          deletes     \* auxiliary: how many nodes Delete has removed

vars == <<nodes, entryPoint, hasEntry, maxLevel, cut, deletes>>

Distance(v, w) == (v - w) * (v - w)

Nearer(g, q, a, b) == Distance(q, g[a].vec) < Distance(q, g[b].vec)

Nearest(g, q, S) == CHOOSE a \in S : \A b \in S : ~ Nearer(g, q, b, a)

Farthest(g, q, S) == CHOOSE a \in S : \A b \in S : ~ Nearer(g, q, a, b)

(* The elements of S, nearest to q first.                                  *)
ByDistance(g, q, S) ==
  [i \in 1 .. Cardinality(S) |->
     CHOOSE a \in S : Cardinality({b \in S : Nearer(g, q, b, a)}) = i - 1]

First(s, n) == IF Len(s) <= n THEN s ELSE SubSeq(s, 1, n)

Least(a, b) == IF a < b THEN a ELSE b

Most(a, b) == IF a < b THEN b ELSE a

(* The list of node a on level l; a node has no list above its own level.  *)
List(g, a, l) == IF l \in DOMAIN g[a].nbrs THEN g[a].nbrs[l] ELSE << >>

----------------------------------------------------------------------------
(* searchLayer: best-first search on one level.  "cand" and "res" are the  *)
(* two heaps, "seen" is visited.                                           *)

Mut_Visit(g, q, ef, st, n) ==
  LET known == [st EXCEPT !.seen = @ \cup {n}]
  IN  IF n \in st.seen THEN st
      ELSE IF n \notin DOMAIN g \/ ~ Nearer(g, q, n, Farthest(g, q, st.res))
           THEN known
      ELSE LET all == st.res \cup {n}
           IN [known EXCEPT
                 !.cand = @ \cup {n},
                 !.res = IF Cardinality(all) > ef
                         THEN all \ {Farthest(g, q, all)} ELSE all]

Visit(g, q, ef, st, n) ==
  LET known == [st EXCEPT !.seen = @ \cup {n}]
  IN  IF n \in st.seen THEN st
      ELSE IF \/ n \notin DOMAIN g
              \/ /\ Cardinality(st.res) >= ef
                 /\ ~ Nearer(g, q, n, Farthest(g, q, st.res))
           THEN known
      ELSE LET all == st.res \cup {n}
           IN [known EXCEPT
                 !.cand = @ \cup {n},
                 !.res = IF Cardinality(all) > ef
                         THEN all \ {Farthest(g, q, all)} ELSE all]

RECURSIVE Explore(_, _, _, _, _)
Explore(g, q, ef, l, st) ==
  IF st.cand = {} THEN st.res
  ELSE LET c == Nearest(g, q, st.cand)
           rest == [st EXCEPT !.cand = @ \ {c}]
       IN  IF /\ Cardinality(st.res) >= ef
              /\ Nearer(g, q, Farthest(g, q, st.res), c)
           THEN st.res
           ELSE Explore(g, q, ef, l,
                        FoldLeft(LAMBDA s, n : Visit(g, q, ef, s, n),
                                 rest, List(g, c, l)))

searchLayer(g, q, ep, ef, l) ==
  IF ep \notin DOMAIN g THEN << >>
  ELSE ByDistance(g, q, Explore(g, q, ef, l, [cand |-> {ep}, res |-> {ep},
                                              seen |-> {ep}]))

(* The descent of addUnlocked and Search: ef = 1 on levels from .. to + 1. *)
RECURSIVE Descend(_, _, _, _, _)
Descend(g, q, ep, from, to) ==
  IF from <= to THEN ep
  ELSE Descend(g, q, searchLayer(g, q, ep, 1, from)[1], from - 1, to)

----------------------------------------------------------------------------
(* Linking a new node.                                                     *)

selectNeighbors(s) == First(s, M)

(* The list that replaces s: the first M entries that name a node, in the  *)
(* order in which they were linked.  The node being added is not in g yet. *)
pruneConnections(g, s) ==
  selectNeighbors(SelectSeq(s, LAMBDA n : n \in DOMAIN g))

(* addConnection; st.cut records the lists that were pruned.               *)
Mut_addConnection(st, src, tgt, l) ==
  IF src \notin DOMAIN st.g \/ l \notin DOMAIN st.g[src].nbrs
  THEN st
  ELSE LET s == Append(st.g[src].nbrs[l], tgt)
       IN  IF Len(s) > 2 * M
           THEN [st EXCEPT !.g[src].nbrs[l] = pruneConnections(st.g, s),
                           !.cut = @ \cup {<<src, l>>}]
           ELSE [st EXCEPT !.g[src].nbrs[l] = s]

addConnection(st, src, tgt, l) ==
  IF \/ src \notin DOMAIN st.g
     \/ l \notin DOMAIN st.g[src].nbrs
     \/ tgt \in Range(st.g[src].nbrs[l])
  THEN st
  ELSE LET s == Append(st.g[src].nbrs[l], tgt)
       IN  IF Len(s) > 2 * M
           THEN [st EXCEPT !.g[src].nbrs[l] = pruneConnections(st.g, s),
                           !.cut = @ \cup {<<src, l>>}]
           ELSE [st EXCEPT !.g[src].nbrs[l] = s]

(* The insertion loop of addUnlocked, from level l down to 0.              *)
Mut_Link(st, id, v, l) ==
  LET found  == searchLayer(st.g, v, st.ep, EfConstruction, l)
      chosen == selectNeighbors(found)
      back   == FoldLeft(LAMBDA s, n : addConnection(s, n, id, l), st, chosen)
  IN  [back EXCEPT !.nbrs[l] = chosen, !.ep = found[1]]

RECURSIVE Link(_, _, _, _)
Link(st, id, v, l) ==
  LET found  == searchLayer(st.g, v, st.ep, EfConstruction, l)
      chosen == selectNeighbors(found)
      back   == FoldLeft(LAMBDA s, n : addConnection(s, n, id, l), st, chosen)
      next   == [back EXCEPT !.nbrs[l] = chosen, !.ep = found[1]]
  IN  IF l = 0 THEN next ELSE Link(next, id, v, l - 1)

Linked(id, v, level) ==
  Link([g |-> nodes, cut |-> cut,
        ep |-> Descend(nodes, v, entryPoint, maxLevel, level),
        nbrs |-> [l \in 0 .. level |-> << >>]],
       id, v, Least(level, maxLevel))

----------------------------------------------------------------------------
Init ==
  /\ nodes = << >>
  /\ entryPoint = 0
  /\ hasEntry = FALSE
  /\ maxLevel = 0
  /\ cut = {}
  /\ deletes = 0

(* addUnlocked of a vector that is at no other node's distance.  An id in  *)
(* use is refused before anything changes.                                 *)
Add(id, v, level) ==
  /\ id \notin DOMAIN nodes
  /\ \A a \in DOMAIN nodes : nodes[a].vec # v
  /\ LET new == IF hasEntry THEN Linked(id, v, level)
                ELSE [g |-> nodes, cut |-> cut,
                      nbrs |-> [l \in 0 .. level |-> << >>]]
     IN  /\ nodes' = [a \in DOMAIN nodes \cup {id} |->
                        IF a = id
                        THEN [vec |-> v, level |-> level, nbrs |-> new.nbrs]
                        ELSE new.g[a]]
         /\ cut' = new.cut
  /\ hasEntry' = TRUE
  /\ IF ~ hasEntry \/ level > maxLevel
     THEN maxLevel' = level /\ entryPoint' = id
     ELSE UNCHANGED <<maxLevel, entryPoint>>
  /\ UNCHANGED deletes

(* The lists of node a once removeConnection has dropped id from those     *)
(* that id's own lists name.                                               *)
Mut_removeConnection(a, id) ==
  [l \in DOMAIN nodes[a].nbrs |->
     IF l = 0 /\ a \in Range(List(nodes, id, l))
     THEN SelectSeq(nodes[a].nbrs[l], LAMBDA n : n # id)
     ELSE nodes[a].nbrs[l]]

removeConnection(a, id) ==
  [l \in DOMAIN nodes[a].nbrs |->
     IF a \in Range(List(nodes, id, l))
     THEN SelectSeq(nodes[a].nbrs[l], LAMBDA n : n # id)
     ELSE nodes[a].nbrs[l]]

(* updateEntryPoint walks the map in an order Go does not define: any node *)
(* of the highest level can become the entry point.                        *)
Mut_updateEntryPoint(rest) ==
  IF rest = {}
  THEN hasEntry' = FALSE /\ maxLevel' = 0 /\ UNCHANGED entryPoint
  ELSE \E a \in rest :
         hasEntry' = TRUE /\ entryPoint' = a /\ maxLevel' = nodes[a].level

updateEntryPoint(rest) ==
  IF rest = {}
  THEN hasEntry' = FALSE /\ maxLevel' = 0 /\ UNCHANGED entryPoint
  ELSE \E a \in rest :
         /\ \A b \in rest : nodes[b].level <= nodes[a].level
         /\ hasEntry' = TRUE /\ entryPoint' = a /\ maxLevel' = nodes[a].level

Delete(id) ==
  /\ deletes < MaxDeletes
  /\ id \in DOMAIN nodes
  /\ nodes' = [a \in DOMAIN nodes \ {id} |->
                 [nodes[a] EXCEPT !.nbrs = removeConnection(a, id)]]
  /\ IF entryPoint = id THEN updateEntryPoint(DOMAIN nodes \ {id})
     ELSE UNCHANGED <<hasEntry, entryPoint, maxLevel>>
  /\ deletes' = deletes + 1
  /\ UNCHANGED cut

Next ==
  \/ \E id \in ID, v \in Vector, level \in Level : Add(id, v, level)
  \/ \E id \in ID : Delete(id)

Spec == Init /\ [][Next]_vars

----------------------------------------------------------------------------
(* Queries.                                                                *)

(* Search for k results of the filter F; an empty filter is no filter, and *)
(* the loop tests its bound after it has added a result.                   *)
Mut_Search(q, k, F) ==
  IF ~ hasEntry THEN << >>
  ELSE LET n  == Least(k, Cardinality(DOMAIN nodes))
           ep == Descend(nodes, q, entryPoint, maxLevel, 0)
           found == First(searchLayer(nodes, q, ep, Most(n, EfSearch), 0), k)
       IN  SelectSeq(found, LAMBDA a : F = {} \/ a \in F)

Search(q, k, F) ==
  IF ~ hasEntry THEN << >>
  ELSE LET n  == IF F = {} THEN k ELSE Least(10 * k, Cardinality(DOMAIN nodes))
           ep == Descend(nodes, q, entryPoint, maxLevel, 0)
           found == searchLayer(nodes, q, ep, Most(n, EfSearch), 0)
       IN  First(SelectSeq(found, LAMBDA a : F = {} \/ a \in F), Most(k, 1))

----------------------------------------------------------------------------
(* The file.  A cell is one number of the format; the offsets that Save    *)
(* stores and Load ignores are left out, and so are magic, dimension and   *)
(* metric, the same on both sides.                                         *)

SortedIDs ==
  [i \in 1 .. Cardinality(DOMAIN nodes) |->
     CHOOSE a \in DOMAIN nodes :
       Cardinality({b \in DOMAIN nodes : b < a}) = i - 1]

(* levelCount, and for every level its count and its ids.                  *)
Mut_ListCells(n) ==
  <<n.level>> \o FlattenSeq([i \in 1 .. n.level |->
                               <<Len(n.nbrs[i - 1])>> \o n.nbrs[i - 1]])

ListCells(n) ==
  <<n.level + 1>> \o FlattenSeq([i \in 1 .. n.level + 1 |->
                                   <<Len(n.nbrs[i - 1])>> \o n.nbrs[i - 1]])

Save ==
  LET ids == SortedIDs
      n   == Len(ids)
  IN  <<n, entryPoint, maxLevel, IF hasEntry THEN 1 ELSE 0>>
      \o FlattenSeq([i \in 1 .. n |-> <<ids[i], nodes[ids[i]].level>>])
      \o [i \in 1 .. n |-> nodes[ids[i]].vec]
      \o FlattenSeq([i \in 1 .. n |-> ListCells(nodes[ids[i]])])

(* n lists read from position p of f, and the position after them; 0 when  *)
(* the file ends too soon.                                                 *)
RECURSIVE ReadLists(_, _, _)
ReadLists(f, p, n) ==
  IF n = 0 THEN [pos |-> p, lists |-> << >>]
  ELSE IF p > Len(f) \/ p + f[p] > Len(f) THEN [pos |-> 0, lists |-> << >>]
  ELSE LET rest == ReadLists(f, p + 1 + f[p], n - 1)
       IN  [rest EXCEPT !.lists = <<SubSeq(f, p + 1, p + f[p])>> \o @]

(* The neighbour lists of n nodes from position p on, the same way.        *)
RECURSIVE ReadNeighbours(_, _, _)
ReadNeighbours(f, p, n) ==
  IF n = 0 THEN [pos |-> p, nodes |-> << >>]
  ELSE IF p > Len(f) THEN [pos |-> 0, nodes |-> << >>]
  ELSE LET one == ReadLists(f, p + 1, f[p])
       IN  IF one.pos = 0 THEN [pos |-> 0, nodes |-> << >>]
           ELSE LET rest == ReadNeighbours(f, one.pos, n - 1)
                IN  [rest EXCEPT !.nodes = <<one.lists>> \o @]

Failed == [ok |-> FALSE]

(* Load: an error as soon as a read falls short, before anything has been  *)
(* assigned to hw.                                                         *)
Load(f) ==
  IF Len(f) < 4 \/ Len(f) < 4 + 3 * f[1] THEN Failed
  ELSE LET n  == f[1]
           id(i) == f[4 + 2 * i - 1]
           row(a) == CHOOSE i \in 1 .. n : id(i) = a
           rd == ReadNeighbours(f, 5 + 3 * n, n)
       IN  IF rd.pos = 0 THEN Failed
           ELSE [ok |-> TRUE, entryPoint |-> f[2], maxLevel |-> f[3],
                 hasEntry |-> f[4] = 1,
                 nodes |-> [a \in {id(i) : i \in 1 .. n} |->
                              LET i == row(a)
                              IN  [vec |-> f[4 + 2 * n + i],
                                   level |-> f[4 + 2 * i],
                                   nbrs |-> [l \in 0 .. Len(rd.nodes[i]) - 1
                                               |-> rd.nodes[i][l + 1]]]]]

----------------------------------------------------------------------------
(* Reference definitions.                                                  *)

(* The nodes that can be reached from those of S over the lists of level l.*)
RECURSIVE Reach(_, _)
Reach(S, l) ==
  LET more == S \cup {b \in DOMAIN nodes :
                        \E a \in S : b \in Range(List(nodes, a, l))}
  IN  IF more = S THEN S ELSE Reach(more, l)

(* The k elements of S that are nearest to q, nearest first.               *)
KNearest(q, k, S) == First(ByDistance(nodes, q, S), k)

----------------------------------------------------------------------------
(* The shape of the graph: every node has a list for each of its levels.   *)
TypeOK ==
  /\ DOMAIN nodes \subseteq ID
  /\ \A a \in DOMAIN nodes :
       /\ nodes[a].vec \in Vector
       /\ nodes[a].level \in Level
       /\ DOMAIN nodes[a].nbrs = 0 .. nodes[a].level
       /\ \A l \in 0 .. nodes[a].level : Range(nodes[a].nbrs[l]) \subseteq ID
  /\ hasEntry \in BOOLEAN
  /\ deletes \in 0 .. MaxDeletes
  /\ maxLevel \in Level
  /\ cut \subseteq ID \X Level

(* The entry point is a node of the highest level and MaxLevel is that     *)
(* level, after any additions and deletions: addUnlocked indexes the       *)
(* result of searchLayer without a test and would panic on a missing node, *)
(* and a level above the entry point's would never be searched.            *)
EntryPointOnTop ==
  /\ hasEntry <=> DOMAIN nodes # {}
  /\ hasEntry => /\ entryPoint \in DOMAIN nodes
                 /\ nodes[entryPoint].level = maxLevel
                 /\ \A a \in DOMAIN nodes : nodes[a].level <= maxLevel

(* A list names no id twice, never its own node, and at most 2 * M ids,    *)
(* although ids are reused while stale links to them remain.               *)
ListsBounded ==
  TypeOK /\ \A a \in DOMAIN nodes : \A l \in 0 .. nodes[a].level :
    LET s == nodes[a].nbrs[l]
    IN  /\ Len(s) <= 2 * M
        /\ a \notin Range(s)
        /\ Cardinality(Range(s)) = Len(s)

(* A link from a to b is answered by a link back on the same level, and b  *)
(* exists, unless b's list on that level has once been pruned: pruning is  *)
(* the only thing that leaves one-way links, and with them links to nodes  *)
(* that Delete has removed.                                                *)
OneWayOnlyAfterPruning ==
  \A a \in DOMAIN nodes : \A l \in 0 .. nodes[a].level :
    \A b \in Range(nodes[a].nbrs[l]) :
      \/ <<b, l>> \in cut
      \/ b \in DOMAIN nodes /\ a \in Range(List(nodes, b, l))

(* Until a list is pruned or a node is deleted, every node is reached from *)
(* the entry point on each of its levels, so that no vector is lost to     *)
(* Search.                                                                 *)
ReachableUntilCut ==
  (cut = {} /\ deletes = 0 /\ hasEntry) =>
    \A l \in Level :
      LET start == Descend(nodes, nodes[entryPoint].vec, entryPoint,
                           maxLevel, l)
      IN  {a \in DOMAIN nodes : nodes[a].level >= l} \subseteq Reach({start}, l)

(* searchLayer with a breadth no smaller than the index finds exactly the  *)
(* nodes that can be reached, in order; with breadth 1 it stops at a node  *)
(* none of whose neighbours is nearer.                                     *)
LayerSearchExact ==
  \A ep \in DOMAIN nodes, q \in Query, l \in Level :
    /\ searchLayer(nodes, q, ep, Cardinality(ID), l) =
         KNearest(q, Cardinality(ID), Reach({ep}, l))
    /\ LET one == searchLayer(nodes, q, ep, 1, l)
       IN  /\ Len(one) = 1
           /\ \A b \in Range(List(nodes, one[1], l)) \cap DOMAIN nodes :
                ~ Nearer(nodes, q, b, one[1])

(* While the index is no larger than EfSearch, Search with a filter gives  *)
(* the k nearest nodes of the filter among those reached on level 0: the   *)
(* filter is applied before the cut to k results.  (Filters of k + 1 ids,  *)
(* the smallest that leave something to cut.)                              *)
FilteredSearchExact ==
  (hasEntry /\ Cardinality(DOMAIN nodes) <= EfSearch) =>
    \A q \in Query, k \in 1 .. 2 : \A F \in kSubset(k + 1, DOMAIN nodes) :
      LET ep == Descend(nodes, q, entryPoint, maxLevel, 0)
      IN  Search(q, k, F) = KNearest(q, k, Reach({ep}, 0) \cap F)

(* Load gives back the graph that Save wrote, one-way links and links to   *)
(* removed nodes included, and reports every shorter file as an error.     *)
FileExact ==
  LET f == Save
  IN  /\ Load(f) = [ok |-> TRUE, nodes |-> nodes, entryPoint |-> entryPoint,
                    hasEntry |-> hasEntry, maxLevel |-> maxLevel]
      /\ \A n \in 0 .. Len(f) - 1 : Load(SubSeq(f, 1, n)) = Failed
============================================================================
