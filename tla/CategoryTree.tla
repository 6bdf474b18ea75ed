------------------------------ MODULE CategoryTree ------------------------------
(***************************************************************************)
(* Product categories: products.service.ts.  Each keeps its parent and,    *)
(* computed from it, its level and the path from the root, by which its    *)
(* descendants are found when it moves.                                    *)
(***************************************************************************)
EXTENDS Requests, SequencesExt

CONSTANTS
  ProductCategories,
  Root,           \* the parent of a category that has none
  MaxDepth        \* bound on the length of a path

ASSUME CategoryTreeAssumption == Root \notin ProductCategories /\ MaxDepth \in Nat

VARIABLE category \* product_categories

categoryTreeTables == <<category>>
categoryTreeVars == <<categoryTreeTables, call>>

Paths == BoundedSeq(ProductCategories, MaxDepth)
Parents == ProductCategories \cup {Root}
CategoryRow == [exists : BOOLEAN, parent : Parents, level : Int, path : Paths]
NoCategory == [exists |-> FALSE, parent |-> Root, level |-> 0, path |-> <<>>]

(* What a call has read of the parent: of none, the empty path. *)
Above(p) == IF p = Root THEN [level |-> -1, path |-> <<>>]
            ELSE [level |-> category[p].level, path |-> category[p].path]

CategoryTreeCall ==
  [op : {"createCategory", "moveCategory"}, doc : ProductCategories, to : Parents,
   above : [level : Int, path : Paths], path : Paths]

CategoryTreeInit ==
  /\ category = [c \in ProductCategories |-> NoCategory]
  /\ CallsInit

CategoryExists(p) == p # Root => category[p].exists

StartCreateCategory(u, c, p) ==
  /\ ~ category[c].exists /\ CategoryExists(p)
  /\ Enter(u, [op |-> "createCategory", doc |-> c, to |-> p, above |-> Above(p), path |-> <<>>])
  /\ UNCHANGED categoryTreeTables

FinishCreateCategory(u) ==
  LET c == call[u]
  IN  /\ c.op = "createCategory"
      /\ ~ category[c.doc].exists
      /\ Len(c.above.path) < MaxDepth
      /\ category' = [category EXCEPT ![c.doc] =
                        [exists |-> TRUE, parent |-> c.to, level |-> c.above.level + 1,
                         path |-> Append(c.above.path, c.doc)]]
      /\ Leave(u)

Cyclic(c, p) == p # Root /\ Contains(category[p].path, c)

(* updateCategoryParent reads the node and the new parent, whose path must *)
(* not pass through the node; the two queries are taken as one.            *)
StartMove(u, c, p) ==
  /\ category[c].exists /\ CategoryExists(p)
  /\ ~ Cyclic(c, p)
  /\ Enter(u, [op |-> "moveCategory", doc |-> c, to |-> p, above |-> Above(p), path |-> category[c].path])
  /\ UNCHANGED categoryTreeTables

(* Mutant: the descendants keep their paths. *)
Repath_NodeOnly(row, from, to, shift) == row

(* A row whose path passes below the old path: its prefix is replaced, its *)
(* level moves by as much as the node's.                                   *)
Repath(row, from, to, shift) ==
  IF IsStrictPrefix(from, row.path)
  THEN [row EXCEPT !.path = to \o SubSeq(@, Len(from) + 1, Len(@)), !.level = @ + shift]
  ELSE row

NodeAfter(c, p, above) ==
  [category[c] EXCEPT !.parent = p, !.level = above.level + 1, !.path = Append(above.path, c)]

(* Every category once c is put under p: the old level is taken to be what *)
(* the old path says it was.                                               *)
TreeAfter(c, p, above, old) ==
  [d \in ProductCategories |->
     Repath(IF d = c THEN NodeAfter(c, p, above) ELSE category[d],
            old, Append(above.path, c), (above.level + 1) - (Len(old) - 1))]

FinishMove(u) ==
  LET c     == call[u]
      after == TreeAfter(c.doc, c.to, c.above, c.path)
  IN  /\ c.op = "moveCategory"
      /\ \A d \in ProductCategories : Len(after[d].path) <= MaxDepth
      /\ category' = after
      /\ Leave(u)

CategoryFails(u) == Fails(u) /\ UNCHANGED categoryTreeTables

CategoryTreeNext ==
  \E u \in Users :
    \/ \E c \in ProductCategories, p \in Parents :
         c # p /\ (StartCreateCategory(u, c, p) \/ StartMove(u, c, p))
    \/ FinishCreateCategory(u) \/ FinishMove(u) \/ CategoryFails(u)

CategoryTreeSpec == CategoryTreeInit /\ [][CategoryTreeNext]_categoryTreeVars

-----------------------------------------------------------------------------
CategoryTreeTypeOK ==
  /\ category \in [ProductCategories -> CategoryRow]
  /\ call \in [Users -> CategoryTreeCall \cup {NoCall}]

(* Every path is the parent's with one more name, every level one more:    *)
(* so no category is its own ancestor.                                     *)
TreeSound ==
  \A c \in ProductCategories : category[c].exists =>
    LET above == Above(category[c].parent)
    IN  category[c].path = Append(above.path, c) /\ category[c].level = above.level + 1

(* What a call that writes has read is what the table still says. *)
ReadsCurrent ==
  \A u \in Users : call[u].op \in {"createCategory", "moveCategory"} =>
    /\ call[u].above = Above(call[u].to)
    /\ call[u].path = category[call[u].doc].path

(* A move takes its whole subtree along, and never puts a category under   *)
(* itself: a tree that is sound stays so, unless another move or creation  *)
(* overlaps and leaves a call with what it read before.                    *)
MoveKeepsTree == [][TreeSound /\ ReadsCurrent => TreeSound']_categoryTreeVars
=============================================================================
