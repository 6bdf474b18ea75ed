---------------------------- MODULE Documents_proofs ----------------------------
(***************************************************************************)
(* Proofs about requests that overlap: the components that Business_proofs *)
(* does not have, which are the tree of categories, prices, licences and   *)
(* their billing, settings, policies, the stock rules, campaigns and the   *)
(* audit trail, and the composition of all of them.                        *)
(***************************************************************************)
EXTENDS MCDocuments, Business_proofs

-----------------------------------------------------------------------------
(* The tree of product categories.                                         *)

LEMMA PathsAre ==
  ASSUME NEW path
  PROVE  path \in Paths <=> path \in Seq(ProductCategories) /\ Len(path) <= MaxDepth
  <1>1. ASSUME path \in Paths
        PROVE  path \in Seq(ProductCategories) /\ Len(path) <= MaxDepth
    <2>1. PICK n \in 0..MaxDepth : path \in [1..n -> ProductCategories]
      BY <1>1 DEF Paths, BoundedSeq, SeqOf
    <2>2. n \in Nat /\ n <= MaxDepth  BY CategoryTreeAssumption DEF CategoryTreeAssumption
    <2> QED  BY <2>1, <2>2
  <1>2. ASSUME path \in Seq(ProductCategories), Len(path) <= MaxDepth
        PROVE  path \in Paths
    <2>1. Len(path) \in 0..MaxDepth /\ path \in [1..Len(path) -> ProductCategories]
      BY <1>2, CategoryTreeAssumption DEF CategoryTreeAssumption
    <2> QED  BY <2>1 DEF Paths, BoundedSeq, SeqOf
  <1> QED  BY <1>1, <1>2

LEMMA EmptyPath == <<>> \in Paths
  <1>1. <<>> \in [1..0 -> ProductCategories]  OBVIOUS
  <1>2. 0 \in 0..MaxDepth  BY CategoryTreeAssumption DEF CategoryTreeAssumption
  <1> QED  BY <1>1, <1>2 DEF Paths, BoundedSeq, SeqOf

LEMMA AboveRead ==
  ASSUME CategoryTreeTypeOK, NEW p \in Parents
  PROVE  Above(p) \in [level : Int, path : Paths]
  <1>1. CASE p = Root
    <2>1. <<>> \in Paths  BY EmptyPath
    <2> QED  BY <1>1, <2>1 DEF Above
  <1>2. CASE p # Root
    <2>1. category[p] \in CategoryRow  BY <1>2 DEF CategoryTreeTypeOK, Parents
    <2>2. category[p].level \in Int /\ category[p].path \in Paths  BY <2>1 DEF CategoryRow
    <2> QED  BY <1>2, <2>2 DEF Above
  <1> QED  BY <1>1, <1>2

CategoryRowOfAnyDepth ==
  [exists : BOOLEAN, parent : Parents, level : Int, path : Seq(ProductCategories)]

(* A row below a moved category takes the new path of its ancestor.        *)
LEMMA RepathOK ==
  ASSUME NEW row \in CategoryRowOfAnyDepth, NEW from \in Paths, NEW to \in Seq(ProductCategories),
         NEW shift \in Int,
         Len(Repath(row, from, to, shift).path) <= MaxDepth
  PROVE  Repath(row, from, to, shift) \in CategoryRow
  <1> DEFINE rest == SubSeq(row.path, Len(from) + 1, Len(row.path))  path == to \o rest
             level == row.level + shift
  <1>1. CASE IsStrictPrefix(from, row.path)
    <2>1. row.path \in Seq(ProductCategories) /\ row.level \in Int /\ from \in Seq(ProductCategories)
      BY PathsAre DEF CategoryRowOfAnyDepth
    <2>2. rest \in Seq(ProductCategories)  BY <2>1
    <2>3. path \in Seq(ProductCategories) /\ level \in Int  BY <2>1, <2>2
    <2>4. Repath(row, from, to, shift) = [row EXCEPT !.path = path, !.level = level]
      BY <1>1 DEF Repath
    <2> HIDE DEF path, level
    <2>5. [row EXCEPT !.path = path, !.level = level].path = path  BY DEF CategoryRowOfAnyDepth
    <2>6. path \in Paths  BY <2>3, <2>4, <2>5, PathsAre
    <2>7. [row EXCEPT !.path = path, !.level = level] \in CategoryRow
      BY <2>3, <2>6 DEF CategoryRow, CategoryRowOfAnyDepth
    <2> QED  BY <2>4, <2>7
  <1>2. CASE ~ IsStrictPrefix(from, row.path)
    <2>1. Repath(row, from, to, shift) = row  BY <1>2 DEF Repath
    <2>2. row.path \in Paths  BY <2>1, PathsAre DEF CategoryRowOfAnyDepth
    <2> QED  BY <2>1, <2>2 DEF CategoryRow, CategoryRowOfAnyDepth
  <1> QED  BY <1>1, <1>2

(* What a move writes of each category.                                    *)
LEMMA TreeAfterAt ==
  ASSUME NEW c, NEW p, NEW above, NEW from, NEW d \in ProductCategories
  PROVE  TreeAfter(c, p, above, from)[d] =
           Repath(IF d = c THEN NodeAfter(c, p, above) ELSE category[d],
                  from, Append(above.path, c), (above.level + 1) - (Len(from) - 1))
  BY DEF TreeAfter

NodeIs(row, c, p, level, path) ==
  /\ row.exists = category[c].exists /\ row.parent = p /\ row.level = level /\ row.path = path
  /\ row \in [exists : BOOLEAN, parent : Parents, level : {level}, path : {path}]

LEMMA NodeAfterIs ==
  ASSUME category \in [ProductCategories -> CategoryRow], NEW c \in ProductCategories,
         NEW p \in Parents, NEW above
  PROVE  NodeIs(NodeAfter(c, p, above), c, p, above.level + 1, Append(above.path, c))
  <1>1. PICK level, path : level = above.level + 1 /\ path = Append(above.path, c)  OBVIOUS
  <1>2. NodeAfter(c, p, above) = [category[c] EXCEPT !.parent = p, !.level = level, !.path = path]
    BY <1>1 DEF NodeAfter
  <1>3. category[c] \in CategoryRow  OBVIOUS
  <1>4. NodeIs(NodeAfter(c, p, above), c, p, level, path)  BY <1>2, <1>3 DEF CategoryRow, NodeIs
  <1> QED  BY <1>1, <1>4

LEMMA CategoryTreeInductive ==
  ASSUME CategoryTreeTypeOK, [CategoryTreeNext]_categoryTreeVars
  PROVE  CategoryTreeTypeOK'
  <1> USE CategoryTreeAssumption DEF CategoryTreeAssumption
  <1>0. /\ call \in [Users -> CategoryTreeCall \cup {NoCall}]
        /\ category \in [ProductCategories -> CategoryRow]
    BY DEF CategoryTreeTypeOK
  <1>1. ASSUME NEW u \in Users, NEW c \in CategoryTreeCall \cup {NoCall}, call' = [call EXCEPT ![u] = c]
        PROVE  call' \in [Users -> CategoryTreeCall \cup {NoCall}]
    BY <1>0, <1>1
  <1>2. ASSUME NEW u \in Users, Leave(u)
        PROVE  call' \in [Users -> CategoryTreeCall \cup {NoCall}]
    BY <1>1, <1>2 DEF Leave
  <1>3. ASSUME NEW u \in Users, call[u].op \in {"createCategory", "moveCategory"}
        PROVE  /\ call[u].doc \in ProductCategories /\ call[u].to \in Parents
               /\ call[u].above.level \in Int /\ call[u].above.path \in Paths /\ call[u].path \in Paths
    <2>1. call[u] \in CategoryTreeCall
      <3>1. NoCall.op = "idle"  BY DEF NoCall
      <3> QED  BY <1>0, <1>3, <3>1
    <2>2. /\ call[u].doc \in ProductCategories /\ call[u].to \in Parents /\ call[u].path \in Paths
          /\ call[u].above \in [level : Int, path : Paths]
      BY <2>1 DEF CategoryTreeCall
    <2> QED  BY <2>2
  <1>4. ASSUME NEW u \in Users, NEW c \in ProductCategories, NEW p \in Parents,
               StartCreateCategory(u, c, p)
        PROVE  CategoryTreeTypeOK'
    <2> DEFINE k == [op |-> "createCategory", doc |-> c, to |-> p, above |-> Above(p), path |-> <<>>]
    <2>1. <<>> \in Paths  BY EmptyPath
    <2>2. k \in CategoryTreeCall  BY <2>1, AboveRead DEF CategoryTreeCall
    <2>3. call' = [call EXCEPT ![u] = k]  BY <1>4 DEF StartCreateCategory, Enter
    <2> HIDE DEF k
    <2>4. call' \in [Users -> CategoryTreeCall \cup {NoCall}]  BY <1>1, <2>2, <2>3
    <2> QED  BY <1>0, <1>4, <2>4 DEF StartCreateCategory, categoryTreeTables, CategoryTreeTypeOK
  <1>5. ASSUME NEW u \in Users, NEW c \in ProductCategories, NEW p \in Parents, StartMove(u, c, p)
        PROVE  CategoryTreeTypeOK'
    <2> DEFINE k == [op |-> "moveCategory", doc |-> c, to |-> p, above |-> Above(p),
                     path |-> category[c].path]
    <2>1. category[c].path \in Paths  BY <1>0 DEF CategoryRow
    <2>2. k \in CategoryTreeCall  BY <2>1, AboveRead DEF CategoryTreeCall
    <2>3. call' = [call EXCEPT ![u] = k]  BY <1>5 DEF StartMove, Enter
    <2> HIDE DEF k
    <2>4. call' \in [Users -> CategoryTreeCall \cup {NoCall}]  BY <1>1, <2>2, <2>3
    <2> QED  BY <1>0, <1>5, <2>4 DEF StartMove, categoryTreeTables, CategoryTreeTypeOK
  <1>6. ASSUME NEW u \in Users, FinishCreateCategory(u)
        PROVE  CategoryTreeTypeOK'
    <2>1. PICK c \in ProductCategories, p \in Parents, level \in Int, above \in Paths :
            /\ c = call[u].doc /\ p = call[u].to
            /\ level = call[u].above.level /\ above = call[u].above.path
      BY <1>3, <1>6 DEF FinishCreateCategory
    <2> DEFINE row == [exists |-> TRUE, parent |-> p, level |-> level + 1, path |-> Append(above, c)]
    <2>2. Len(above) < MaxDepth /\ category' = [category EXCEPT ![c] = row]
      BY <1>6, <2>1 DEF FinishCreateCategory
    <2>3. above \in Seq(ProductCategories)  BY PathsAre
    <2>4. Append(above, c) \in Seq(ProductCategories) /\ Len(Append(above, c)) <= MaxDepth
      BY <2>2, <2>3
    <2>5. Append(above, c) \in Paths  BY <2>4, PathsAre
    <2>6. row \in CategoryRow  BY <2>5 DEF CategoryRow
    <2> HIDE DEF row
    <2>7. category' \in [ProductCategories -> CategoryRow]  BY <1>0, <2>2, <2>6
    <2>8. call' \in [Users -> CategoryTreeCall \cup {NoCall}]  BY <1>2, <1>6 DEF FinishCreateCategory
    <2> QED  BY <2>7, <2>8 DEF CategoryTreeTypeOK
  <1>7. ASSUME NEW u \in Users, FinishMove(u)
        PROVE  CategoryTreeTypeOK'
    <2>0. PICK c, p, above, old :
            c = call[u].doc /\ p = call[u].to /\ above = call[u].above /\ old = call[u].path
      OBVIOUS
    <2>1. /\ c \in ProductCategories /\ p \in Parents /\ old \in Paths
          /\ above.level \in Int /\ above.path \in Paths
      <3>1. call[u].op = "moveCategory"  BY <1>7 DEF FinishMove
      <3> QED  BY <1>3, <2>0, <3>1
    <2>2. PICK level, path, shift :
            level = above.level + 1 /\ path = Append(above.path, c) /\ shift = level - (Len(old) - 1)
      OBVIOUS
    <2>3. path \in Seq(ProductCategories) /\ level \in Int /\ shift \in Int
      <3>1. above.path \in Seq(ProductCategories) /\ old \in Seq(ProductCategories)
        BY <2>1, PathsAre
      <3> QED  BY <2>1, <2>2, <3>1
    <2> DEFINE after == TreeAfter(c, p, above, old)
    <2>4. /\ category' = after
          /\ \A d \in ProductCategories : Len(after[d].path) <= MaxDepth
      BY <1>7, <2>0 DEF FinishMove
    <2>5. PICK row : row = NodeAfter(c, p, above)  OBVIOUS
    <2>6. \A d \in ProductCategories : category[d] \in CategoryRowOfAnyDepth
      BY <1>0, PathsAre DEF CategoryRow, CategoryRowOfAnyDepth
    <2>7. row \in CategoryRowOfAnyDepth
      <3>1. row \in [exists : BOOLEAN, parent : Parents, level : {level}, path : {path}]
        <4>1. NodeIs(row, c, p, above.level + 1, Append(above.path, c))  BY <1>0, <2>1, <2>5, NodeAfterIs
        <4> QED  BY <2>2, <4>1 DEF NodeIs
      <3> QED  BY <2>3, <3>1 DEF CategoryRowOfAnyDepth
    <2>8. after = [d \in ProductCategories |-> after[d]]  BY DEF TreeAfter
    <2> HIDE DEF after
    <2>9. ASSUME NEW d \in ProductCategories
          PROVE  after[d] \in CategoryRow
      <3>1. PICK r : r = IF d = c THEN row ELSE category[d]  OBVIOUS
      <3>2. r \in CategoryRowOfAnyDepth  BY <2>6, <2>7, <3>1
      <3>3. after[d] = Repath(r, old, path, shift)
        BY <2>2, <2>5, <3>1, TreeAfterAt DEF after
      <3>4. Len(Repath(r, old, path, shift).path) <= MaxDepth  BY <2>4, <3>3
      <3> QED  BY <2>1, <2>3, <3>2, <3>3, <3>4, RepathOK
    <2>10. after \in [ProductCategories -> CategoryRow]  BY <2>8, <2>9
    <2>11. call' \in [Users -> CategoryTreeCall \cup {NoCall}]  BY <1>2, <1>7 DEF FinishMove
    <2> QED  BY <2>4, <2>10, <2>11 DEF CategoryTreeTypeOK
  <1>8. ASSUME NEW u \in Users, CategoryFails(u)
        PROVE  CategoryTreeTypeOK'
    BY <1>0, <1>2, <1>8 DEF CategoryFails, Fails, categoryTreeTables, CategoryTreeTypeOK
  <1>9. CASE UNCHANGED categoryTreeVars
    BY <1>0, <1>9 DEF categoryTreeVars, categoryTreeTables, CategoryTreeTypeOK
  <1> QED  BY <1>4, <1>5, <1>6, <1>7, <1>8, <1>9 DEF CategoryTreeNext

LEMMA CategoryTreeStart == CategoryTreeInit => CategoryTreeTypeOK
  <1>1. <<>> \in Paths  BY EmptyPath
  <1>2. NoCategory \in CategoryRow  BY <1>1 DEF NoCategory, CategoryRow, Parents
  <1> QED  BY <1>2 DEF CategoryTreeInit, CallsInit, CategoryTreeTypeOK


-----------------------------------------------------------------------------
(* A move alone keeps the tree a tree.                                     *)

Begins(s, t) == Len(s) <= Len(t) /\ \A i \in 1..Len(s) : s[i] = t[i]

LEMMA PrefixIs ==
  ASSUME NEW S, NEW s \in Seq(S), NEW t \in Seq(S)
  PROVE  IsPrefix(s, t) <=> Begins(s, t)
  <1> USE DEF Begins
  <1>1. CASE Len(s) <= Len(t)
    <2>1. /\ SubSeq(s, 1, Len(s)) \in Seq(S) /\ Len(SubSeq(s, 1, Len(s))) = Len(s)
          /\ SubSeq(t, 1, Len(s)) \in Seq(S) /\ Len(SubSeq(t, 1, Len(s))) = Len(s)
      BY <1>1
    <2>2. \A i \in 1..Len(s) : SubSeq(s, 1, Len(s))[i] = s[i] /\ SubSeq(t, 1, Len(s))[i] = t[i]
      BY <1>1
    <2>3. SubSeq(s, 1, Len(s)) = SubSeq(t, 1, Len(s)) <=> \A i \in 1..Len(s) : s[i] = t[i]
      BY <2>1, <2>2
    <2> QED  BY <1>1, <2>3 DEF IsPrefix
  <1>2. CASE ~ (Len(s) <= Len(t))  BY <1>2 DEF IsPrefix
  <1> QED  BY <1>1, <1>2

(* What is below a path is below the parent's, and is what it is below.    *)
LEMMA BelowItsParent ==
  ASSUME NEW from \in Seq(ProductCategories), NEW q \in Seq(ProductCategories),
         NEW d \in ProductCategories, from # Append(q, d)
  PROVE  IsPrefix(from, Append(q, d)) <=> IsPrefix(from, q)
  <1> DEFINE t == Append(q, d)
  <1>1. t \in Seq(ProductCategories) /\ Len(t) = Len(q) + 1 /\ \A i \in 1..Len(q) : t[i] = q[i]  OBVIOUS
  <1>2. Len(from) = Len(q) + 1 => \E i \in 1..Len(from) : from[i] # t[i]  BY <1>1
  <1> HIDE DEF t
  <1>3. IsPrefix(from, t) <=> Begins(from, t)
    <2>1. t \in Seq(ProductCategories)  BY <1>1
    <2> QED  BY Zenon, <2>1, PrefixIs
  <1>4. IsPrefix(from, q) <=> Begins(from, q)  BY Zenon, PrefixIs
  <1>5. Len(from) \in Nat /\ Len(q) \in Nat  OBVIOUS
  <1>6. Begins(from, t) <=> Begins(from, q)  BY <1>1, <1>2, <1>5 DEF Begins
  <1> QED  BY <1>3, <1>4, <1>6 DEF t

(* The path that a category has once what is at one path is at another.    *)
MovedPath(path, from, to) ==
  IF IsPrefix(from, path) THEN to \o SubSeq(path, Len(from) + 1, Len(path)) ELSE path

LEMMA MovedIsSeq ==
  ASSUME NEW from \in Seq(ProductCategories), NEW to \in Seq(ProductCategories),
         NEW path \in Seq(ProductCategories)
  PROVE  MovedPath(path, from, to) \in Seq(ProductCategories)
  BY DEF MovedPath

LEMMA MovedItself ==
  ASSUME NEW from \in Seq(ProductCategories), NEW to \in Seq(ProductCategories)
  PROVE  IsPrefix(from, from) /\ MovedPath(from, from, to) = to
  <1>1. IsPrefix(from, from)
    <2>1. Begins(from, from)  BY DEF Begins
    <2> QED  BY Zenon, <2>1, PrefixIs
  <1>2. SubSeq(from, Len(from) + 1, Len(from)) = <<>>  OBVIOUS
  <1> QED  BY <1>1, <1>2 DEF MovedPath

(* It goes with its parent.                                                *)
RestIs(s, n, m) ==
  /\ SubSeq(s, n + 1, m) \in Seq(ProductCategories) /\ Len(SubSeq(s, n + 1, m)) = m - n
  /\ \A i \in 1..m - n : SubSeq(s, n + 1, m)[i] = s[n + i]

LEMMA RestOfPath ==
  ASSUME NEW s \in Seq(ProductCategories), NEW n \in Nat, NEW m \in Nat, m = Len(s), n <= m
  PROVE  RestIs(s, n, m)
  <1> DEFINE rest == SubSeq(s, n + 1, m)
  <1>1. rest \in Seq(ProductCategories)  OBVIOUS
  <1>2. Len(rest) = m - n  OBVIOUS
  <1>3. ASSUME NEW i \in 1..m - n PROVE rest[i] = s[n + i]
    OBVIOUS
  <1> QED  BY <1>1, <1>2, <1>3 DEF RestIs

GoesWithParent(q, d, from, to) == MovedPath(Append(q, d), from, to) = Append(MovedPath(q, from, to), d)

LEMMA MovesWithParent ==
  ASSUME NEW from \in Seq(ProductCategories), NEW to \in Seq(ProductCategories),
         NEW q \in Seq(ProductCategories), NEW d \in ProductCategories,
         from # Append(q, d)
  PROVE  GoesWithParent(q, d, from, to)
  <1> USE DEF GoesWithParent
  <1>1. CASE IsPrefix(from, q)
    <2> DEFINE n == Len(from)  m == Len(q)  rest == SubSeq(q, n + 1, m)
               more == SubSeq(Append(q, d), n + 1, m + 1)
    <2>0. Append(q, d) \in Seq(ProductCategories) /\ Len(Append(q, d)) = m + 1  OBVIOUS
    <2>1. n \in Nat /\ m \in Nat /\ n <= m
      <3>1. Begins(from, q)  BY Zenon, <1>1, PrefixIs
      <3> QED  BY <3>1 DEF Begins
    <2>2. /\ rest \in Seq(ProductCategories) /\ Len(rest) = m - n
          /\ \A i \in 1..m - n : rest[i] = q[n + i]
      BY <2>1
    <2>3. /\ more \in Seq(ProductCategories) /\ Len(more) = (m + 1) - n
          /\ \A i \in 1..(m + 1) - n : more[i] = Append(q, d)[n + i]
      <3>1. m + 1 \in Nat /\ n <= m + 1  BY <2>1
      <3> HIDE DEF n, m
      <3>2. RestIs(Append(q, d), n, m + 1)  BY Zenon, <2>0, <2>1, <3>1, RestOfPath
      <3> QED  BY <3>2 DEF RestIs
    <2>4. more = Append(rest, d)
      <3>1. Append(rest, d) \in Seq(ProductCategories) /\ Len(Append(rest, d)) = (m + 1) - n  BY <2>1, <2>2
      <3>2. \A i \in 1..(m + 1) - n : more[i] = Append(rest, d)[i]
        <4>1. \A i \in 1..m - n : more[i] = q[n + i] /\ Append(rest, d)[i] = rest[i]
          BY <2>1, <2>2, <2>3
        <4>2. more[(m + 1) - n] = d /\ Append(rest, d)[(m + 1) - n] = d  BY <2>1, <2>2, <2>3
        <4> HIDE DEF rest, more, n, m
        <4> QED  BY <2>1, <2>2, <4>1, <4>2
      <3> HIDE DEF rest, more, n, m
      <3> QED  BY <2>3, <3>1, <3>2
    <2>5. Len(Append(q, d)) = m + 1  OBVIOUS
    <2>6. MovedPath(Append(q, d), from, to) = to \o more
      BY <1>1, <2>5, BelowItsParent DEF MovedPath
    <2>7. MovedPath(q, from, to) = to \o rest  BY <1>1 DEF MovedPath
    <2> HIDE DEF rest, more
    <2>8. to \o Append(rest, d) = Append(to \o rest, d)  BY <2>2
    <2> QED  BY <2>4, <2>6, <2>7, <2>8
  <1>2. CASE ~ IsPrefix(from, q)
    BY <1>2, BelowItsParent DEF MovedPath
  <1> QED  BY <1>1, <1>2

(* The parent of a category exists, and so does what a call moves or puts  *)
(* it under, which does not pass through it.                               *)
ParentsExist ==
  \A c \in ProductCategories : category[c].exists => CategoryExists(category[c].parent)

ClimbsNoCycle ==
  \A u \in Users : call[u].op \in {"createCategory", "moveCategory"} =>
    /\ call[u].to # call[u].doc /\ CategoryExists(call[u].to)
    /\ call[u].op = "moveCategory" =>
         category[call[u].doc].exists /\ ~ Contains(call[u].above.path, call[u].doc)

TreeInv == CategoryTreeTypeOK /\ ParentsExist /\ ClimbsNoCycle

CategoryIs(c) ==
  /\ category[c].exists \in BOOLEAN /\ category[c].parent \in Parents
  /\ category[c].level \in Int /\ category[c].path \in Seq(ProductCategories)

LEMMA CategoryFields ==
  ASSUME CategoryTreeTypeOK, NEW c \in ProductCategories
  PROVE  CategoryIs(c)
  <1>1. category[c] \in CategoryRow  BY DEF CategoryTreeTypeOK
  <1>2. category[c].path \in Paths  BY <1>1 DEF CategoryRow
  <1> QED  BY <1>1, <1>2, PathsAre DEF CategoryRow, CategoryIs

(* In a tree that is sound the level is what the path says: if not, take a *)
(* category with the shortest path of those it is not so of; it has a      *)
(* parent, of which it is not so either, and whose path is shorter.        *)
LEMMA LevelIsDepth ==
  ASSUME CategoryTreeTypeOK, ParentsExist, TreeSound,
         NEW c \in ProductCategories, category[c].exists
  PROVE  category[c].level = Len(category[c].path) - 1
  <1> DEFINE Odd == {d \in ProductCategories :
                       category[d].exists /\ category[d].level # Len(category[d].path) - 1}
             Depths == {Len(category[d].path) : d \in Odd}
  <1>1. SUFFICES ASSUME Odd # {} PROVE FALSE
    OBVIOUS
  <1>2. \A d \in ProductCategories : Len(category[d].path) \in Nat
    BY CategoryFields DEF CategoryIs
  <1>3. PICK n \in Depths : \A m \in Depths : n <= m
    <2>1. Depths \in SUBSET Nat /\ Depths # {}  BY <1>1, <1>2
    <2> HIDE DEF Depths
    <2> QED  BY <2>1, LeastNumber
  <1>4. PICK d \in Odd : n = Len(category[d].path)  OBVIOUS
  <1>8. /\ d \in ProductCategories /\ category[d].exists
        /\ category[d].level # Len(category[d].path) - 1
    OBVIOUS
  <1>9. \A e \in ProductCategories :
          category[e].exists /\ category[e].level # Len(category[e].path) - 1
            => n <= Len(category[e].path)
    BY <1>3
  <1> HIDE DEF Odd, Depths
  <1> DEFINE q == category[d].parent
  <1>5. /\ CategoryIs(d) /\ category[d].exists /\ CategoryExists(q)
        /\ category[d].path = Append(Above(q).path, d) /\ category[d].level = Above(q).level + 1
    BY <1>8, CategoryFields DEF ParentsExist, TreeSound
  <1>6. CASE q = Root
    <2>1. category[d].path = Append(<<>>, d) /\ category[d].level = -1 + 1
      BY <1>5, <1>6 DEF Above
    <2>2. Append(<<>>, d) = <<d>>  OBVIOUS
    <2>3. Len(category[d].path) = 1 /\ category[d].level = 0  BY <2>1, <2>2
    <2> QED  BY <1>8, <2>3
  <1>7. CASE q # Root
    <2>1. q \in ProductCategories /\ category[q].exists
      BY <1>5, <1>7 DEF CategoryIs, Parents, CategoryExists
    <2>2. category[d].path = Append(category[q].path, d) /\ category[d].level = category[q].level + 1
      BY <1>5, <1>7 DEF Above
    <2>3. CategoryIs(q)  BY <2>1, CategoryFields
    <2>4. Len(category[d].path) = Len(category[q].path) + 1  BY <2>2, <2>3 DEF CategoryIs
    <2>5. category[q].level # Len(category[q].path) - 1
      BY <1>8, <2>2, <2>3, <2>4 DEF CategoryIs
    <2> QED  BY <1>2, <1>4, <1>9, <2>1, <2>4, <2>5
  <1> QED  BY <1>6, <1>7

(* A move of c to p, from a path to another, makes every category what it  *)
(* is to be: a path below the node's is moved, and the level with it.      *)
Moves(c, p, from, to, shift) ==
  /\ c \in ProductCategories /\ p \in Parents /\ p # c /\ CategoryExists(p)
  /\ category[c].exists /\ ~ Contains(Above(p).path, c) /\ shift \in Int
  /\ from \in Seq(ProductCategories) /\ to \in Seq(ProductCategories)
  /\ \A d \in ProductCategories :
       /\ category'[d].exists = category[d].exists
       /\ category'[d].parent = IF d = c THEN p ELSE category[d].parent
       /\ d # c => category'[d].path = IF from = category[d].path
                                        THEN from ELSE MovedPath(category[d].path, from, to)
       /\ d # c => category'[d].level = IF IsStrictPrefix(from, category[d].path)
                                         THEN category[d].level + shift ELSE category[d].level
       /\ d = c => category'[d].path = to /\ category'[d].level = Above(p).level + 1

LEMMA MoveWrites ==
  ASSUME TreeInv, TreeSound, ReadsCurrent, NEW u \in Users, FinishMove(u),
         NEW c, c = call[u].doc, NEW p, p = call[u].to,
         NEW from, from = category[c].path, NEW to, to = Append(Above(p).path, c),
         NEW shift, shift = (Above(p).level + 1) - category[c].level
  PROVE  Moves(c, p, from, to, shift)
  <1>1. call[u].op = "moveCategory" /\ call[u] \in CategoryTreeCall
    <2>1. NoCall.op = "idle"  BY DEF NoCall
    <2>2. call[u] \in CategoryTreeCall \cup {NoCall}  BY DEF TreeInv, CategoryTreeTypeOK
    <2> QED  BY <2>1, <2>2 DEF FinishMove
  <1>2. c \in ProductCategories /\ p \in Parents  BY <1>1 DEF CategoryTreeCall
  <1>3. call[u].above = Above(p) /\ call[u].path = from  BY <1>1 DEF ReadsCurrent
  <1>4. /\ p # c /\ CategoryExists(p) /\ category[c].exists /\ ~ Contains(Above(p).path, c)
    BY <1>1, <1>3 DEF TreeInv, ClimbsNoCycle
  <1>5. Above(p).level \in Int /\ Above(p).path \in Seq(ProductCategories)
    <2>1. Above(p) \in [level : Int, path : Paths]  BY <1>2, AboveRead DEF TreeInv
    <2> QED  BY <2>1, PathsAre
  <1>6. CategoryIs(c) /\ from \in Seq(ProductCategories)
    BY <1>2, CategoryFields DEF TreeInv, CategoryIs
  <1>7. to \in Seq(ProductCategories) /\ Len(to) = Len(Above(p).path) + 1 /\ shift \in Int
    BY <1>2, <1>5, <1>6 DEF CategoryIs
  <1>8. category[c].level = Len(from) - 1 /\ Len(from) \in Nat  BY <1>6, <1>2, <1>4, LevelIsDepth DEF TreeInv
  <1> DEFINE level == Above(p).level + 1
             row == NodeAfter(c, p, Above(p))
  <1>9. level - (Len(from) - 1) = shift
    <2>1. level \in Int /\ category[c].level \in Int  BY <1>5, <1>6 DEF CategoryIs
    <2>2. shift = level - category[c].level  OBVIOUS
    <2> HIDE DEF level
    <2> QED  BY <1>8, <2>1, <2>2
  <1>10. category' = TreeAfter(c, p, Above(p), from)
    <2>1. category' = TreeAfter(call[u].doc, call[u].to, call[u].above, call[u].path)
      BY DEF FinishMove
    <2> QED  BY <1>3, <2>1
  <1>11. category \in [ProductCategories -> CategoryRow]  BY DEF TreeInv, CategoryTreeTypeOK
  <1>12. /\ row.exists = category[c].exists /\ row.parent = p /\ row.level = level /\ row.path = to
    <2>1. NodeIs(row, c, p, level, to)  BY <1>2, <1>11, NodeAfterIs
    <2> HIDE DEF row, level
    <2> QED  BY <2>1 DEF NodeIs
  <1>13. \A d \in ProductCategories :
           category'[d] = Repath(IF d = c THEN row ELSE category[d], from, to, shift)
    <2> TAKE d \in ProductCategories
    <2>1. TreeAfter(c, p, Above(p), from)[d] =
            Repath(IF d = c THEN row ELSE category[d], from, to, level - (Len(from) - 1))
      BY TreeAfterAt
    <2> HIDE DEF row, level
    <2> QED  BY <1>9, <1>10, <2>1
  <1> HIDE DEF row, level
  <1>14. ~ IsStrictPrefix(from, to)
    <2> DEFINE upper == Above(p).path  old == Above(category[c].parent).path
    <2>1. from = Append(old, c)  BY <1>2, <1>4 DEF TreeSound
    <2>2. Above(category[c].parent) \in [level : Int, path : Paths]
      BY <1>6, AboveRead DEF TreeInv, CategoryIs
    <2>3. old \in Seq(ProductCategories) /\ upper \in Seq(ProductCategories)  BY <1>5, <2>2, PathsAre
    <2>9. to = Append(upper, c) /\ ~ Contains(upper, c)  BY <1>4
    <2> HIDE DEF old, upper
    <2>4. Len(from) \in Nat \ {0} /\ from[Len(from)] = c  BY <1>2, <2>1, <2>3
    <2>5. SUFFICES ASSUME IsPrefix(from, to), from # to PROVE FALSE
      BY DEF IsStrictPrefix
    <2>6. IsPrefix(from, upper)  BY <1>2, <1>6, <2>3, <2>5, <2>9, BelowItsParent
    <2>7. Begins(from, upper)  BY Zenon, <1>6, <2>3, <2>6, PrefixIs
    <2>8. upper[Len(from)] = c /\ Len(from) \in 1..Len(upper)
      <3>1. Len(upper) \in Nat  BY <2>3
      <3>2. Len(from) <= Len(upper) /\ \A i \in 1..Len(from) : from[i] = upper[i]
        BY <2>7 DEF Begins
      <3>3. \A k \in Nat \ {0}, m \in Nat : k <= m => k \in 1..k /\ k \in 1..m  OBVIOUS
      <3>4. Len(from) \in 1..Len(from) /\ Len(from) \in 1..Len(upper)
        BY <2>4, <3>1, <3>2, <3>3
      <3> QED  BY <2>4, <3>2, <3>4
    <2> QED  BY <2>8, <2>9 DEF Contains
  <1>15. category'[c] = row  BY <1>2, <1>12, <1>13, <1>14 DEF Repath
  <1>16. ASSUME NEW d \in ProductCategories, d # c
         PROVE  /\ category'[d].exists = category[d].exists
                /\ category'[d].parent = category[d].parent
                /\ category'[d].path = IF from = category[d].path
                                       THEN from ELSE MovedPath(category[d].path, from, to)
                /\ category'[d].level = IF IsStrictPrefix(from, category[d].path)
                                        THEN category[d].level + shift ELSE category[d].level
    <2>1. category'[d] = Repath(category[d], from, to, shift)  BY <1>13, <1>16
    <2>2. category[d] \in CategoryRow  BY <1>11
    <2>3. CASE IsStrictPrefix(from, category[d].path)
      <3> DEFINE path == to \o SubSeq(category[d].path, Len(from) + 1, Len(category[d].path))
      <3>1. category'[d] = [category[d] EXCEPT !.path = path, !.level = category[d].level + shift]
        BY <2>1, <2>3 DEF Repath
      <3>2. from # category[d].path /\ MovedPath(category[d].path, from, to) = path
        BY <2>3 DEF IsStrictPrefix, MovedPath
      <3> HIDE DEF path
      <3>3. /\ category'[d].path = path /\ category'[d].level = category[d].level + shift
            /\ category'[d].exists = category[d].exists /\ category'[d].parent = category[d].parent
        BY <2>2, <3>1 DEF CategoryRow
      <3> QED  BY <2>3, <3>2, <3>3
    <2>4. CASE ~ IsStrictPrefix(from, category[d].path)
      <3>1. category'[d] = category[d]  BY <2>1, <2>4 DEF Repath
      <3>2. from # category[d].path => MovedPath(category[d].path, from, to) = category[d].path
        BY <2>4 DEF IsStrictPrefix, MovedPath
      <3> QED  BY <2>4, <3>1, <3>2
    <2> QED  BY <2>3, <2>4
  <1>17. /\ category'[c].exists = category[c].exists /\ category'[c].parent = p
         /\ category'[c].path = to /\ category'[c].level = Above(p).level + 1
    BY <1>12, <1>15 DEF level
  <1> QED  BY <1>2, <1>4, <1>6, <1>7, <1>16, <1>17 DEF Moves

LEMMA MoveKeepsSound ==
  ASSUME TreeInv, TreeSound, ReadsCurrent, NEW u \in Users, FinishMove(u)
  PROVE  TreeSound'
  <1>13. PICK c, p : c = call[u].doc /\ p = call[u].to  OBVIOUS
  <1>5. PICK from, to, shift :
          /\ from = category[c].path /\ to = Append(Above(p).path, c)
          /\ shift = (Above(p).level + 1) - category[c].level
    OBVIOUS
  <1>12. Moves(c, p, from, to, shift)  BY <1>13, <1>5, MoveWrites
  <1>1. /\ c \in ProductCategories /\ p \in Parents /\ p # c /\ CategoryExists(p)
        /\ category[c].exists /\ ~ Contains(Above(p).path, c) /\ shift \in Int
        /\ from \in Seq(ProductCategories) /\ to \in Seq(ProductCategories)
        /\ \A d \in ProductCategories :
             /\ category'[d].exists = category[d].exists
             /\ category'[d].parent = IF d = c THEN p ELSE category[d].parent
             /\ d # c => category'[d].path = IF from = category[d].path
                                              THEN from ELSE MovedPath(category[d].path, from, to)
             /\ d # c => category'[d].level = IF IsStrictPrefix(from, category[d].path)
                                               THEN category[d].level + shift ELSE category[d].level
             /\ d = c => category'[d].path = to /\ category'[d].level = Above(p).level + 1
    BY <1>12 DEF Moves
  <1>2. \A d \in ProductCategories : CategoryIs(d)  BY CategoryFields DEF TreeInv
  <1>3. \A d \in ProductCategories : category[d].exists =>
          LET q == category[d].parent
          IN  /\ CategoryExists(q) /\ category[d].path = Append(Above(q).path, d)
              /\ category[d].level = Above(q).level + 1
    BY DEF TreeInv, ParentsExist, TreeSound
  <1>4. category[c].level = Len(from) - 1  BY <1>1, <1>5, LevelIsDepth DEF TreeInv
  (* No other category is at the path of the node, whose last is its own.  *)
  <1>6. \A q \in Parents : Above(q).path \in Seq(ProductCategories) /\ Above(q).level \in Int
    <2>1. \A q \in Parents : Above(q) \in [level : Int, path : Paths]  BY AboveRead DEF TreeInv
    <2> QED  BY <2>1, PathsAre
  <1>7. ASSUME NEW d \in ProductCategories, category[d].exists, d # c
        PROVE  from # category[d].path
    <2> DEFINE a == Above(category[d].parent).path  b == Above(category[c].parent).path
    <2>1. a \in Seq(ProductCategories) /\ b \in Seq(ProductCategories)
      BY <1>1, <1>2, <1>6 DEF CategoryIs
    <2>2. category[d].path = Append(a, d) /\ from = Append(b, c)  BY <1>1, <1>3, <1>5, <1>7
    <2> HIDE DEF a, b
    <2>3. Append(a, d)[Len(Append(a, d))] = d /\ Append(b, c)[Len(Append(b, c))] = c
      BY <1>1, <2>1
    <2> QED  BY <1>7, <2>2, <2>3
  (* So with the node itself all paths are moved alike, and the levels.    *)
  <1>8. ASSUME NEW d \in ProductCategories, category[d].exists
        PROVE  /\ category'[d].path = MovedPath(category[d].path, from, to)
               /\ category'[d].level = IF IsPrefix(from, category[d].path)
                                       THEN category[d].level + shift ELSE category[d].level
    <2>1. CASE d = c
      <3>1. IsPrefix(from, from) /\ MovedPath(from, from, to) = to  BY <1>1, MovedItself
      <3>2. category[c].level + shift = Above(p).level + 1
        BY <1>1, <1>2, <1>5, <1>6 DEF CategoryIs
      <3> QED  BY <1>1, <1>5, <2>1, <3>1, <3>2
    <2>2. CASE d # c
      <3>1. from # category[d].path  BY <1>7, <1>8, <2>2
      <3> QED  BY <1>1, <2>2, <3>1 DEF IsStrictPrefix
    <2> QED  BY <2>1, <2>2
  (* A category beside the node stays below its parent.                    *)
  <1>9. ASSUME NEW d \in ProductCategories, category[d].exists, d # c
        PROVE  \A q : q = category[d].parent =>
                  LET above == Above(q)'
                  IN  category'[d].path = Append(above.path, d) /\ category'[d].level = above.level + 1
    <2> TAKE q
    <2> HAVE q = category[d].parent
    <2>1. /\ q \in Parents /\ CategoryExists(q) /\ category'[d].parent = q
          /\ category[d].path = Append(Above(q).path, d) /\ category[d].level = Above(q).level + 1
      BY <1>1, <1>2, <1>3, <1>9 DEF CategoryIs
    <2>2. Above(q).path \in Seq(ProductCategories) /\ Above(q).level \in Int  BY <1>6, <2>1
    <2>3. from # Append(Above(q).path, d)  BY <1>7, <1>9, <2>1
    <2>4. /\ IsPrefix(from, category[d].path) <=> IsPrefix(from, Above(q).path)
          /\ MovedPath(category[d].path, from, to) = Append(MovedPath(Above(q).path, from, to), d)
      <3> PICK a : a = Above(q).path  OBVIOUS
      <3>1. a \in Seq(ProductCategories) /\ from \in Seq(ProductCategories) /\ from # Append(a, d)
        BY <1>1, <2>2, <2>3
      <3>2. IsPrefix(from, Append(a, d)) <=> IsPrefix(from, a)  BY <3>1, BelowItsParent
      <3>3. MovedPath(Append(a, d), from, to) = Append(MovedPath(a, from, to), d)
        <4>1. to \in Seq(ProductCategories) /\ d \in ProductCategories  BY <1>1, <1>9
        <4>2. GoesWithParent(a, d, from, to)  BY Zenon, <3>1, <4>1, MovesWithParent
        <4> QED  BY <4>2 DEF GoesWithParent
      <3> QED  BY <2>1, <3>2, <3>3
    <2>5. CASE q = Root
      <3>1. Above(q) = [level |-> -1, path |-> <<>>] /\ Above(q)' = [level |-> -1, path |-> <<>>]
        BY <2>5 DEF Above
      <3>2. ~ IsPrefix(from, <<>>)
        <4> DEFINE b == Above(category[c].parent).path
        <4>1. from = Append(b, c) /\ b \in Seq(ProductCategories)
          BY <1>1, <1>2, <1>3, <1>5, <1>6 DEF CategoryIs
        <4> HIDE DEF b
        <4>2. Len(from) > 0  BY <1>1, <4>1
        <4>3. <<>> \in Seq(ProductCategories) /\ Len(<<>>) = 0  OBVIOUS
        <4>4. IsPrefix(from, <<>>) <=> Begins(from, <<>>)  BY Zenon, <1>1, <4>3, PrefixIs
        <4>5. ~ Begins(from, <<>>)  BY <1>1, <4>2, <4>3 DEF Begins
        <4> QED  BY <4>4, <4>5
      <3>3. MovedPath(<<>>, from, to) = <<>>  BY <3>2 DEF MovedPath
      <3>4. category'[d].path = Append(<<>>, d) /\ category'[d].level = category[d].level
        BY <1>8, <1>9, <2>4, <3>1, <3>2, <3>3
      <3> QED  BY <2>1, <3>1, <3>4
    <2>6. CASE q # Root
      <3>1. q \in ProductCategories /\ category[q].exists
        BY <2>1, <2>6 DEF Parents, CategoryExists
      <3>2. /\ Above(q).path = category[q].path /\ Above(q).level = category[q].level
            /\ Above(q)'.path = category'[q].path /\ Above(q)'.level = category'[q].level
        BY <2>6 DEF Above
      <3>3. category'[q].path = MovedPath(category[q].path, from, to)  BY <1>8, <3>1
      <3>4. category'[d].path = Append(category'[q].path, d)  BY <1>8, <1>9, <2>4, <3>2, <3>3
      <3>5. category'[d].level = category'[q].level + 1
        <4>1. category[q].level \in Int /\ category[d].level = category[q].level + 1
          BY <2>1, <2>2, <3>2
        <4>2. CASE IsPrefix(from, category[q].path)
          <5>1. category'[d].level = category[d].level + shift
                /\ category'[q].level = category[q].level + shift
            BY <1>8, <1>9, <2>4, <3>1, <3>2, <4>2
          <5> QED  BY <1>1, <4>1, <5>1
        <4>3. CASE ~ IsPrefix(from, category[q].path)
          BY <1>8, <1>9, <2>4, <3>1, <3>2, <4>1, <4>3
        <4> QED  BY <4>2, <4>3
      <3> QED  BY <2>1, <3>2, <3>4, <3>5
    <2> QED  BY <2>1, <2>5, <2>6
  (* The node is below its new parent, which has not moved.                *)
  <1>10. LET above == Above(p)' IN category'[c].path = Append(above.path, c) /\ category'[c].level = above.level + 1
    <2>1. category'[c].path = Append(Above(p).path, c) /\ category'[c].level = Above(p).level + 1
      BY <1>1, <1>5
    <2>2. Above(p)'.path = Above(p).path /\ Above(p)'.level = Above(p).level
      <3>1. CASE p = Root  BY <3>1 DEF Above
      <3>2. CASE p # Root
        <4>1. p \in ProductCategories /\ category[p].exists
          BY <1>1, <3>2 DEF Parents, CategoryExists
        <4>2. /\ Above(p).path = category[p].path /\ Above(p).level = category[p].level
              /\ Above(p)'.path = category'[p].path /\ Above(p)'.level = category'[p].level
          BY <3>2 DEF Above
        <4>3. ~ IsPrefix(from, category[p].path)
          <5> DEFINE b == Above(category[c].parent).path  upper == category[p].path
          <5>1. from = Append(b, c) /\ b \in Seq(ProductCategories)
            BY <1>1, <1>2, <1>3, <1>5, <1>6 DEF CategoryIs
          <5>2. upper \in Seq(ProductCategories) /\ ~ Contains(upper, c)
            BY <1>1, <1>2, <4>1, <4>2 DEF CategoryIs
          <5> HIDE DEF b, upper
          <5>3. Len(from) \in Nat \ {0} /\ from[Len(from)] = c  BY <1>1, <5>1
          <5>4. SUFFICES ASSUME IsPrefix(from, upper) PROVE FALSE
            BY DEF upper
          <5>5. Begins(from, upper)  BY Zenon, <1>1, <5>2, <5>4, PrefixIs
          <5>6. upper[Len(from)] = c /\ Len(from) \in 1..Len(upper)
            <6>1. Len(upper) \in Nat  BY <5>2
            <6> QED  BY <5>3, <5>5, <6>1 DEF Begins
          <5> QED  BY <5>2, <5>6 DEF Contains
        <4> QED  BY <1>8, <4>1, <4>2, <4>3 DEF MovedPath
      <3> QED  BY <3>1, <3>2
    <2> QED  BY <2>1, <2>2
  <1>11. ASSUME NEW d \in ProductCategories, category'[d].exists,
                NEW q, q = category'[d].parent
         PROVE  LET above == Above(q)'
                IN  category'[d].path = Append(above.path, d) /\ category'[d].level = above.level + 1
    <2>1. CASE d = c  BY <1>1, <1>10, <1>11, <2>1
    <2>2. CASE d # c
      <3>1. category[d].exists /\ q = category[d].parent  BY <1>1, <1>11, <2>2
      <3> QED  BY <1>9, <2>2, <3>1
    <2> QED  BY <2>1, <2>2
  <1> QED  BY <1>11 DEF TreeSound

(* A creation adds a leaf: of a category that is not there nobody is the   *)
(* child.                                                                  *)
LEMMA CreationKeepsSound ==
  ASSUME TreeInv, TreeSound, ReadsCurrent, NEW u \in Users, FinishCreateCategory(u)
  PROVE  TreeSound'
  <1>1. PICK c, p : c = call[u].doc /\ p = call[u].to  OBVIOUS
  <1>2. call[u].op = "createCategory" /\ call[u] \in CategoryTreeCall
    <2>1. NoCall.op = "idle"  BY DEF NoCall
    <2>2. call[u] \in CategoryTreeCall \cup {NoCall}  BY DEF TreeInv, CategoryTreeTypeOK
    <2> QED  BY <2>1, <2>2 DEF FinishCreateCategory
  <1>3. c \in ProductCategories /\ p \in Parents  BY <1>1, <1>2 DEF CategoryTreeCall
  <1>4. p # c /\ CategoryExists(p) /\ call[u].above = Above(p)
    BY <1>1, <1>2 DEF TreeInv, ClimbsNoCycle, ReadsCurrent
  <1> DEFINE row == [exists |-> TRUE, parent |-> p, level |-> Above(p).level + 1,
                     path |-> Append(Above(p).path, c)]
  <1>5. ~ category[c].exists /\ category' = [category EXCEPT ![c] = row]
    BY <1>1, <1>4 DEF FinishCreateCategory
  <1>6. /\ row.exists /\ row.parent = p /\ row.level = Above(p).level + 1
        /\ row.path = Append(Above(p).path, c)
    OBVIOUS
  <1> HIDE DEF row
  <1>7. /\ category'[c] = row
        /\ \A d \in ProductCategories \ {c} : category'[d] = category[d]
    BY <1>3, <1>5 DEF TreeInv, CategoryTreeTypeOK
  <1>8. ASSUME NEW q \in Parents, CategoryExists(q), q # c
        PROVE  Above(q)' = Above(q)
    BY <1>7, <1>8 DEF Above, Parents
  <1>9. ASSUME NEW d \in ProductCategories, category'[d].exists,
               NEW q, q = category'[d].parent
        PROVE  LET above == Above(q)'
               IN  category'[d].path = Append(above.path, d) /\ category'[d].level = above.level + 1
    <2>1. CASE d = c  BY <1>3, <1>4, <1>6, <1>7, <1>8, <1>9, <2>1
    <2>2. CASE d # c
      <3>1. category'[d] = category[d] /\ category[d].exists /\ q = category[d].parent
        BY <1>7, <1>9, <2>2
      <3>2. q \in Parents  BY <3>1, CategoryFields DEF TreeInv, CategoryIs
      <3>3. CategoryExists(q) /\ q # c
        <4>1. CategoryExists(q)  BY <3>1 DEF TreeInv, ParentsExist
        <4>2. c # Root  BY <1>3, CategoryTreeAssumption DEF CategoryTreeAssumption
        <4> QED  BY <1>5, <4>1, <4>2 DEF CategoryExists
      <3>4. category[d].path = Append(Above(q).path, d) /\ category[d].level = Above(q).level + 1
        BY <3>1 DEF TreeSound
      <3> QED  BY <1>8, <3>1, <3>2, <3>3, <3>4
    <2> QED  BY <2>1, <2>2
  <1> QED  BY <1>9 DEF TreeSound

LEMMA RepathKeeps ==
  ASSUME NEW L, NEW P, NEW row \in [exists : BOOLEAN, parent : Parents, level : L, path : P],
         NEW from, NEW to, NEW shift
  PROVE  /\ Repath(row, from, to, shift).exists = row.exists
         /\ Repath(row, from, to, shift).parent = row.parent
  <1> DEFINE path == to \o SubSeq(row.path, Len(from) + 1, Len(row.path))
             level == row.level + shift
  <1>1. \/ Repath(row, from, to, shift) = [row EXCEPT !.path = path, !.level = level]
        \/ Repath(row, from, to, shift) = row
    BY DEF Repath
  <1> HIDE DEF path, level
  <1> QED  BY <1>1

(* Categories are never removed, and a move leaves them where they are.    *)
LEMMA TreeInductive ==
  ASSUME TreeInv, [CategoryTreeNext]_categoryTreeVars
  PROVE  TreeInv'
  <1> USE CategoryTreeAssumption DEF CategoryTreeAssumption
  <1>1. CategoryTreeTypeOK'  BY CategoryTreeInductive DEF TreeInv
  <1>2. /\ call \in [Users -> CategoryTreeCall \cup {NoCall}]
        /\ category \in [ProductCategories -> CategoryRow]
    BY DEF TreeInv, CategoryTreeTypeOK
  <1>3. NoCall.op = "idle"  BY DEF NoCall
  <1>4. ASSUME NEW u \in Users, call[u].op \in {"createCategory", "moveCategory"}
        PROVE  /\ call[u].doc \in ProductCategories /\ call[u].to \in Parents
               /\ CategoryExists(call[u].to)
    <2>1. call[u] \in CategoryTreeCall  BY <1>2, <1>3, <1>4
    <2> QED  BY <1>4, <2>1 DEF CategoryTreeCall, TreeInv, ClimbsNoCycle
  (* Which categories exist, and the parent of each that is written.       *)
  <1>5. ASSUME NEW d \in ProductCategories
        PROVE  /\ category[d].exists => category'[d].exists
               /\ category'[d].exists =>
                    \/ category[d].exists /\ category'[d].parent = category[d].parent
                    \/ category'[d].parent \in Parents /\ CategoryExists(category'[d].parent)
    <2>1. ASSUME NEW u \in Users, FinishCreateCategory(u)
          PROVE  \/ category'[d] = category[d]
                 \/ /\ category'[d].exists /\ category'[d].parent \in Parents
                    /\ CategoryExists(category'[d].parent)
      <3>1. PICK c, p : c = call[u].doc /\ p = call[u].to  OBVIOUS
      <3> DEFINE row == [exists |-> TRUE, parent |-> p, level |-> call[u].above.level + 1,
                         path |-> Append(call[u].above.path, c)]
      <3>2. category' = [category EXCEPT ![c] = row]  BY <2>1, <3>1 DEF FinishCreateCategory
      <3>3. row.exists /\ row.parent = p  OBVIOUS
      <3> HIDE DEF row
      <3>4. p \in Parents /\ CategoryExists(p)  BY <1>4, <2>1, <3>1 DEF FinishCreateCategory
      <3> QED  BY <1>2, <3>2, <3>3, <3>4
    <2>2. ASSUME NEW u \in Users, FinishMove(u)
          PROVE  /\ category'[d].exists = category[d].exists
                 /\ \/ category'[d].parent = category[d].parent
                    \/ category'[d].parent \in Parents /\ CategoryExists(category'[d].parent)
      <3>1. PICK c, p, above, from, level, to, shift :
              /\ c = call[u].doc /\ p = call[u].to /\ above = call[u].above /\ from = call[u].path
              /\ level = above.level + 1 /\ to = Append(above.path, c)
              /\ shift = level - (Len(from) - 1)
        OBVIOUS
      <3>8. PICK row : row = NodeAfter(c, p, above)  OBVIOUS
      <3>2. category' = TreeAfter(c, p, above, from)
        <4>1. category' = TreeAfter(call[u].doc, call[u].to, call[u].above, call[u].path)
          BY <2>2 DEF FinishMove
        <4> QED  BY <3>1, <4>1
      <3>3. c \in ProductCategories /\ p \in Parents /\ CategoryExists(p)
        <4>1. call[u].op = "moveCategory"  BY <2>2 DEF FinishMove
        <4> QED  BY <1>4, <3>1, <4>1
      <3>4. /\ row.exists = category[c].exists /\ row.parent = p
            /\ row \in [exists : BOOLEAN, parent : Parents, level : {level}, path : {to}]
        <4>1. NodeIs(row, c, p, above.level + 1, Append(above.path, c))  BY <1>2, <3>3, <3>8, NodeAfterIs
        <4> QED  BY <3>1, <4>1 DEF NodeIs
      <3>5. \A r \in {row, category[d]} :
              /\ Repath(r, from, to, shift).exists = r.exists
              /\ Repath(r, from, to, shift).parent = r.parent
        <4> DEFINE Levels == {level, category[d].level, category[c].level}
                   ThePaths == {to, category[d].path, category[c].path}
                   Rows == [exists : BOOLEAN, parent : Parents, level : Levels, path : ThePaths]
        <4>1. category[c] \in Rows /\ category[d] \in Rows  BY <1>2, <3>3 DEF CategoryRow
        <4>2. row \in Rows  BY <3>4
        <4> HIDE DEF Levels, ThePaths
        <4> QED  BY <4>1, <4>2, RepathKeeps
      <3>6. category'[d] = Repath(IF d = c THEN row ELSE category[d], from, to, shift)
        <4>1. TreeAfter(c, p, above, from)[d] =
                Repath(IF d = c THEN NodeAfter(c, p, above) ELSE category[d],
                       from, Append(above.path, c), (above.level + 1) - (Len(from) - 1))
          BY TreeAfterAt
        <4> QED  BY <3>1, <3>2, <3>8, <4>1
      <3> QED  BY <3>3, <3>4, <3>5, <3>6
    <2>3. \/ \E u \in Users : FinishCreateCategory(u) \/ FinishMove(u)
          \/ UNCHANGED category
      BY DEF CategoryTreeNext, categoryTreeVars, categoryTreeTables, StartCreateCategory,
             StartMove, CategoryFails
    <2> QED  BY <2>1, <2>2, <2>3
  <1>6. ASSUME NEW q \in Parents, CategoryExists(q) PROVE CategoryExists(q)'
    BY <1>5, <1>6 DEF CategoryExists, Parents
  <1>7. ParentsExist'
    <2> SUFFICES ASSUME NEW d \in ProductCategories, category'[d].exists,
                        NEW q, q = category'[d].parent
                 PROVE  CategoryExists(q)'
      BY DEF ParentsExist
    <2>1. q \in Parents /\ CategoryExists(q)
      BY <1>2, <1>5 DEF CategoryRow, TreeInv, ParentsExist
    <2> QED  BY <1>6, <2>1
  <1>8. ClimbsNoCycle'
    <2> DEFINE Climbs(c) ==
                 c.op \in {"createCategory", "moveCategory"} =>
                   /\ c.doc \in ProductCategories /\ c.to \in Parents
                   /\ c.to # c.doc /\ CategoryExists(c.to)
                   /\ c.op = "moveCategory" =>
                        category[c.doc].exists /\ ~ Contains(c.above.path, c.doc)
    <2>1. \A u \in Users : Climbs(call[u])  BY <1>4 DEF TreeInv, ClimbsNoCycle
    <2>2. ASSUME NEW u \in Users, NEW c \in ProductCategories, NEW p \in Parents, c # p,
                 StartCreateCategory(u, c, p)
          PROVE  \A v \in Users : Climbs(call'[v])
      <3> DEFINE k == [op |-> "createCategory", doc |-> c, to |-> p, above |-> Above(p), path |-> <<>>]
      <3>1. call' = [call EXCEPT ![u] = k] /\ CategoryExists(p)
        BY <2>2 DEF StartCreateCategory, Enter
      <3>2. Climbs(k)  BY <2>2, <3>1
      <3> HIDE DEF k, Climbs
      <3> QED  BY <1>2, <2>1, <3>1, <3>2
    <2>3. ASSUME NEW u \in Users, NEW c \in ProductCategories, NEW p \in Parents, c # p,
                 StartMove(u, c, p)
          PROVE  \A v \in Users : Climbs(call'[v])
      <3> DEFINE k == [op |-> "moveCategory", doc |-> c, to |-> p, above |-> Above(p),
                       path |-> category[c].path]
      <3>1. call' = [call EXCEPT ![u] = k] /\ CategoryExists(p) /\ category[c].exists /\ ~ Cyclic(c, p)
        BY <2>3 DEF StartMove, Enter
      <3>2. ~ Contains(Above(p).path, c)
        <4>1. CASE p = Root
          <5>1. ~ Contains(<<>>, c)  BY DEF Contains
          <5> QED  BY <4>1, <5>1 DEF Above
        <4>2. CASE p # Root  BY <3>1, <4>2 DEF Above, Cyclic
        <4> QED  BY <4>1, <4>2
      <3>3. Climbs(k)  BY <2>3, <3>1, <3>2
      <3> HIDE DEF k, Climbs
      <3> QED  BY <1>2, <2>1, <3>1, <3>3
    <2>4. ASSUME NEW u \in Users, Leave(u)
          PROVE  \A v \in Users : Climbs(call'[v])
      <3>1. Climbs(NoCall)  BY <1>3
      <3> HIDE DEF Climbs
      <3> QED  BY <1>2, <2>1, <2>4, <3>1 DEF Leave
    <2>5. UNCHANGED categoryTreeVars => \A v \in Users : Climbs(call'[v])
      BY <2>1 DEF categoryTreeVars
    <2> HIDE DEF Climbs
    <2>6. \A v \in Users : Climbs(call'[v])
      BY <2>2, <2>3, <2>4, <2>5
      DEF CategoryTreeNext, FinishCreateCategory, FinishMove, CategoryFails, Fails
    <2> USE DEF Climbs
    <2> SUFFICES ASSUME NEW v \in Users, call'[v].op \in {"createCategory", "moveCategory"},
                        NEW c, c = call'[v].doc, NEW p, p = call'[v].to
                 PROVE  /\ p # c /\ CategoryExists(p)'
                        /\ call'[v].op = "moveCategory" =>
                             category'[c].exists /\ ~ Contains(call'[v].above.path, c)
      BY DEF ClimbsNoCycle
    <2>7. Climbs(call'[v])  BY <2>6
    <2> QED  BY <1>5, <1>6, <2>7
  <1> QED  BY <1>1, <1>7, <1>8 DEF TreeInv

(* A move takes its whole subtree along, and never puts a category under   *)
(* itself: for any categories, of any depth, and any calls, a tree that is *)
(* sound stays so in every step in which nobody writes upon an old         *)
(* reading of it.                                                          *)
THEOREM MovesKeepTheTree == CategoryTreeSpec => MoveKeepsTree
  <1>1. CategoryTreeInit => TreeInv
    <2> SUFFICES ASSUME CategoryTreeInit PROVE TreeInv
      OBVIOUS
    <2>1. CategoryTreeTypeOK  BY CategoryTreeStart
    <2>2. ParentsExist  BY DEF CategoryTreeInit, NoCategory, ParentsExist
    <2>3. ClimbsNoCycle  BY DEF CategoryTreeInit, CallsInit, NoCall, ClimbsNoCycle
    <2> QED  BY <2>1, <2>2, <2>3 DEF TreeInv
  <1>2. TreeInv /\ [CategoryTreeNext]_categoryTreeVars => TreeInv'  BY TreeInductive
  <1>3. TreeInv /\ [CategoryTreeNext]_categoryTreeVars
          => [TreeSound /\ ReadsCurrent => TreeSound']_categoryTreeVars
    <2> SUFFICES ASSUME TreeInv, CategoryTreeNext, TreeSound, ReadsCurrent
                 PROVE  TreeSound'
      OBVIOUS
    <2>1. \/ \E u \in Users : FinishCreateCategory(u) \/ FinishMove(u)
          \/ UNCHANGED category
      BY DEF CategoryTreeNext, categoryTreeTables, StartCreateCategory, StartMove, CategoryFails
    <2>2. UNCHANGED category => TreeSound'  BY DEF TreeSound, Above
    <2> QED  BY <2>1, <2>2, CreationKeepsSound, MoveKeepsSound
  <1> QED  BY <1>1, <1>2, <1>3, PTL DEF CategoryTreeSpec, MoveKeepsTree

-----------------------------------------------------------------------------
(* Price lists.                                                            *)

LEMMA PriceListsCallIs ==
  ASSUME NEW c \in PriceListsCall \cup {NoCall}
  PROVE  /\ c.op = "setPrice" => c.from \in PriceDays /\ c.to \in 1..Open
         /\ c.op = "createList" => c.doc \in Lists /\ c.row \in {"plain", "default"}
  <1>1. CASE c \in [op : {"setPrice"}, from : PriceDays, to : 1..Open]
    <2>1. c.op = "setPrice" /\ c.from \in PriceDays /\ c.to \in 1..Open  BY <1>1
    <2> QED  BY <2>1
  <1>2. CASE c \in [op : {"createList"}, doc : Lists, row : {"plain", "default"}]
    <2>1. c.op = "createList" /\ c.doc \in Lists /\ c.row \in {"plain", "default"}  BY <1>2
    <2> QED  BY <2>1
  <1>3. CASE c = NoCall
    <2>1. c.op = "idle"  BY <1>3 DEF NoCall
    <2> QED  BY <2>1
  <1> QED  BY <1>1, <1>2, <1>3 DEF PriceListsCall

LEMMA PriceListsInductive ==
  ASSUME PriceListsTypeOK, [PriceListsNext]_priceListsVars
  PROVE  PriceListsTypeOK'
  <1> USE PriceListsAssumption DEF PriceListsAssumption
  <1>0. /\ call \in [Users -> PriceListsCall \cup {NoCall}]
        /\ priceList \in [Lists -> ListRow] /\ items \in Seq(PriceItem) /\ Len(items) <= MaxItems
    BY DEF PriceListsTypeOK
  <1>1. ASSUME NEW u \in Users, NEW c \in PriceListsCall \cup {NoCall}, call' = [call EXCEPT ![u] = c]
        PROVE  call' \in [Users -> PriceListsCall \cup {NoCall}]
    BY <1>0, <1>1
  <1>2. ASSUME NEW u \in Users, Leave(u)
        PROVE  call' \in [Users -> PriceListsCall \cup {NoCall}]
    BY <1>1, <1>2 DEF Leave
  <1>3. ASSUME NEW u \in Users, NEW l \in Lists, NEW row \in {"plain", "default"},
               StartCreateList(u, l, row)
        PROVE  PriceListsTypeOK'
    <2> DEFINE c == [op |-> "createList", doc |-> l, row |-> row]
    <2>1. c \in PriceListsCall  BY DEF PriceListsCall
    <2>2. call' = [call EXCEPT ![u] = c]  BY <1>3 DEF StartCreateList, Enter
    <2> HIDE DEF c
    <2>3. call' \in [Users -> PriceListsCall \cup {NoCall}]  BY <1>1, <2>1, <2>2
    <2>4. priceList' \in [Lists -> ListRow]  BY <1>0, <1>3 DEF StartCreateList, ListRow
    <2> QED  BY <1>0, <1>3, <2>3, <2>4 DEF StartCreateList, PriceListsTypeOK
  <1>4. ASSUME NEW u \in Users, FinishCreateList(u)
        PROVE  PriceListsTypeOK'
    <2>1. PICK l \in Lists, row \in {"plain", "default"} : l = call[u].doc /\ row = call[u].row
      BY <1>4, <1>0, PriceListsCallIs DEF FinishCreateList
    <2>2. priceList' = [priceList EXCEPT ![l] = row] /\ UNCHANGED items
      BY <1>4, <2>1 DEF FinishCreateList
    <2>3. priceList' \in [Lists -> ListRow]  BY <1>0, <2>2 DEF ListRow
    <2>4. call' \in [Users -> PriceListsCall \cup {NoCall}]  BY <1>2, <1>4 DEF FinishCreateList
    <2> QED  BY <1>0, <2>2, <2>3, <2>4 DEF PriceListsTypeOK
  <1>5. ASSUME NEW u \in Users, NEW from \in PriceDays, NEW to \in 1..Open, StartSetPrice(u, from, to)
        PROVE  PriceListsTypeOK'
    <2> DEFINE c == [op |-> "setPrice", from |-> from, to |-> to]
    <2>1. c \in PriceListsCall  BY DEF PriceListsCall
    <2>2. call' = [call EXCEPT ![u] = c]  BY <1>5 DEF StartSetPrice, Enter
    <2> HIDE DEF c
    <2>3. call' \in [Users -> PriceListsCall \cup {NoCall}]  BY <1>1, <2>1, <2>2
    <2>4. ASSUME NEW i \in 1..Len(items)
          PROVE  (IF Ends(items[i], from) THEN [items[i] EXCEPT !.to = from] ELSE items[i]) \in PriceItem
      <3>1. items[i] \in PriceItem  BY <1>0
      <3>2. from \in 1..Open  BY DEF PriceDays, Open
      <3>3. [items[i] EXCEPT !.to = from] \in PriceItem  BY <3>1, <3>2 DEF PriceItem
      <3> QED  BY <3>1, <3>3
    <2>5. DOMAIN items = 1..Len(items) /\ Len(items) \in Nat  BY <1>0
    <2>6. items' \in [1..Len(items) -> PriceItem]
      BY <1>5, <2>4, <2>5 DEF StartSetPrice
    <2>7. items' \in Seq(PriceItem) /\ Len(items') = Len(items)  BY <2>5, <2>6
    <2> QED  BY <1>0, <1>5, <2>3, <2>7 DEF StartSetPrice, PriceListsTypeOK
  <1>6. ASSUME NEW u \in Users, FinishSetPrice(u)
        PROVE  PriceListsTypeOK'
    <2>1. PICK from \in PriceDays, to \in 1..Open : from = call[u].from /\ to = call[u].to
      BY <1>6, <1>0, PriceListsCallIs DEF FinishSetPrice
    <2> DEFINE row == [from |-> from, to |-> to]
    <2>2. row \in PriceItem  BY DEF PriceItem
    <2>3. items' = Append(items, row) /\ Len(items) < MaxItems /\ UNCHANGED priceList
      BY <1>6, <2>1 DEF FinishSetPrice
    <2> HIDE DEF row
    <2>4. items' \in Seq(PriceItem) /\ Len(items') <= MaxItems  BY <1>0, <2>2, <2>3
    <2>5. call' \in [Users -> PriceListsCall \cup {NoCall}]  BY <1>2, <1>6 DEF FinishSetPrice
    <2> QED  BY <1>0, <2>3, <2>4, <2>5 DEF PriceListsTypeOK
  <1>7. ASSUME NEW u \in Users, PriceListFails(u)
        PROVE  PriceListsTypeOK'
    BY <1>0, <1>2, <1>7 DEF PriceListFails, Fails, priceListsTables, PriceListsTypeOK
  <1>8. CASE UNCHANGED priceListsVars
    BY <1>0, <1>8 DEF priceListsVars, priceListsTables, PriceListsTypeOK
  <1> QED  BY <1>3, <1>4, <1>5, <1>6, <1>7, <1>8 DEF PriceListsNext

LEMMA PriceListsStart == PriceListsInit => PriceListsTypeOK
  BY PriceListsAssumption
  DEF PriceListsAssumption, PriceListsInit, CallsInit, PriceListsTypeOK, ListRow

(* The days of the prices are numbers.                                     *)
LEMMA PriceRows ==
  PriceListsTypeOK =>
    \A i \in DOMAIN items : items[i] \in PriceItem /\ items[i].from \in Nat /\ items[i].to \in Nat
  <1> SUFFICES ASSUME PriceListsTypeOK, NEW i \in DOMAIN items
               PROVE  items[i] \in PriceItem /\ items[i].from \in Nat /\ items[i].to \in Nat
    OBVIOUS
  <1>1. items \in Seq(PriceItem)  BY DEF PriceListsTypeOK
  <1>2. items[i] \in PriceItem  BY <1>1
  <1> QED  BY <1>2, PriceListsAssumption DEF PriceListsAssumption, PriceItem, PriceDays, Open

LEMMA PriceRowsNext ==
  ASSUME PriceListsTypeOK'
  PROVE  \A i \in DOMAIN items' : items'[i].from \in Nat
  <1>1. (PriceListsTypeOK =>
          \A i \in DOMAIN items :
            items[i] \in PriceItem /\ items[i].from \in Nat /\ items[i].to \in Nat)'
    BY PriceRows, PTL
  <1> QED  BY <1>1

(* The prices of a day, of which some start later than a day, are those    *)
(* that they were when only prices that start by that day have changed.    *)
LEMMA LaterPricesStand ==
  ASSUME PriceListsTypeOK, PriceListsTypeOK', NEW d \in PriceDays, NEW from \in PriceDays,
         NEW j \in InEffect(d), items[j].from > from,
         \A i \in InEffect(d) : items[i].from > from => i \in InEffect(d)' /\ items'[i] = items[i],
         \A i \in InEffect(d)' : items'[i].from > from => i \in InEffect(d) /\ items'[i] = items[i]
  PROVE  CurrentPrice(d)' = CurrentPrice(d)
  <1>1. \A i \in InEffect(d) : items[i].from \in Int
    BY PriceRows DEF InEffect
  <1>2. \A i \in InEffect(d)' : items'[i].from \in Int
    BY PriceRowsNext DEF InEffect
  <1>3. from \in Int /\ j \in InEffect(d)' /\ items'[j] = items[j]
    BY DEF PriceDays
  <1>4. \A i : i \in CurrentPrice(d) <=>
                 i \in InEffect(d) /\ \A k \in InEffect(d) : items[k].from <= items[i].from
    BY DEF CurrentPrice
  <1>5. \A i : i \in CurrentPrice(d)' <=>
                 i \in InEffect(d)' /\ \A k \in InEffect(d)' : items'[k].from <= items'[i].from
    BY DEF CurrentPrice
  <1>6. ASSUME NEW i, i \in CurrentPrice(d)
        PROVE  i \in CurrentPrice(d)'
    <2>1. items[i].from > from  BY <1>1, <1>3, <1>4, <1>6
    <2>2. i \in InEffect(d)' /\ items'[i] = items[i]  BY <1>4, <1>6, <2>1
    <2>3. ASSUME NEW k \in InEffect(d)'
          PROVE  items'[k].from <= items'[i].from
      <3>1. CASE items'[k].from > from  BY <1>4, <1>6, <2>2, <2>3, <3>1
      <3>2. CASE ~ (items'[k].from > from)  BY <1>1, <1>2, <1>3, <1>4, <1>6, <2>1, <2>2, <2>3, <3>2
      <3> QED  BY <3>1, <3>2
    <2> QED  BY <1>5, <2>2, <2>3
  <1>7. ASSUME NEW i, i \in CurrentPrice(d)'
        PROVE  i \in CurrentPrice(d)
    <2>1. items'[i].from > from  BY <1>2, <1>3, <1>5, <1>7
    <2>2. i \in InEffect(d) /\ items'[i] = items[i]  BY <1>5, <1>7, <2>1
    <2>3. ASSUME NEW k \in InEffect(d)
          PROVE  items[k].from <= items[i].from
      <3>1. CASE items[k].from > from  BY <1>5, <1>7, <2>2, <2>3, <3>1
      <3>2. CASE ~ (items[k].from > from)  BY <1>1, <1>2, <1>3, <1>5, <1>7, <2>1, <2>2, <2>3, <3>2
      <3> QED  BY <3>1, <3>2
    <2> QED  BY <1>4, <2>2, <2>3
  <1> QED  BY <1>6, <1>7

(* What a step of setPrice changes, it changes on days that its price is   *)
(* the latest on.                                                          *)
LEMMA PriceSteps ==
  ASSUME PriceListsTypeOK, PriceListsTypeOK', NEW d \in PriceDays, NEW from \in PriceDays,
         InEffect(d)' # InEffect(d) => from <= d,
         \A i \in InEffect(d) : items'[i].from = items[i].from,
         \A i \in InEffect(d) : items[i].from > from => i \in InEffect(d)' /\ items'[i] = items[i],
         \A i \in InEffect(d)' : items'[i].from > from => i \in InEffect(d) /\ items'[i] = items[i],
         CurrentPrice(d)' # CurrentPrice(d)
  PROVE  from <= d /\ \A i \in InEffect(d) : items[i].from <= from
  <1>1. from <= d
    <2>1. InEffect(d)' = InEffect(d) => CurrentPrice(d)' = CurrentPrice(d)
      BY DEF CurrentPrice
    <2> QED  BY <2>1
  <1>2. ASSUME NEW i \in InEffect(d)
        PROVE  items[i].from <= from
    <2>1. ~ (items[i].from > from)  BY LaterPricesStand
    <2>2. items[i].from \in Int /\ from \in Int
      BY PriceRows DEF InEffect, PriceDays
    <2> QED  BY <2>1, <2>2
  <1> QED  BY <1>1, <1>2

LEMMA PricesChange ==
  ASSUME PriceListsTypeOK, PriceListsTypeOK', [PriceListsNext]_priceListsVars, NEW d \in PriceDays,
         CurrentPrice(d)' # CurrentPrice(d)
  PROVE  \E u \in Users : \E c \in {call[u], call'[u]} :
           /\ call'[u] # call[u] /\ c.op = "setPrice" /\ c.from <= d
           /\ \A i \in InEffect(d) : items[i].from <= c.from
  <1> USE PriceListsAssumption DEF PriceListsAssumption
  <1>0. /\ items \in Seq(PriceItem) /\ call \in [Users -> PriceListsCall \cup {NoCall}]
        /\ \A i \in DOMAIN items : /\ items[i] \in PriceItem /\ items[i].from \in Nat
                                   /\ items[i].to \in Nat
    BY PriceRows DEF PriceListsTypeOK
  <1>1. items' # items  BY DEF CurrentPrice, InEffect
  <1>2. PICK u \in Users :
          FinishSetPrice(u) \/ \E from \in PriceDays, to \in 1..Open : StartSetPrice(u, from, to)
    BY Zenon, <1>1 DEF PriceListsNext, priceListsVars, priceListsTables, StartCreateList, FinishCreateList,
       PriceListFails
  <1>3. ASSUME NEW from \in PriceDays, NEW to \in 1..Open, StartSetPrice(u, from, to)
        PROVE  /\ call'[u] # call[u] /\ call'[u].op = "setPrice" /\ call'[u].from <= d
               /\ \A i \in InEffect(d) : items[i].from <= call'[u].from
    <2>1. call[u] = NoCall /\ call'[u] = [op |-> "setPrice", from |-> from, to |-> to]
      BY <1>0, <1>3 DEF StartSetPrice, Enter
    <2>2. /\ DOMAIN items' = DOMAIN items
          /\ \A i \in DOMAIN items :
               items'[i] = IF Ends(items[i], from) THEN [items[i] EXCEPT !.to = from] ELSE items[i]
      BY <1>3 DEF StartSetPrice
    <2>3. \A i \in DOMAIN items :
            /\ items'[i].from = items[i].from
            /\ items'[i].to = IF Ends(items[i], from) THEN from ELSE items[i].to
      BY <1>0, <2>2 DEF PriceItem
    <2>4. \A i \in DOMAIN items : items[i].from > from => items'[i] = items[i]
      BY <1>0, <2>2 DEF Ends, PriceDays
    <2>5. \A i : i \in InEffect(d) <=> i \in DOMAIN items /\ items[i].from <= d /\ d <= items[i].to
      BY DEF InEffect
    <2>6. \A i : i \in InEffect(d)' <=> i \in DOMAIN items /\ items[i].from <= d /\ d <= items'[i].to
      BY <2>2, <2>3 DEF InEffect
    <2>7. InEffect(d)' # InEffect(d) => from <= d
      <3> SUFFICES ASSUME ~ (from <= d) PROVE InEffect(d)' = InEffect(d)
        OBVIOUS
      <3>1. d < from /\ d <= LastPriceDay /\ d < Open  BY DEF PriceDays, Open
      <3>2. \A i \in DOMAIN items : d <= items'[i].to <=> d <= items[i].to
        BY <1>0, <2>3, <3>1 DEF Ends, PriceDays
      <3>3. \A i : i \in InEffect(d)' <=> i \in InEffect(d)  BY <2>5, <2>6, <3>2
      <3> QED  BY <3>3
    <2>8. \A i \in InEffect(d) : items[i].from > from => i \in InEffect(d)' /\ items'[i] = items[i]
      BY <2>4, <2>5, <2>6
    <2>9. \A i \in InEffect(d)' : items'[i].from > from => i \in InEffect(d) /\ items'[i] = items[i]
      BY <2>3, <2>4, <2>5, <2>6
    <2>10. \A i \in InEffect(d) : items'[i].from = items[i].from  BY <2>3, <2>5
    <2>11. from <= d /\ \A i \in InEffect(d) : items[i].from <= from
      BY <2>7, <2>8, <2>9, <2>10, PriceSteps
    <2> QED  BY <2>1, <2>11 DEF NoCall
  <1>4. ASSUME FinishSetPrice(u)
        PROVE  /\ call'[u] # call[u] /\ call[u].op = "setPrice" /\ call[u].from <= d
               /\ \A i \in InEffect(d) : items[i].from <= call[u].from
    <2> DEFINE from == call[u].from  to == call[u].to  n == Len(items) + 1
    <2>1. call[u].op = "setPrice" /\ call'[u] = NoCall  BY <1>0, <1>4 DEF FinishSetPrice, Leave
    <2>2. from \in PriceDays /\ to \in 1..Open
      <3>1. call[u] \in PriceListsCall \cup {NoCall}  BY <1>0
      <3> QED  BY <2>1, <3>1, PriceListsCallIs
    <2>3. items' = Append(items, [from |-> from, to |-> to])  BY <1>4 DEF FinishSetPrice
    <2> HIDE DEF from, to
    <2>4. /\ DOMAIN items' = DOMAIN items \cup {n} /\ n \notin DOMAIN items
          /\ \A i \in DOMAIN items : items'[i] = items[i]
          /\ items'[n].from = from
      BY <1>0, <2>2, <2>3
    <2> HIDE DEF n
    <2>5. \A i : i \in InEffect(d) <=> i \in DOMAIN items /\ items[i].from <= d /\ d <= items[i].to
      BY DEF InEffect
    <2>6. \A i : i \in InEffect(d)' <=> i \in DOMAIN items' /\ items'[i].from <= d /\ d <= items'[i].to
      BY DEF InEffect
    <2>7. InEffect(d)' # InEffect(d) => from <= d
      <3> SUFFICES ASSUME ~ (from <= d) PROVE InEffect(d)' = InEffect(d)
        OBVIOUS
      <3>1. \A i : i \in InEffect(d)' <=> i \in InEffect(d)  BY <2>4, <2>5, <2>6
      <3> QED  BY <3>1
    <2>8. \A i \in InEffect(d) : items'[i].from = items[i].from /\ i \in InEffect(d)' /\ items'[i] = items[i]
      BY <2>4, <2>5, <2>6
    <2>9. \A i \in InEffect(d)' : items'[i].from > from => i \in InEffect(d) /\ items'[i] = items[i]
      <3>1. from \in Int  BY <2>2 DEF PriceDays
      <3> QED  BY <2>4, <2>5, <2>6, <3>1
    <2>10. from <= d /\ \A i \in InEffect(d) : items[i].from <= from
      BY <2>2, <2>7, <2>8, <2>9, PriceSteps
    <2> QED  BY <2>1, <2>10 DEF NoCall, from
  <1>5. CASE FinishSetPrice(u)
    <2> DEFINE c == call[u]
    <2>1. c \in {call[u], call'[u]}  OBVIOUS
    <2> QED  BY <1>4, <1>5
  <1>6. CASE \E from \in PriceDays, to \in 1..Open : StartSetPrice(u, from, to)
    BY <1>3, <1>6
  <1> QED  BY <1>2, <1>5, <1>6

-----------------------------------------------------------------------------
(* A licence key, its devices and its period.                              *)

(* A period, as it is or as a call has read it, ends at most a cycle after *)
(* the window of its last change for every window until then.              *)
Extended(row, by) ==
  /\ row \in Period
  /\ row.changed <= by
  /\ row.ends <= Cycle * (row.changed + 1) + 1

PeriodsExtended ==
  /\ Extended(period, window)
  /\ \A u \in Users : call[u].op \in {"renew", "renewing"} => Extended(call[u].read, window)

LicensingInv == LicensingTypeOK /\ PeriodsExtended

LEMMA CyclesAddUp ==
  \A m \in Nat, n \in Nat : m <= n =>
    /\ Cycle * m \in Int /\ Cycle * n \in Int /\ Cycle * m <= Cycle * n
    /\ Cycle * (n + 1) = Cycle * n + Cycle
  <1> USE LicensingAssumption DEF LicensingAssumption
  <1> SUFFICES ASSUME NEW m \in Nat, NEW n \in Nat, m <= n
               PROVE  /\ Cycle * m \in Int /\ Cycle * n \in Int /\ Cycle * m <= Cycle * n
                      /\ Cycle * (n + 1) = Cycle * n + Cycle
    OBVIOUS
  <1>1. Cycle * (n + 1) = Cycle * n + Cycle  OBVIOUS
  <1>2. Cycle * m <= Cycle * n
    <2> DEFINE k == n - m
    <2>1. k \in Nat /\ n = m + k  OBVIOUS
    <2> HIDE DEF k
    <2>2. Cycle * n = Cycle * m + Cycle * k  BY <2>1
    <2>3. Cycle * k >= 0  BY <2>1
    <2> QED  BY <2>1, <2>2, <2>3
  <1> QED  BY <1>1, <1>2

LEMMA LicensingCallIs ==
  ASSUME NEW c \in LicensingCall \cup {NoCall}
  PROVE  /\ c.op \in {"renew", "renewing"} =>
              c.doc \in Devices /\ c.read \in Period /\ [c EXCEPT !.op = "renewing"] \in LicensingCall
              /\ [c EXCEPT !.op = "renewing"].op = "renewing"
              /\ [c EXCEPT !.op = "renewing"].read = c.read
         /\ c.op \in {"bind", "rebind"} => c.doc \in Devices
  <1>1. CASE c \in [op : {"renew", "renewing"}, doc : Devices, read : Period]
    <2>1. c.op \notin {"bind", "rebind"} /\ c.doc \in Devices /\ c.read \in Period  BY <1>1
    <2>2. [c EXCEPT !.op = "renewing"] \in [op : {"renew", "renewing"}, doc : Devices, read : Period]
      BY <1>1
    <2>3. [c EXCEPT !.op = "renewing"].op = "renewing"  BY <1>1
    <2>4. [c EXCEPT !.op = "renewing"].read = c.read  BY <1>1
    <2> QED  BY <2>1, <2>2, <2>3, <2>4 DEF LicensingCall
  <1>2. CASE c \in [op : {"bind", "rebind"}, doc : Devices, read : BOOLEAN]
    <2>1. c.op \notin {"renew", "renewing"} /\ c.doc \in Devices  BY <1>2
    <2> QED  BY <2>1
  <1>3. CASE c = NoCall
    BY <1>3 DEF NoCall
  <1> QED  BY <1>1, <1>2, <1>3 DEF LicensingCall

(* What is left to show of a step: its rows, and that its calls have read  *)
(* a period so extended.                                                   *)
CallsExtended(calls) ==
  /\ calls \in [Users -> LicensingCall \cup {NoCall}]
  /\ \A u \in Users : calls[u].op \in {"renew", "renewing"} => Extended(calls[u].read, window)

LEMMA LicensingEntered ==
  ASSUME LicensingInv, NEW u \in Users, NEW c \in LicensingCall \cup {NoCall},
         call' = [call EXCEPT ![u] = c], c.op \in {"renew", "renewing"} => Extended(c.read, window)
  PROVE  CallsExtended(call')
  <1>1. call' \in [Users -> LicensingCall \cup {NoCall}]
    BY DEF LicensingInv, LicensingTypeOK
  <1>2. \A v \in Users : call'[v] = IF v = u THEN c ELSE call[v]
    BY DEF LicensingInv, LicensingTypeOK
  <1>3. ASSUME NEW v \in Users, call'[v].op \in {"renew", "renewing"}
        PROVE  Extended(call'[v].read, window)
    <2>1. CASE v = u
      <3>1. call'[v] = c  BY <1>2, <2>1
      <3> QED  BY <3>1, <1>3
    <2>2. CASE v # u
      <3>1. call'[v] = call[v]  BY <1>2, <2>2
      <3> QED  BY <3>1, <1>3 DEF LicensingInv, PeriodsExtended
    <2> QED  BY <2>1, <2>2
  <1> QED  BY <1>1, <1>3 DEF CallsExtended

LEMMA LicensingLeft ==
  ASSUME LicensingInv, NEW u \in Users, Leave(u)
  PROVE  CallsExtended(call')
  <1>1. NoCall.op \notin {"renew", "renewing"}  BY DEF NoCall
  <1> QED  BY <1>1, LicensingEntered DEF Leave

LEMMA LicensingCallsKept ==
  ASSUME LicensingInv, UNCHANGED call
  PROVE  CallsExtended(call')
  BY DEF LicensingInv, LicensingTypeOK, PeriodsExtended, CallsExtended

LEMMA LicensingKept ==
  ASSUME LicensingInv, window' \in 1..MaxWindow, window <= window', revoked' \in BOOLEAN,
         bound' \in [Devices -> {"none", "active", "revoked"}], Extended(period', window'),
         CallsExtended(call')
  PROVE  LicensingInv'
  <1>1. LicensingTypeOK'
    BY DEF LicensingTypeOK, Extended, CallsExtended
  <1>2. window \in Int  BY DEF LicensingInv, LicensingTypeOK
  <1>3. window' \in Int  OBVIOUS
  <1>4. ASSUME NEW row, Extended(row, window)
        PROVE  Extended(row, window')
    <2>1. row.changed \in Int  BY <1>4 DEF Extended, Period
    <2> QED  BY <1>2, <1>3, <1>4, <2>1 DEF Extended
  <1>5. \A u \in Users : call'[u].op \in {"renew", "renewing"} => Extended(call'[u].read, window')
    BY <1>4 DEF CallsExtended
  <1> QED  BY <1>1, <1>5 DEF LicensingInv, PeriodsExtended

LEMMA LicensingInductive ==
  ASSUME LicensingInv, [LicensingNext]_licensingVars
  PROVE  LicensingInv'
  <1> USE LicensingAssumption DEF LicensingAssumption
  <1>0. /\ \A u \in Users : call[u] \in LicensingCall \cup {NoCall}
        /\ window \in 1..MaxWindow /\ revoked \in BOOLEAN
        /\ bound \in [Devices -> {"none", "active", "revoked"}]
        /\ Extended(period, window)
    BY DEF LicensingInv, LicensingTypeOK, PeriodsExtended
  <1>1. ASSUME UNCHANGED licensingTables, CallsExtended(call')
        PROVE  LicensingInv'
    <2>1. window' \in 1..MaxWindow /\ window <= window' /\ revoked' \in BOOLEAN
          /\ bound' \in [Devices -> {"none", "active", "revoked"}]
      BY <1>1, <1>0 DEF licensingTables
    <2>2. Extended(period', window')  BY <1>1, <1>0 DEF licensingTables
    <2> QED  BY <1>1, <2>1, <2>2, LicensingKept
  <1>2. ASSUME NextWindow
        PROVE  LicensingInv'
    <2>1. window' = window + 1 /\ window < MaxWindow /\ UNCHANGED <<period, revoked, bound, call>>
      BY <1>2 DEF NextWindow
    <2>2. period.changed \in Int  BY <1>0 DEF Extended, Period
    <2>3. Extended(period', window')
      BY <2>1, <2>2, <1>0 DEF Extended
    <2>4. window' \in 1..MaxWindow /\ window <= window'  BY <2>1, <1>0
    <2>5. CallsExtended(call')  BY <2>1, LicensingCallsKept
    <2> QED  BY <2>1, <1>0, <2>3, <2>4, <2>5, LicensingKept
  <1>3. ASSUME NEW u \in Users, NEW d \in Devices, StartActivation(u, d)
        PROVE  LicensingInv'
    <2>1. PICK op \in {"bind", "rebind"} :
            call' = [call EXCEPT ![u] = [op |-> op, doc |-> d, read |-> revoked]]
      BY <1>3 DEF StartActivation, Enter
    <2> DEFINE c == [op |-> op, doc |-> d, read |-> revoked]
    <2>2. c \in LicensingCall /\ c.op \notin {"renew", "renewing"}  BY <1>0 DEF LicensingCall
    <2>3. call' = [call EXCEPT ![u] = c] /\ UNCHANGED licensingTables
      BY <1>3, <2>1 DEF StartActivation
    <2> HIDE DEF c
    <2>4. CallsExtended(call')  BY <2>2, <2>3, LicensingEntered
    <2> QED  BY <1>1, <2>3, <2>4
  <1>4. ASSUME UNCHANGED <<window, period>>, revoked' \in BOOLEAN,
               bound' \in [Devices -> {"none", "active", "revoked"}], CallsExtended(call')
        PROVE  LicensingInv'
    <2>1. window' \in 1..MaxWindow /\ window <= window'  BY <1>4, <1>0
    <2>2. Extended(period', window')  BY <1>4, <1>0
    <2> QED  BY <1>4, <2>1, <2>2, LicensingKept
  <1>5. ASSUME NEW u \in Users, FinishActivation(u)
        PROVE  LicensingInv'
    <2>1. bound' \in [Devices -> {"none", "active", "revoked"}]
      BY <1>5, <1>0 DEF FinishActivation
    <2>2. CallsExtended(call')  BY <1>5, LicensingLeft DEF FinishActivation
    <2>3. revoked' \in BOOLEAN /\ UNCHANGED <<window, period>>
      BY <1>5, <1>0 DEF FinishActivation
    <2> QED  BY <1>4, <2>1, <2>2, <2>3
  <1>6. ASSUME NEW d \in Devices, RevokeDevice(d)
        PROVE  LicensingInv'
    <2>1. bound' \in [Devices -> {"none", "active", "revoked"}]
      BY <1>6, <1>0 DEF RevokeDevice
    <2>2. revoked' \in BOOLEAN /\ UNCHANGED <<window, period, call>>
      BY <1>6, <1>0 DEF RevokeDevice
    <2>3. CallsExtended(call')  BY <2>2, LicensingCallsKept
    <2> QED  BY <1>4, <2>1, <2>2, <2>3
  <1>7. ASSUME RevokeKey
        PROVE  LicensingInv'
    <2>1. bound' \in [Devices -> {"none", "active", "revoked"}]
      BY <1>7, <1>0 DEF RevokeKey, RevokedDevices
    <2>2. revoked' \in BOOLEAN /\ UNCHANGED <<window, period, call>>
      BY <1>7 DEF RevokeKey
    <2>3. CallsExtended(call')  BY <2>2, LicensingCallsKept
    <2> QED  BY <1>4, <2>1, <2>2, <2>3
  <1>8. ASSUME NEW u \in Users, NEW d \in Devices, StartRenewal(u, d)
        PROVE  LicensingInv'
    <2> DEFINE c == [op |-> "renew", doc |-> d, read |-> period]
    <2>1. c \in LicensingCall /\ c.read = period  BY <1>0 DEF LicensingCall, Extended
    <2>2. call' = [call EXCEPT ![u] = c] /\ UNCHANGED licensingTables
      BY <1>8 DEF StartRenewal, Enter
    <2> HIDE DEF c
    <2>3. CallsExtended(call')  BY <1>0, <2>1, <2>2, LicensingEntered
    <2> QED  BY <1>1, <2>2, <2>3
  <1>9. ASSUME NEW u \in Users, ValidateDevice(u)
        PROVE  LicensingInv'
    <2> DEFINE c == [call[u] EXCEPT !.op = "renewing"]
    <2>1. call[u].op = "renew"  BY <1>9 DEF ValidateDevice
    <2>2. c \in LicensingCall /\ c.read = call[u].read
      BY <1>0, <2>1, LicensingCallIs
    <2>3. call' = [call EXCEPT ![u] = c] /\ UNCHANGED licensingTables
      BY <1>9 DEF ValidateDevice, Proceed
    <2>4. Extended(call[u].read, window)  BY <2>1 DEF LicensingInv, PeriodsExtended
    <2> HIDE DEF c
    <2>5. Extended(c.read, window)  BY <2>2, <2>4
    <2>6. CallsExtended(call')  BY <2>2, <2>3, <2>5, LicensingEntered
    <2> QED  BY <1>1, <2>3, <2>6
  <1>10. ASSUME NEW ends \in Int, 1 <= ends, ends <= Cycle * (window + 1) + 1,
                period' = [ends |-> ends, changed |-> window],
                UNCHANGED <<window, revoked, bound>>, CallsExtended(call')
         PROVE  LicensingInv'
    <2>1. window + 1 <= MaxWindow + 1 /\ window + 1 \in Nat /\ MaxWindow + 1 \in Nat
      BY <1>0
    <2>2. Cycle * (window + 1) \in Int /\ Cycle * (window + 1) <= Cycle * (MaxWindow + 1)
          /\ Cycle * (MaxWindow + 1 + 1) = Cycle * (MaxWindow + 1) + Cycle
          /\ Cycle * (MaxWindow + 1) \in Int
      BY <2>1, CyclesAddUp
    <2>3. MaxWindow + 1 + 1 = MaxWindow + 2  OBVIOUS
    <2>4. ends \in 1..Cycle * (MaxWindow + 2)  BY <1>10, <2>2, <2>3
    <2>5. Extended(period', window')  BY <1>10, <2>4, <1>0 DEF Extended, Period
    <2>6. window' \in 1..MaxWindow /\ window <= window' /\ revoked' \in BOOLEAN
          /\ bound' \in [Devices -> {"none", "active", "revoked"}]
      BY <1>10, <1>0
    <2> QED  BY <1>10, <2>5, <2>6, LicensingKept
  <1>11. window <= Cycle * window /\ Cycle * (window + 1) = Cycle * window + Cycle
         /\ Cycle * window \in Int
    <2>1. Cycle * (window + 1) = Cycle * window + Cycle /\ Cycle * window \in Int
      BY <1>0, CyclesAddUp
    <2>2. \A m, n \in Nat : n > 0 => m <= n * m  OBVIOUS
    <2> QED  BY <1>0, <2>1, <2>2
  <1>12. ASSUME NEW u \in Users, FinishRenewal(u)
         PROVE  LicensingInv'
    <2> DEFINE read == call[u].read
               base == IF read.ends > window THEN read.ends ELSE window
    <2>1. Extended(read, window)  BY <1>12 DEF FinishRenewal, LicensingInv, PeriodsExtended
    <2>2. /\ UNCHANGED <<window, revoked, bound>>
          /\ \/ UNCHANGED period
             \/ /\ ~(read.ends > window /\ read.changed = window)
                /\ period' = [ends |-> base + Cycle, changed |-> window]
      BY <1>12 DEF FinishRenewal, JustExtended
    <2>3. CallsExtended(call')  BY <1>12, LicensingLeft DEF FinishRenewal
    <2>4. CASE UNCHANGED period
      <3>1. UNCHANGED licensingTables  BY <2>2, <2>4 DEF licensingTables
      <3> QED  BY <1>1, <2>3, <3>1
    <2>5. CASE ~(read.ends > window /\ read.changed = window)
               /\ period' = [ends |-> base + Cycle, changed |-> window]
      <3> DEFINE ends == base + Cycle
      <3>1. PICK e \in Int, ch \in Nat : e = read.ends /\ ch = read.changed
        BY <2>1 DEF Extended, Period
      <3>2. 1 <= e /\ ch <= window /\ e <= Cycle * (ch + 1) + 1
        BY <2>1, <3>1 DEF Extended, Period
      <3>3. ~(e > window /\ ch = window) /\ base = IF e > window THEN e ELSE window
        BY <2>5, <3>1
      <3> HIDE DEF read, base
      <3>4. ends \in Int /\ 1 <= ends /\ ends <= Cycle * (window + 1) + 1
        <4>1. CASE e > window
          <5>1. base = e /\ ch + 1 <= window  BY <4>1, <3>2, <3>3, <1>0
          <5>2. Cycle * (ch + 1) \in Int /\ Cycle * (ch + 1) <= Cycle * window
            BY <5>1, <1>0, CyclesAddUp
          <5> QED  BY <5>1, <5>2, <3>2, <1>11
        <4>2. CASE ~(e > window)
          <5>1. base = window  BY <4>2, <3>3
          <5> QED  BY <5>1, <1>0, <1>11
        <4> QED  BY <4>1, <4>2
      <3>5. period' = [ends |-> ends, changed |-> window]  BY <2>5
      <3> HIDE DEF ends
      <3> QED  BY <1>10, <2>2, <2>3, <3>4, <3>5
    <2> QED  BY <2>2, <2>4, <2>5
  <1>13. ASSUME Issue
         PROVE  LicensingInv'
    <2> DEFINE ends == window + Cycle
    <2>1. ends \in Int /\ 1 <= ends /\ ends <= Cycle * (window + 1) + 1
      BY <1>0, <1>11
    <2>2. period' = [ends |-> ends, changed |-> window] /\ UNCHANGED <<window, revoked, bound, call>>
      BY <1>13 DEF Issue
    <2>3. CallsExtended(call')  BY <2>2, LicensingCallsKept
    <2> HIDE DEF ends
    <2> QED  BY <1>10, <2>1, <2>2, <2>3
  <1>14. ASSUME TouchSubscription
         PROVE  LicensingInv'
    <2>1. PICK e \in Int, ch \in Nat : period = [ends |-> e, changed |-> ch]
      BY <1>0 DEF Extended, Period
    <2>2. 1 <= e /\ ch <= window /\ e <= Cycle * (ch + 1) + 1
      BY <1>0, <2>1 DEF Extended, Period
    <2>3. Cycle * (ch + 1) <= Cycle * (window + 1) /\ Cycle * (ch + 1) \in Int
          /\ Cycle * (window + 1) \in Int
      BY <1>0, <2>2, CyclesAddUp
    <2>4. UNCHANGED <<window, revoked, bound, call>>
      BY <1>14 DEF TouchSubscription
    <2>5. period' = [ends |-> e, changed |-> window]  BY <1>14, <2>1 DEF TouchSubscription
    <2>6. e <= Cycle * (window + 1) + 1  BY <2>2, <2>3
    <2>7. CallsExtended(call')  BY <2>4, LicensingCallsKept
    <2> QED  BY <1>10, <2>2, <2>4, <2>5, <2>6, <2>7
  <1>15. ASSUME NEW u \in Users, LicensingFails(u)
         PROVE  LicensingInv'
    <2>1. CallsExtended(call')  BY <1>15, LicensingLeft DEF LicensingFails, Fails
    <2> QED  BY <1>1, <1>15, <2>1 DEF LicensingFails
  <1>16. CASE UNCHANGED licensingVars
    <2>1. UNCHANGED licensingTables /\ UNCHANGED call  BY <1>16 DEF licensingVars
    <2>2. CallsExtended(call')  BY <2>1, LicensingCallsKept
    <2> QED  BY <1>1, <2>1, <2>2
  <1> QED
    BY <1>2, <1>3, <1>5, <1>6, <1>7, <1>8, <1>9, <1>12, <1>13, <1>14, <1>15, <1>16
    DEF LicensingNext

LEMMA LicensingStart == LicensingInit => LicensingInv
  <1> USE LicensingAssumption DEF LicensingAssumption
  <1> SUFFICES ASSUME LicensingInit PROVE LicensingInv
    OBVIOUS
  <1>1. Cycle * (1 + 1) = Cycle * 1 + Cycle /\ Cycle * 1 = Cycle
    OBVIOUS
  <1>2. Cycle * 3 <= Cycle * (MaxWindow + 2) /\ Cycle * 3 = Cycle + Cycle + Cycle
        /\ Cycle * (MaxWindow + 2) \in Int
    BY CyclesAddUp
  <1>3. Extended(period, window)
    BY <1>1, <1>2 DEF LicensingInit, Extended, Period
  <1>4. \A u \in Users : call[u] = NoCall /\ NoCall.op = "idle"
    BY DEF LicensingInit, CallsInit, NoCall
  <1>5. call \in [Users -> LicensingCall \cup {NoCall}]
    BY DEF LicensingInit, CallsInit
  <1>6. window \in 1..MaxWindow  BY DEF LicensingInit
  <1>7. bound \in [Devices -> {"none", "active", "revoked"}] /\ revoked \in BOOLEAN
    BY DEF LicensingInit
  <1>8. LicensingTypeOK
    BY <1>3, <1>5, <1>6, <1>7 DEF LicensingTypeOK, Extended
  <1> QED
    BY <1>3, <1>4, <1>8 DEF LicensingInv, PeriodsExtended

LEMMA LicensingBounded == LicensingInv => RenewedOncePerWindow
  <1> SUFFICES ASSUME LicensingInv PROVE RenewedOncePerWindow
    OBVIOUS
  <1> DEFINE ch == period.changed
  <1>1. /\ window \in Nat /\ ch \in Nat /\ ch + 1 <= window + 1 /\ period.ends \in Int
        /\ period.ends <= Cycle * (ch + 1) + 1
    BY DEF LicensingInv, LicensingTypeOK, PeriodsExtended, Extended, Period
  <1>2. Cycle * (ch + 1) <= Cycle * (window + 1) /\ Cycle * (ch + 1) \in Int
        /\ Cycle * (window + 1) \in Int
    BY <1>1, CyclesAddUp
  <1> QED  BY <1>1, <1>2 DEF RenewedOncePerWindow

(* An activation had read a key that was not revoked.                      *)
ActivationsReadValid == \A u \in Users : call[u].op \in {"bind", "rebind"} => call[u].read = FALSE

LEMMA ActivationsReadValidStill ==
  ASSUME LicensingTypeOK, ActivationsReadValid, [LicensingNext]_licensingVars
  PROVE  ActivationsReadValid'
  <1>0. call \in [Users -> LicensingCall \cup {NoCall}] /\ revoked \in BOOLEAN  BY DEF LicensingTypeOK
  <1>1. ASSUME NEW u \in Users, NEW c, call' = [call EXCEPT ![u] = c],
               c.op \in {"bind", "rebind"} => c.read = FALSE
        PROVE  ActivationsReadValid'
    BY <1>0, <1>1 DEF ActivationsReadValid
  <1>2. ASSUME NEW u \in Users, NEW d \in Devices, StartActivation(u, d)
        PROVE  ActivationsReadValid'
    BY <1>0, <1>1, <1>2 DEF StartActivation, Enter
  <1>3. ASSUME NEW u \in Users, NEW d \in Devices, StartRenewal(u, d)
        PROVE  ActivationsReadValid'
    BY <1>1, <1>3 DEF StartRenewal, Enter
  <1>4. ASSUME NEW u \in Users, ValidateDevice(u)
        PROVE  ActivationsReadValid'
    <2>1. call' = [call EXCEPT ![u] = [call[u] EXCEPT !.op = "renewing"]] /\ call[u].op = "renew"
      BY <1>4 DEF ValidateDevice, Proceed
    <2>2. call[u] \in LicensingCall  BY <1>0, <2>1 DEF NoCall
    <2>3. [call[u] EXCEPT !.op = "renewing"].op = "renewing"  BY <2>1, <2>2 DEF LicensingCall
    <2> QED  BY <1>1, <2>1, <2>3
  <1>5. ASSUME NEW u \in Users, Leave(u)
        PROVE  ActivationsReadValid'
    BY <1>1, <1>5 DEF Leave, NoCall
  <1>6. ASSUME NEW u \in Users, FinishActivation(u) \/ FinishRenewal(u) \/ LicensingFails(u)
        PROVE  Leave(u)
    BY Zenon, <1>6 DEF FinishActivation, FinishRenewal, LicensingFails, Fails
  <1>7. \/ NextWindow \/ RevokeKey \/ Issue \/ TouchSubscription \/ UNCHANGED licensingVars
        \/ \E d \in Devices : RevokeDevice(d)
        => UNCHANGED call
    BY DEF NextWindow, RevokeKey, Issue, TouchSubscription, RevokeDevice, licensingVars
  <1>8. UNCHANGED call => ActivationsReadValid'  BY DEF ActivationsReadValid
  <1> QED  BY <1>2, <1>3, <1>4, <1>5, <1>6, <1>7, <1>8 DEF LicensingNext

LEMMA RevokedIsNotBound ==
  ASSUME LicensingTypeOK, ActivationsReadValid, [LicensingNext]_licensingVars, revoked,
         \A u \in Users : call[u].op \in {"bind", "rebind"} => call[u].read = revoked,
         NEW d \in Devices, bound'[d] = "active"
  PROVE  bound[d] = "active"
  <1>0. bound \in [Devices -> {"none", "active", "revoked"}]  BY DEF LicensingTypeOK
  <1>1. \A u \in Users : ~ FinishActivation(u)
    <2> SUFFICES ASSUME NEW u \in Users, FinishActivation(u) PROVE FALSE
      OBVIOUS
    <2>1. call[u].read = FALSE /\ call[u].read = revoked
      BY DEF FinishActivation, ActivationsReadValid
    <2> QED  BY <2>1
  <1>2. \/ UNCHANGED bound \/ bound' = RevokedDevices
        \/ \E e \in Devices : bound' = [bound EXCEPT ![e] = "revoked"]
    BY <1>1 DEF LicensingNext, licensingVars, licensingTables, NextWindow, RevokeKey, Issue,
       TouchSubscription, RevokeDevice, StartActivation, StartRenewal, ValidateDevice, FinishRenewal,
       LicensingFails
  <1> QED  BY <1>0, <1>2 DEF RevokedDevices

-----------------------------------------------------------------------------
(* The trial of a tenant and its notices.                                  *)

(* A subscription in grace or expired has had its days of grace.           *)
HadGrace(stands, log) ==
  /\ stands = "grace" => "grace" \in log
  /\ stands = "expired" => "grace" \in log /\ "expired" \in log

(* What a call found due, or read, had its days of grace; and who claimed  *)
(* a threshold has not sent its notice.                                    *)
Earned(c, log, sent) ==
  /\ c.op \in {"scan", "claimed"} => (c.due = "expired" => "grace" \in log)
  /\ c.op = "claimed" => c.due \in log /\ sent[c.due] = 0
  /\ c.op \in {"extend", "admin extend", "convert"} => HadGrace(c.read.status, log)

ClaimedByOne ==
  \A u, v \in Users :
    call[u].op = "claimed" /\ call[v].op = "claimed" /\ call[u].due = call[v].due => u = v

TrialsInv ==
  /\ TrialsTypeOK /\ NoticeOnce /\ HadGrace(trial.status, claimed)
  /\ \A u \in Users : Earned(call[u], claimed, notices)
  /\ ClaimedByOne

LEMMA TrialRowIs ==
  \A row \in TrialRow :
    /\ row.status \in {"trial", "grace", "active", "suspended", "expired"}
    /\ row.ends \in Nat /\ row.graceEnds \in Nat
  BY DEF TrialRow

LEMMA TrialsCallIs ==
  ASSUME NEW c \in TrialsCall \cup {NoCall}
  PROVE  /\ c.op \in {"scan", "claimed"} => c \in TrialsCall /\ c.due \in Thresholds
         /\ c.op \in {"extend", "admin extend", "convert"} => c.read \in TrialRow
  <1>1. CASE c \in [op : {"scan", "claimed"}, due : Thresholds]
    BY Zenon, <1>1 DEF TrialsCall
  <1>2. CASE c \in [op : {"extend", "admin extend", "convert"}, read : TrialRow]
    <2>1. c.op \in {"extend", "admin extend", "convert"} /\ c.read \in TrialRow  BY Zenon, <1>2
    <2> QED  BY Zenon, <2>1
  <1>3. CASE c = NoCall
    BY <1>3 DEF NoCall
  <1> QED  BY Zenon, <1>1, <1>2, <1>3 DEF TrialsCall

(* A step that writes the subscription and may leave a call.               *)
LEMMA TrialWritten ==
  ASSUME TrialsInv, trial' \in TrialRow, HadGrace(trial'.status, claimed),
         today' \in 1..LastDay, UNCHANGED <<claimed, notices>>,
         call' = call \/ \E u \in Users : call' = [call EXCEPT ![u] = NoCall]
  PROVE  TrialsInv'
  <1>1. /\ call' \in [Users -> TrialsCall \cup {NoCall}]
        /\ \A u \in Users : call'[u] = call[u] \/ call'[u].op = "idle"
    BY DEF TrialsInv, TrialsTypeOK, NoCall
  <1>2. \A u \in Users : Earned(call'[u], claimed, notices)
    BY Zenon, <1>1 DEF TrialsInv, Earned
  <1>3. ClaimedByOne'  BY <1>1 DEF TrialsInv, ClaimedByOne
  <1>4. TrialsTypeOK'  BY <1>1 DEF TrialsInv, TrialsTypeOK
  <1>5. NoticeOnce'  BY DEF TrialsInv, NoticeOnce
  <1> QED  BY <1>2, <1>3, <1>4, <1>5 DEF TrialsInv

LEMMA TrialsInductive ==
  ASSUME TrialsInv, [TrialsNext]_trialsVars
  PROVE  TrialsInv'
  <1> USE TrialsAssumption DEF TrialsAssumption
  <1>0. /\ \A u \in Users : call[u] \in TrialsCall \cup {NoCall}
        /\ trial \in TrialRow /\ today \in 1..LastDay /\ HadGrace(trial.status, claimed)
    BY DEF TrialsInv, TrialsTypeOK
  <1>1. ASSUME NextDay
        PROVE  TrialsInv'
    BY <1>1, <1>0, TrialWritten DEF NextDay
  <1>2. ASSUME NEW stands \in {"active", "suspended"}, SetStatus(stands)
        PROVE  TrialsInv'
    <2>1. trial' \in TrialRow  BY <1>2, <1>0 DEF SetStatus, TrialRow
    <2>2. trial'.status = stands  BY <1>2, <1>0 DEF SetStatus, TrialRow
    <2> QED  BY <1>2, <1>0, <2>1, <2>2, TrialWritten DEF SetStatus, HadGrace
  <1>3. ASSUME NEW ends \in {0, trial.graceEnds}, MakeActive(ends)
        PROVE  TrialsInv'
    <2>1. ends \in Nat  BY <1>0, TrialRowIs
    <2>2. trial' \in TrialRow  BY <1>3, <1>0, <2>1 DEF MakeActive, TrialRow
    <2>3. trial'.status = "active"  BY <1>3, <1>0, <2>1 DEF MakeActive, TrialRow
    <2> QED  BY <1>3, <1>0, <2>2, <2>3, TrialWritten DEF MakeActive, HadGrace
  <1>4. ASSUME NEW u \in Users, NEW t \in Thresholds, StartScan(u, t)
        PROVE  TrialsInv'
    <2> DEFINE c == [op |-> "scan", due |-> t]
    <2>1. c \in TrialsCall /\ c.op = "scan" /\ c.due = t  BY DEF TrialsCall
    <2>2. t = "expired" => "grace" \in claimed
      BY <1>4, <1>0 DEF StartScan, Due, HadGrace
    <2>3. call' = [call EXCEPT ![u] = c] /\ UNCHANGED trialsTables
      BY <1>4 DEF StartScan, Enter
    <2> HIDE DEF c
    <2>4. \A v \in Users : call'[v] = IF v = u THEN c ELSE call[v]
      BY <2>3 DEF TrialsInv, TrialsTypeOK
    <2>5. (\A v \in Users : Earned(call'[v], claimed, notices)) /\ ClaimedByOne'
      BY Zenon, <2>1, <2>2, <2>4 DEF TrialsInv, Earned, ClaimedByOne
    <2> QED
      BY <2>1, <2>3, <2>5 DEF TrialsInv, TrialsTypeOK, NoticeOnce, trialsTables
  <1>5. ASSUME NEW u \in Users, StartTrialStep(u)
        PROVE  TrialsInv'
    <2>1. PICK op \in {"extend", "admin extend", "convert"} :
            call' = [call EXCEPT ![u] = [op |-> op, read |-> trial]]
      BY Zenon, <1>5 DEF StartTrialStep, Enter
    <2> DEFINE c == [op |-> op, read |-> trial]
    <2>2. c \in TrialsCall /\ c.op = op /\ c.read = trial  BY Zenon, <1>0 DEF TrialsCall
    <2>3. call' = [call EXCEPT ![u] = c] /\ UNCHANGED trialsTables
      BY Zenon, <1>5, <2>1 DEF StartTrialStep
    <2> HIDE DEF c
    <2>4. \A v \in Users : call'[v] = IF v = u THEN c ELSE call[v]
      BY Zenon, <2>3 DEF TrialsInv, TrialsTypeOK
    <2>5. (\A v \in Users : Earned(call'[v], claimed, notices)) /\ ClaimedByOne'
      BY Zenon, <1>0, <2>2, <2>4 DEF TrialsInv, Earned, ClaimedByOne
    <2> QED
      BY Zenon, <2>2, <2>3, <2>5 DEF TrialsInv, TrialsTypeOK, NoticeOnce, trialsTables
  <1>6. ASSUME NEW u \in Users, call[u].op \in {"extend", "admin extend", "convert"}
        PROVE  call[u].read \in TrialRow /\ HadGrace(call[u].read.status, claimed)
    BY Zenon, <1>6, <1>0, TrialsCallIs DEF TrialsInv, Earned
  <1>7. ASSUME NEW u \in Users, ExtendTrial(u)
        PROVE  TrialsInv'
    <2>1. trial' \in TrialRow /\ trial'.status = "trial"
      <3>1. call[u].read.ends \in Nat /\ call[u].read.graceEnds \in Nat
        BY Zenon, <1>6, <1>7, TrialRowIs DEF ExtendTrial
      <3> QED  BY <1>7, <3>1 DEF ExtendTrial, TrialRow
    <2> QED  BY <1>7, <1>0, <2>1, TrialWritten DEF ExtendTrial, Leave, HadGrace
  <1>8. ASSUME NEW u \in Users, AdminExtendTrial(u)
        PROVE  TrialsInv'
    <2> DEFINE stands == IF call[u].read.status = "expired" THEN "trial" ELSE call[u].read.status
               n == call[u].read.ends + 1
    <2>1. call[u].read \in TrialRow  BY Zenon, <1>6, <1>8 DEF AdminExtendTrial
    <2>2. /\ stands \in {"trial", "grace", "active", "suspended", "expired"}
          /\ n \in Nat /\ HadGrace(stands, claimed)
      <3>1. HadGrace(call[u].read.status, claimed)  BY Zenon, <1>6, <1>8 DEF AdminExtendTrial
      <3> QED  BY <2>1, <3>1, TrialRowIs DEF HadGrace
    <2>3. trial' = [trial EXCEPT !.status = stands, !.ends = n]  BY Zenon, <1>8 DEF AdminExtendTrial
    <2> HIDE DEF stands, n
    <2>4. trial' \in TrialRow  BY <2>2, <2>3, <1>0 DEF TrialRow
    <2>5. trial'.status = stands  BY <2>2, <2>3, <1>0 DEF TrialRow
    <2> QED  BY Zenon, <1>8, <1>0, <2>2, <2>4, <2>5, TrialWritten DEF AdminExtendTrial, Leave
  <1>9. ASSUME NEW u \in Users, ConvertTrial(u)
        PROVE  TrialsInv'
    <2>1. trial' \in TrialRow /\ trial'.status = "active"
      BY <1>9, <1>0 DEF ConvertTrial, TrialRow
    <2> QED  BY <1>9, <1>0, <2>1, TrialWritten DEF ConvertTrial, Leave, HadGrace
  <1>10. ASSUME NEW u \in Users, Claim(u)
         PROVE  TrialsInv'
    <2> DEFINE t == call[u].due  c == [call[u] EXCEPT !.op = "claimed"]
    <2>1. call[u].op = "scan" /\ call[u] \in TrialsCall /\ t \in Thresholds /\ t \notin claimed
      BY Zenon, <1>10, <1>0, TrialsCallIs DEF Claim
    <2>2. c \in TrialsCall /\ c.op = "claimed" /\ c.due = t  BY Zenon, <2>1 DEF TrialsCall
    <2>3. claimed' = claimed \cup {t} /\ call' = [call EXCEPT ![u] = c]
          /\ UNCHANGED <<today, trial, notices>>
      BY <1>10 DEF Claim, Proceed
    <2> HIDE DEF c
    <2>4. notices[t] = 0
      BY <2>1 DEF TrialsInv, TrialsTypeOK, NoticeOnce
    <2>5. t = "expired" => "grace" \in claimed  BY Zenon, <2>1 DEF TrialsInv, Earned
    <2> HIDE DEF t
    <2>6. \A v \in Users : call'[v] = IF v = u THEN c ELSE call[v]
      BY <2>3 DEF TrialsInv, TrialsTypeOK
    <2>7. \A v \in Users : call[v].op = "claimed" => call[v].due # t
      BY Zenon, <2>1 DEF TrialsInv, Earned
    <2>8. \A v \in Users : Earned(call'[v], claimed', notices')
      <3> SUFFICES ASSUME NEW v \in Users  PROVE Earned(call'[v], claimed', notices')
        OBVIOUS
      <3>1. CASE v = u
        <4>1. call'[v] = c  BY <2>6, <3>1
        <4>2. Earned(c, claimed', notices')  BY <2>2, <2>3, <2>4, <2>5 DEF Earned
        <4> QED  BY <4>1, <4>2
      <3>2. CASE v # u
        <4>1. call'[v] = call[v] /\ Earned(call[v], claimed, notices)
          BY <2>6, <3>2 DEF TrialsInv
        <4> DEFINE d == call[v]
        <4>2. Earned(d, claimed, notices)  BY <4>1
        <4> HIDE DEF d
        <4>3. Earned(d, claimed', notices')  BY Zenon, <2>3, <4>2 DEF Earned, HadGrace
        <4> QED  BY <4>1, <4>3 DEF d
      <3> QED  BY <3>1, <3>2
    <2>11. ClaimedByOne'
      BY <2>2, <2>6, <2>7 DEF TrialsInv, ClaimedByOne
    <2>9. TrialsTypeOK'  BY <2>1, <2>2, <2>3 DEF TrialsInv, TrialsTypeOK, Thresholds
    <2>10. NoticeOnce' /\ HadGrace(trial.status, claimed')
      BY <2>3, <2>4 DEF TrialsInv, TrialsTypeOK, NoticeOnce, HadGrace
    <2> QED  BY <2>3, <2>8, <2>9, <2>10, <2>11 DEF TrialsInv
  <1>11. ASSUME NEW u \in Users, FinishScan(u)
         PROVE  TrialsInv'
    <2> DEFINE t == call[u].due
    <2>1. call[u].op = "claimed" /\ t \in Thresholds /\ t \in claimed /\ notices[t] = 0
      <3>1. call[u].op = "claimed"  BY <1>11 DEF FinishScan
      <3> QED  BY Zenon, <3>1, <1>0, TrialsCallIs DEF TrialsInv, Earned
    <2>2. \A v \in Users : v # u /\ call[v].op = "claimed" => call[v].due # t
      BY <2>1 DEF TrialsInv, ClaimedByOne
    <2>3. t = "expired" => "grace" \in claimed  BY Zenon, <2>1 DEF TrialsInv, Earned
    <2>4. /\ trial' = IF t = "reminder" THEN trial ELSE [trial EXCEPT !.status = t]
          /\ notices' = [notices EXCEPT ![t] = @ + 1]
          /\ call' = [call EXCEPT ![u] = NoCall] /\ UNCHANGED <<today, claimed>>
      BY <1>11 DEF FinishScan, Leave
    <2> HIDE DEF t
    <2>5. \A v \in Users : call'[v] = IF v = u THEN NoCall ELSE call[v]
      BY <2>4 DEF TrialsInv, TrialsTypeOK
    <2>6. notices' \in [Thresholds -> Nat]
          /\ \A s \in Thresholds : notices'[s] = IF s = t THEN 1 ELSE notices[s]
      BY <2>1, <2>4 DEF TrialsInv, TrialsTypeOK
    <2>7. trial' \in TrialRow /\ HadGrace(trial'.status, claimed')
      <3>1. CASE t = "reminder"  BY <1>0, <2>4, <3>1
      <3>2. CASE t # "reminder"
        <4>1. t \in {"grace", "expired"}  BY <2>1, <3>2 DEF Thresholds
        <4>2. trial' = [trial EXCEPT !.status = t]  BY <2>4, <3>2
        <4>3. trial' \in TrialRow  BY <1>0, <4>1, <4>2 DEF TrialRow
        <4>4. trial'.status = t  BY <1>0, <4>1, <4>2 DEF TrialRow
        <4> QED  BY <2>1, <2>3, <2>4, <4>1, <4>3, <4>4 DEF HadGrace
      <3> QED  BY <3>1, <3>2
    <2>9. NoticeOnce'  BY <2>1, <2>4, <2>6 DEF TrialsInv, NoticeOnce
    <2>10. \A v \in Users : call[v].op = "claimed" => call[v].due \in Thresholds
      BY Zenon, <1>0, TrialsCallIs
    <2>11. \A v \in Users : Earned(call'[v], claimed', notices')
      <3> SUFFICES ASSUME NEW v \in Users  PROVE Earned(call'[v], claimed', notices')
        OBVIOUS
      <3>1. CASE v = u
        <4>1. call'[v] = NoCall  BY <2>5, <3>1
        <4>2. Earned(NoCall, claimed', notices')  BY DEF Earned, NoCall
        <4> QED  BY <4>1, <4>2
      <3>2. CASE v # u
        <4>1. call'[v] = call[v] /\ Earned(call[v], claimed, notices)
          BY <2>5, <3>2 DEF TrialsInv
        <4> DEFINE d == call[v]
        <4>2. d.op = "claimed" => d.due # t /\ d.due \in Thresholds  BY <2>2, <2>10, <3>2
        <4>3. d.op = "claimed" => d.due \in claimed /\ notices[d.due] = 0  BY <4>1 DEF Earned
        <4>4. d.op \in {"scan", "claimed"} => (d.due = "expired" => "grace" \in claimed)
          BY Zenon, <4>1 DEF Earned
        <4>5. d.op \in {"extend", "admin extend", "convert"} => HadGrace(d.read.status, claimed)
          BY Zenon, <4>1 DEF Earned
        <4> HIDE DEF d
        <4>6. d.op = "claimed" => notices'[d.due] = 0  BY <4>2, <4>3, <2>6
        <4>7. claimed' = claimed  BY <2>4
        <4>8. Earned(d, claimed', notices')  BY Zenon, <4>3, <4>4, <4>5, <4>6, <4>7 DEF Earned
        <4> QED  BY <4>1, <4>8 DEF d
      <3> QED  BY <3>1, <3>2
    <2>13. ClaimedByOne'  BY <2>5 DEF TrialsInv, ClaimedByOne, NoCall
    <2>12. TrialsTypeOK'
      BY <2>4, <2>6, <2>7 DEF TrialsInv, TrialsTypeOK
    <2> QED  BY <2>7, <2>9, <2>11, <2>12, <2>13 DEF TrialsInv
  <1>12. ASSUME NEW u \in Users, TrialsFails(u)
         PROVE  TrialsInv'
    BY <1>12, <1>0, TrialWritten DEF TrialsFails, Fails, Leave, trialsTables
  <1>13. CASE UNCHANGED trialsVars
    BY <1>13, <1>0, TrialWritten DEF trialsVars, trialsTables
  <1> QED
    BY <1>1, <1>2, <1>3, <1>4, <1>5, <1>7, <1>8, <1>9, <1>10, <1>11, <1>12, <1>13
    DEF TrialsNext

LEMMA TrialsStart == TrialsInit => TrialsInv
  <1> USE TrialsAssumption DEF TrialsAssumption
  <1>1. SUFFICES ASSUME TrialsInit PROVE TrialsInv
    OBVIOUS
  <1>2. trial \in TrialRow /\ trial.status = "trial"  BY <1>1 DEF TrialsInit, TrialRow
  <1>3. TrialsTypeOK
    BY <1>1, <1>2 DEF TrialsInit, CallsInit, TrialsTypeOK
  <1>4. NoticeOnce /\ HadGrace(trial.status, claimed)
    BY <1>1, <1>2 DEF TrialsInit, NoticeOnce, HadGrace
  <1>5. (\A u \in Users : Earned(call[u], claimed, notices)) /\ ClaimedByOne
    BY Zenon, <1>1 DEF TrialsInit, CallsInit, Earned, ClaimedByOne, NoCall
  <1> QED  BY <1>3, <1>4, <1>5 DEF TrialsInv

LEMMA TrialsEarned == TrialsInv => TrialsTypeOK /\ NoticeOnce /\ ExpiredAfterGrace
  BY DEF TrialsInv, HadGrace, ExpiredAfterGrace

-----------------------------------------------------------------------------
(* The invoices of a subscription's periods.                               *)

Over(p, latest, hasEnded) == p < latest \/ (p = latest /\ hasEnded)

(* Every call is about a period that is over.                              *)
CallsAreOver(calls) ==
  /\ calls \in [Users -> BillingCall \cup {NoCall}]
  /\ \A u \in Users : calls[u] # NoCall => Over(calls[u].doc, current, ended)

(* The table of payments, beside what it makes of the invoices.           *)
RecordedOnce(recorded, invoices) ==
  \A p \in Periods :
    /\ \A r \in References : recorded[p][r] <= 1
    /\ invoices[p] = "paid" => \E r \in Given : recorded[p][r] > 0

BillingInv ==
  /\ BillingTypeOK /\ BilledAfterItsEnd
  /\ CallsAreOver(call) /\ RecordedOnce(licensePayments, billed)

LEMMA BillingCallIs ==
  ASSUME NEW c \in BillingCall \cup {NoCall}
  PROVE  /\ c.op # "idle" => c # NoCall /\ c.doc \in Periods
         /\ c.op \in {"markPaid", "paying"} => c.ref \in Given
         /\ c.op = "markPaid" =>
              [c EXCEPT !.op = "paying"] \in [op : {"markPaid", "paying"}, doc : Periods,
                                              ref : Given, read : BillStatus]
  <1>1. CASE c \in [op : {"sweep", "markFailed", "retry", "void"}, doc : Periods, read : BillStatus]
    <2>1. c.op \notin {"markPaid", "paying"} /\ c.doc \in Periods /\ c.op # "idle"  BY <1>1
    <2> QED  BY <2>1 DEF NoCall
  <1>2. CASE c \in [op : {"markPaid", "paying"}, doc : Periods, ref : Given, read : BillStatus]
    <2>1. c.op # "idle" /\ c.doc \in Periods /\ c.ref \in Given  BY <1>2
    <2>2. [c EXCEPT !.op = "paying"] \in [op : {"markPaid", "paying"}, doc : Periods,
                                          ref : Given, read : BillStatus]
      BY <1>2
    <2> QED  BY <2>1, <2>2 DEF NoCall
  <1>3. CASE c = NoCall
    BY <1>3 DEF NoCall
  <1> QED  BY <1>1, <1>2, <1>3 DEF BillingCall

LEMMA BillingKept ==
  ASSUME BillingInv, current' \in Periods, ended' \in BOOLEAN,
         \A p \in Periods : Over(p, current, ended) => Over(p, current', ended'),
         billed' \in [Periods -> BillStatus],
         \A p \in Periods : billed'[p] # "none" => Over(p, current, ended),
         licensePayments' \in [Periods -> [Given -> 0..MaxRecorded]],
         CallsAreOver(call'), RecordedOnce(licensePayments', billed')
  PROVE  BillingInv'
  <1>1. BillingTypeOK'  BY DEF BillingTypeOK, CallsAreOver
  <1>2. BilledAfterItsEnd'  BY DEF BilledAfterItsEnd, Over
  <1>3. \A u \in Users : call'[u] # NoCall => call'[u].doc \in Periods
    <2>1. ASSUME NEW u \in Users, call'[u] # NoCall
          PROVE  call'[u].doc \in Periods
      <3>1. call'[u] \in BillingCall  BY <2>1 DEF CallsAreOver
      <3> QED  BY <3>1 DEF BillingCall
    <2> QED  BY <2>1
  <1>4. CallsAreOver(call)'  BY <1>3 DEF CallsAreOver
  <1>5. RecordedOnce(licensePayments, billed)'  BY DEF RecordedOnce, Given
  <1> QED  BY <1>1, <1>2, <1>4, <1>5 DEF BillingInv

LEMMA BillingEntered ==
  ASSUME BillingInv, NEW u \in Users, NEW c \in BillingCall \cup {NoCall},
         call' = [call EXCEPT ![u] = c], c # NoCall => Over(c.doc, current, ended)
  PROVE  CallsAreOver(call')
  <1>1. /\ call' \in [Users -> BillingCall \cup {NoCall}]
        /\ \A v \in Users : call'[v] = IF v = u THEN c ELSE call[v]
    <2>1. call \in [Users -> BillingCall \cup {NoCall}]  BY DEF BillingInv, BillingTypeOK
    <2> QED  BY <2>1, CallWritten
  <1> QED  BY <1>1 DEF BillingInv, CallsAreOver

LEMMA BillingLeft ==
  ASSUME BillingInv, NEW u \in Users, Leave(u)
  PROVE  CallsAreOver(call')
  BY BillingEntered DEF Leave

LEMMA BillingInductive ==
  ASSUME BillingInv, [BillingNext]_billingVars
  PROVE  BillingInv'
  <1> USE BillingAssumption DEF BillingAssumption
  <1>0. /\ \A u \in Users : call[u] \in BillingCall \cup {NoCall}
        /\ current \in Periods /\ ended \in BOOLEAN
        /\ billed \in [Periods -> BillStatus]
        /\ licensePayments \in [Periods -> [Given -> 0..MaxRecorded]]
        /\ \A p \in Periods : billed[p] # "none" => Over(p, current, ended)
        /\ \A u \in Users : call[u] # NoCall => Over(call[u].doc, current, ended)
        /\ CallsAreOver(call) /\ RecordedOnce(licensePayments, billed)
    BY DEF BillingInv, BillingTypeOK, BilledAfterItsEnd, Over, CallsAreOver
  <1>1. ASSUME PeriodEnds
        PROVE  BillingInv'
    <2>1. /\ ended' = TRUE /\ current' = current /\ billed' = billed
          /\ licensePayments' = licensePayments /\ call' = call
      BY <1>1 DEF PeriodEnds
    <2>2. \A p \in Periods : Over(p, current, ended) => Over(p, current', ended')
      BY <2>1 DEF Over
    <2> QED  BY <1>0, <2>1, <2>2, BillingKept
  <1>2. ASSUME PeriodRenewed
        PROVE  BillingInv'
    <2>1. /\ ended' = FALSE /\ current' = current + 1 /\ current < LastPeriod
          /\ billed' = billed /\ licensePayments' = licensePayments /\ call' = call
      BY <1>2 DEF PeriodRenewed
    <2>2. \A p \in Periods : Over(p, current, ended) => Over(p, current', ended')
      BY <1>0, <2>1 DEF Over, Periods
    <2>3. current' \in Periods  BY <1>0, <2>1 DEF Periods
    <2> QED  BY <1>0, <2>1, <2>2, <2>3, BillingKept
  <1>3. ASSUME UNCHANGED <<current, ended>>, billed' \in [Periods -> BillStatus],
               \A p \in Periods : billed'[p] # "none" => Over(p, current, ended),
               licensePayments' \in [Periods -> [Given -> 0..MaxRecorded]],
               CallsAreOver(call'), RecordedOnce(licensePayments', billed')
        PROVE  BillingInv'
    <2>1. current' \in Periods /\ ended' \in BOOLEAN
          /\ \A p \in Periods : Over(p, current, ended) => Over(p, current', ended')
      BY <1>3, <1>0
    <2> QED  BY <1>3, <2>1, BillingKept
  <1>4. ASSUME UNCHANGED billingTables, CallsAreOver(call')
        PROVE  BillingInv'
    <2>1. UNCHANGED <<current, ended, billed, licensePayments>>  BY <1>4 DEF billingTables
    <2> QED  BY <1>3, <1>4, <2>1, <1>0
  <1>5. ASSUME NEW u \in Users, StartSweep(u)
        PROVE  BillingInv'
    <2> DEFINE c == [op |-> "sweep", doc |-> current, read |-> billed[current]]
    <2>1. c \in BillingCall /\ c.op = "sweep" /\ c.doc = current
      BY <1>0 DEF BillingCall
    <2>2. Over(current, current, ended) /\ call' = [call EXCEPT ![u] = c] /\ UNCHANGED billingTables
      BY <1>5 DEF StartSweep, Enter, Over
    <2> HIDE DEF c
    <2>3. CallsAreOver(call')
      BY <2>1, <2>2, BillingEntered
    <2> QED  BY <1>4, <2>2, <2>3
  <1>6. ASSUME NEW u \in Users, NEW p \in Periods, NEW r \in Given, StartMarkPaid(u, p, r)
        PROVE  BillingInv'
    <2> DEFINE c == [op |-> "markPaid", doc |-> p, ref |-> r, read |-> billed[p]]
    <2>1. c \in BillingCall /\ c.op = "markPaid" /\ c.doc = p
      BY <1>0 DEF BillingCall
    <2>2. Over(p, current, ended) /\ call' = [call EXCEPT ![u] = c] /\ UNCHANGED billingTables
      BY <1>6, <1>0 DEF StartMarkPaid, Enter
    <2> HIDE DEF c
    <2>3. CallsAreOver(call')
      BY <2>1, <2>2, BillingEntered
    <2> QED  BY <1>4, <2>2, <2>3
  <1>7. ASSUME NEW u \in Users, NEW p \in Periods, NEW op \in {"markFailed", "retry", "void"},
               StartBillStep(u, p, op)
        PROVE  BillingInv'
    <2> DEFINE c == [op |-> op, doc |-> p, read |-> billed[p]]
    <2>1. c \in BillingCall /\ c.op = op /\ c.doc = p
      BY <1>0 DEF BillingCall
    <2>2. Over(p, current, ended) /\ call' = [call EXCEPT ![u] = c] /\ UNCHANGED billingTables
      BY <1>7, <1>0 DEF StartBillStep, BillStepFrom, Enter
    <2> HIDE DEF c
    <2>3. CallsAreOver(call')
      BY <2>1, <2>2, BillingEntered
    <2> QED  BY <1>4, <2>2, <2>3
  <1>8. ASSUME NEW u \in Users, call[u].op # "idle", NEW stands \in BillStatus,
               stands = "paid" => billed[call[u].doc] = "paid",
               billed' = [billed EXCEPT ![call[u].doc] = stands], Leave(u),
               UNCHANGED <<current, ended, licensePayments>>
        PROVE  BillingInv'
    <2>1. PICK p \in Periods : p = call[u].doc /\ Over(p, current, ended)
      BY <1>8, <1>0, BillingCallIs
    <2>2. billed' \in [Periods -> BillStatus]
          /\ \A q \in Periods : billed'[q] # "none" => Over(q, current, ended)
      BY <1>8, <1>0, <2>1
    <2>3. CallsAreOver(call')  BY <1>8, BillingLeft
    <2>4. RecordedOnce(licensePayments', billed')  BY <1>8, <1>0, <2>1 DEF RecordedOnce
    <2> QED  BY <1>3, <1>8, <1>0, <2>2, <2>3, <2>4
  <1>9. ASSUME NEW u \in Users, SweepPeriod(u)
        PROVE  BillingInv'
    <2> DEFINE p == call[u].doc
               stands == IF billed[p] = "none" THEN "open" ELSE billed[p]
    <2>1. call[u].op = "sweep" /\ p \in Periods  BY <1>9, <1>0, BillingCallIs DEF SweepPeriod
    <2>2. stands \in BillStatus /\ (stands = "paid" => billed[p] = "paid")
      BY <1>0, <2>1 DEF BillStatus
    <2>3. billed' = [billed EXCEPT ![p] = stands]  BY <1>9 DEF SweepPeriod
    <2> HIDE DEF stands
    <2> QED  BY <1>8, <1>9, <2>1, <2>2, <2>3 DEF SweepPeriod
  <1>10. ASSUME NEW u \in Users, FinishBillStep(u)
         PROVE  BillingInv'
    <2>1. BillStepTo(call[u].op) \in BillStatus /\ BillStepTo(call[u].op) # "paid"
      BY <1>10 DEF FinishBillStep, BillStepTo, BillStatus
    <2> QED  BY <1>8, <1>10, <2>1 DEF FinishBillStep
  <1>11. ASSUME NEW u \in Users, FindPayment(u)
         PROVE  BillingInv'
    <2>1. CASE Leave(u)
      <3>1. CallsAreOver(call')
        BY <2>1, BillingLeft
      <3> QED  BY <1>4, <1>11, <3>1 DEF FindPayment
    <2>2. CASE Proceed(u, [call[u] EXCEPT !.op = "paying"])
      <3> DEFINE c == [call[u] EXCEPT !.op = "paying"]
      <3>1. call[u].op = "markPaid" /\ call[u] \in BillingCall \cup {NoCall} /\ call[u] # NoCall
        BY <1>11, <1>0, BillingCallIs DEF FindPayment
      <3>2. c \in [op : {"markPaid", "paying"}, doc : Periods, ref : Given, read : BillStatus]
        BY <3>1, BillingCallIs
      <3>3. c.doc = call[u].doc /\ c.ref = call[u].ref /\ c.doc \in Periods /\ c.ref \in Given
        <4>1. c.doc = call[u].doc  OBVIOUS
        <4>2. c.ref = call[u].ref  OBVIOUS
        <4> QED  BY <3>2, <4>1, <4>2
      <3>4. call' = [call EXCEPT ![u] = c]  BY <2>2 DEF Proceed
      <3>6. Over(c.doc, current, ended)  BY <1>0, <3>1, <3>3
      <3> HIDE DEF c
      <3>7. c \in BillingCall \cup {NoCall}  BY <3>2 DEF BillingCall
      <3>8. /\ call' \in [Users -> BillingCall \cup {NoCall}]
            /\ \A v \in Users : call'[v] = IF v = u THEN c ELSE call[v]
        <4>1. call \in [Users -> BillingCall \cup {NoCall}]  BY DEF BillingInv, BillingTypeOK
        <4> QED  BY <3>4, <3>7, <4>1, CallWritten
      <3>9. CallsAreOver(call')  BY <1>0, <3>6, <3>8 DEF CallsAreOver
      <3> QED  BY <1>4, <1>11, <3>9 DEF FindPayment
    <2> QED  BY <1>11, <2>1, <2>2 DEF FindPayment
  <1>12. ASSUME NEW u \in Users, FinishMarkPaid(u)
         PROVE  BillingInv'
    <2> DEFINE d == call[u].doc  k == call[u].ref
    <2>1. call[u].op = "paying" /\ d \in Periods /\ k \in Given /\ call[u] # NoCall
      BY <1>12, <1>0, BillingCallIs DEF FinishMarkPaid
    <2>2. /\ licensePayments[d][k] < MaxRecorded /\ Admits(d, k)
          /\ licensePayments' = [licensePayments EXCEPT ![d][k] = @ + 1]
          /\ billed' = [billed EXCEPT ![d] = "paid"]
          /\ UNCHANGED <<current, ended>>
      BY <1>12 DEF FinishMarkPaid
    <2>3. Over(d, current, ended)  BY <1>0, <2>1
    <2> HIDE DEF d, k
    <2>6. CallsAreOver(call')  BY <1>12, BillingLeft DEF FinishMarkPaid
    <2>7. licensePayments' \in [Periods -> [Given -> 0..MaxRecorded]]
      <3>1. licensePayments[d][k] + 1 \in 0..MaxRecorded  BY <1>0, <2>1, <2>2
      <3> QED  BY <1>0, <2>1, <2>2, <3>1
    <2>8. \A p \in Periods, r \in Given :
            licensePayments'[p][r] = licensePayments[p][r] + (IF p = d /\ r = k THEN 1 ELSE 0)
      BY <1>0, <2>1, <2>2
    <2>9. RecordedOnce(licensePayments', billed')
      <3>1. ASSUME NEW p \in Periods, NEW r \in References
            PROVE  licensePayments'[p][r] <= 1
        <4>1. r \in Given /\ r # NoReference /\ licensePayments[p][r] <= 1
          BY <1>0 DEF Given, RecordedOnce
        <4>2. p = d /\ r = k => licensePayments[p][r] = 0  BY <2>2, <4>1 DEF Admits
        <4> QED  BY <1>0, <2>8, <4>1, <4>2
      <3>2. ASSUME NEW p \in Periods, billed'[p] = "paid"
            PROVE  \E r \in Given : licensePayments'[p][r] > 0
        <4>1. CASE p = d
          <5>1. licensePayments[d][k] \in Nat  BY <1>0, <2>1
          <5>2. licensePayments'[d][k] = licensePayments[d][k] + 1  BY <2>1, <2>8
          <5>3. licensePayments'[d][k] > 0  BY <5>1, <5>2
          <5> QED  BY <2>1, <4>1, <5>3
        <4>2. CASE p # d
          <5>1. billed[p] = "paid"  BY <1>0, <2>1, <2>2, <3>2, <4>2
          <5>2. PICK r \in Given : licensePayments[p][r] > 0  BY <1>0, <5>1 DEF RecordedOnce
          <5>3. licensePayments'[p][r] = licensePayments[p][r]
            BY <1>0, <2>1, <2>2, <4>2
          <5> QED  BY <5>2, <5>3
        <4> QED  BY <4>1, <4>2
      <3> QED  BY <3>1, <3>2 DEF RecordedOnce
    <2>10. billed' \in [Periods -> BillStatus]
           /\ \A q \in Periods : billed'[q] # "none" => Over(q, current, ended)
      BY <1>0, <2>1, <2>2, <2>3 DEF BillStatus
    <2> QED  BY <1>3, <2>2, <2>6, <2>7, <2>9, <2>10
  <1>13. ASSUME NEW u \in Users, BillingFails(u)
         PROVE  BillingInv'
    <2>1. CallsAreOver(call')
      BY <1>13, BillingLeft DEF BillingFails, Fails
    <2> QED  BY <1>4, <1>13, <2>1 DEF BillingFails
  <1>14. CASE UNCHANGED billingVars
    <2>1. UNCHANGED billingTables /\ call' = call  BY <1>14 DEF billingVars
    <2>2. CallsAreOver(call')  BY <1>0, <2>1
    <2> QED  BY <1>4, <2>1, <2>2
  <1> QED
    BY <1>1, <1>2, <1>5, <1>6, <1>7, <1>9, <1>10, <1>11, <1>12, <1>13, <1>14
    DEF BillingNext

LEMMA BillingStart == BillingInit => BillingInv
  <1> USE BillingAssumption DEF BillingAssumption
  <1> SUFFICES ASSUME BillingInit PROVE BillingInv
    OBVIOUS
  <1>1. current \in Periods /\ billed \in [Periods -> BillStatus]
        /\ licensePayments \in [Periods -> [Given -> 0..MaxRecorded]]
    BY DEF BillingInit, Periods, BillStatus
  <1>2. call = [u \in Users |-> NoCall]  BY DEF BillingInit, CallsInit
  <1>3. CallsAreOver(call)  BY <1>2 DEF CallsAreOver
  <1>4. BillingTypeOK /\ BilledAfterItsEnd
    BY <1>1, <1>2 DEF BillingInit, BillingTypeOK, BilledAfterItsEnd
  <1>7. RecordedOnce(licensePayments, billed)
    BY DEF BillingInit, RecordedOnce, Given
  <1> QED  BY <1>3, <1>4, <1>7 DEF BillingInv

LEMMA BillingBounded == BillingInv => RetriesDoNotAddUp
  BY DEF BillingInv, RecordedOnce, RetriesDoNotAddUp

(* A payment with a reference is recorded once, however often it is sent   *)
(* and in whatever order the looking up and the writing come; an invoice   *)
(* that is paid has a payment; a period is billed after its end.           *)
THEOREM RetriesRecordedOnce == BillingSpec => [](BillingTypeOK /\ RetriesDoNotAddUp /\ BilledAfterItsEnd)
  <1>1. BillingInit => BillingInv  BY BillingStart
  <1>2. BillingInv /\ [BillingNext]_billingVars => BillingInv'  BY BillingInductive
  <1>3. BillingInv => BillingTypeOK /\ RetriesDoNotAddUp /\ BilledAfterItsEnd
    BY BillingBounded DEF BillingInv
  <1> QED  BY <1>1, <1>2, <1>3, PTL DEF BillingSpec

(* markFailed, retry and void had read an invoice that was not settled, a  *)
(* payment one that was not voided.                                        *)
BillReads(c) ==
  /\ c.op \in {"markFailed", "retry", "void"} => c.read \notin {"paid", "voided"}
  /\ c.op \in {"markPaid", "paying"} => c.read # "voided"

BillsReadUnsettled == \A u \in Users : BillReads(call[u])

LEMMA BillsReadUnsettledStill ==
  ASSUME BillingTypeOK, BillsReadUnsettled, [BillingNext]_billingVars
  PROVE  BillsReadUnsettled'
  <1>0. call \in [Users -> BillingCall \cup {NoCall}]  BY DEF BillingTypeOK
  <1>1. ASSUME NEW u \in Users, NEW c, BillReads(c), call' = [call EXCEPT ![u] = c]
        PROVE  BillsReadUnsettled'
    BY <1>0, <1>1 DEF BillsReadUnsettled
  <1>2. ASSUME NEW u \in Users, NEW p \in Periods, NEW op \in {"markFailed", "retry", "void"},
               StartBillStep(u, p, op)
        PROVE  BillsReadUnsettled'
    <2> DEFINE c == [op |-> op, doc |-> p, read |-> billed[p]]
    <2>1. BillReads(c)  BY <1>2 DEF StartBillStep, BillStepFrom, BillReads
    <2> QED  BY <1>1, <1>2, <2>1 DEF StartBillStep, Enter
  <1>3. ASSUME NEW u \in Users, NEW p \in Periods, NEW r \in Given, StartMarkPaid(u, p, r)
        PROVE  BillsReadUnsettled'
    <2> DEFINE c == [op |-> "markPaid", doc |-> p, ref |-> r, read |-> billed[p]]
    <2>1. BillReads(c)  BY <1>3 DEF StartMarkPaid, BillReads
    <2> QED  BY <1>1, <1>3, <2>1 DEF StartMarkPaid, Enter
  <1>4. ASSUME NEW u \in Users, NEW c, call' = [call EXCEPT ![u] = c], c.op \in {"sweep", "idle"}
        PROVE  BillsReadUnsettled'
    BY <1>1, <1>4 DEF BillReads
  <1>5. ASSUME NEW u \in Users, StartSweep(u)
        PROVE  BillsReadUnsettled'
    BY <1>4, <1>5 DEF StartSweep, Enter
  <1>6. ASSUME NEW u \in Users, Leave(u)
        PROVE  BillsReadUnsettled'
    BY <1>4, <1>6 DEF Leave, NoCall
  <1>7. ASSUME NEW u \in Users, FindPayment(u)
        PROVE  BillsReadUnsettled'
    <2>1. CASE Leave(u)  BY <1>6, <2>1
    <2>2. CASE Proceed(u, [call[u] EXCEPT !.op = "paying"])
      <3>1. call[u].op = "markPaid"  BY <1>7 DEF FindPayment
      <3>2. call[u] \in [op : {"markPaid", "paying"}, doc : Periods, ref : Given, read : BillStatus]
        BY <1>0, <3>1 DEF BillingCall, NoCall
      <3>3. /\ [call[u] EXCEPT !.op = "paying"].op = "paying"
            /\ [call[u] EXCEPT !.op = "paying"].read = call[u].read
        BY <3>2
      <3>4. BillReads([call[u] EXCEPT !.op = "paying"])
        BY <3>1, <3>3 DEF BillsReadUnsettled, BillReads
      <3> QED  BY <1>1, <2>2, <3>4 DEF Proceed
    <2> QED  BY <1>7, <2>1, <2>2 DEF FindPayment
  <1>8. ASSUME NEW u \in Users, SweepPeriod(u) \/ FinishMarkPaid(u) \/ FinishBillStep(u) \/ BillingFails(u)
        PROVE  Leave(u)
    BY Zenon, <1>8 DEF SweepPeriod, FinishMarkPaid, FinishBillStep, BillingFails, Fails
  <1>9. PeriodEnds \/ PeriodRenewed \/ UNCHANGED billingVars => UNCHANGED call
    BY DEF PeriodEnds, PeriodRenewed, billingVars
  <1>10. UNCHANGED call => BillsReadUnsettled'  BY DEF BillsReadUnsettled
  <1> QED  BY <1>2, <1>3, <1>5, <1>6, <1>7, <1>8, <1>9, <1>10 DEF BillingNext

LEMMA SettledBillStays ==
  ASSUME BillingTypeOK, BillsReadUnsettled, [BillingNext]_billingVars, NEW p \in Periods,
         billed[p] \in {"paid", "voided"},
         \A u \in Users : call[u].op \notin {"idle", "sweep"} /\ call[u].doc = p
                            => call[u].read = billed[p]
  PROVE  billed'[p] = billed[p]
  <1>0. billed \in [Periods -> BillStatus]  BY DEF BillingTypeOK
  <1>1. ASSUME NEW u \in Users, SweepPeriod(u)
        PROVE  billed'[p] = billed[p]
    BY <1>0, <1>1 DEF SweepPeriod
  <1>2. ASSUME NEW u \in Users, FinishMarkPaid(u)
        PROVE  billed'[p] = billed[p]
    <2>1. call[u].doc = p => billed[p] # "voided"
      BY <1>2 DEF FinishMarkPaid, BillsReadUnsettled, BillReads
    <2>2. billed' = [billed EXCEPT ![call[u].doc] = "paid"]  BY <1>2 DEF FinishMarkPaid
    <2> QED  BY <1>0, <2>1, <2>2
  <1>3. ASSUME NEW u \in Users, FinishBillStep(u)
        PROVE  billed'[p] = billed[p]
    <2>1. call[u].doc # p
      BY <1>3 DEF FinishBillStep, BillsReadUnsettled, BillReads
    <2>2. billed' = [billed EXCEPT ![call[u].doc] = BillStepTo(call[u].op)]
      BY <1>3 DEF FinishBillStep
    <2> QED  BY <1>0, <2>1, <2>2
  <1>4. UNCHANGED billed \/ \E u \in Users : SweepPeriod(u) \/ FinishMarkPaid(u) \/ FinishBillStep(u)
    BY Zenon DEF BillingNext, billingVars, billingTables, PeriodEnds, PeriodRenewed, StartMarkPaid,
       StartBillStep, StartSweep, FindPayment, BillingFails
  <1> QED  BY <1>1, <1>2, <1>3, <1>4

-----------------------------------------------------------------------------
(* Plan changes.                                                           *)

(* Half rounded up, some of a price is between nothing and the price.      *)
LEMMA RoundedPart ==
  ASSUME NEW price \in Nat, NEW days \in Nat \ {0}, NEW rest \in 0..days
  PROVE  (2 * price * rest + days) \div (2 * days) \in 0..price
  <1>1. price * rest <= price * days /\ price * rest \in Nat /\ price * days \in Nat
    OBVIOUS
  <1> DEFINE some == price * rest
             all == price * days
             part == (2 * some + days) \div (2 * days)
  <1>2. 2 * price * rest = 2 * some  OBVIOUS
  <1>3. part \in Nat /\ (2 * days) * part <= 2 * some + days
    <2> HIDE DEF some
    <2>1. some \in Nat  BY <1>1 DEF some
    <2> QED  BY <2>1
  <1>4. ASSUME part >= price + 1
        PROVE  FALSE
    <2>1. (2 * days) * (price + 1) <= (2 * days) * part
      <3> HIDE DEF part
      <3> QED  BY <1>3, <1>4
    <2>2. (2 * days) * (price + 1) = 2 * all + 2 * days  OBVIOUS
    <2> HIDE DEF some, all, part
    <2>3. some \in Nat /\ all \in Nat /\ some <= all  BY <1>1 DEF some, all
    <2>4. (2 * days) * part \in Nat  BY <1>3
    <2> QED  BY <1>3, <2>1, <2>2, <2>3, <2>4
  <1> HIDE DEF part
  <1>5. part \in 0..price  BY <1>3, <1>4
  <1> QED  BY <1>2, <1>5 DEF part

LEMMA ProratedIsPart ==
  ASSUME NEW p \in Plans, NEW onDay \in 0..PeriodDays
  PROVE  /\ Prorated(p, onDay) \in Int
         /\ Largest \in Nat /\ Prorated(p, onDay) \in 0..Largest
  <1>1. /\ MonthlyPrice \in [Plans -> Nat] /\ IsFiniteSet(Plans)
        /\ PeriodDays \in Nat \ {0} /\ PeriodDays - onDay \in 0..PeriodDays
    BY PlanChangeAssumption DEF PlanChangeAssumption
  <1>2. Prorated(p, onDay) \in 0..MonthlyPrice[p]
    BY <1>1, RoundedPart DEF Prorated
  <1>3. IntOn(MonthlyPrice, Plans)  BY <1>1 DEF IntOn
  <1>4. PICK m \in Plans : \A n \in Plans : MonthlyPrice[n] <= MonthlyPrice[m]
    BY <1>1, <1>3, GreatestOf
  <1>5. Largest \in {MonthlyPrice[q] : q \in Plans} /\ \A n \in Plans : MonthlyPrice[n] <= Largest
    BY <1>4 DEF Largest
  <1>6. Largest \in Nat /\ MonthlyPrice[p] <= Largest /\ MonthlyPrice[p] \in Nat  BY <1>1, <1>5
  <1> QED  BY <1>2, <1>6

(* What a charge says is the difference of two amounts that depend on      *)
(* nothing but a plan and a day.                                           *)
ChargedTheDifference ==
  \A e \in charged : e.net = Prorated(e.to, e.on) - Prorated(e.from, e.on)

PlanInv == PlanChangeTypeOK /\ IsFiniteSet(charged) /\ ChargedTheDifference

LEMMA PlanInductive ==
  ASSUME PlanInv, [PlanChangeNext]_planChangeVars
  PROVE  PlanInv'
  <1> USE DEF PlanInv, PlanChangeTypeOK, planChangeTables, NoCall
  <1>1. ASSUME NEW u \in Users, NEW p \in Plans, NEW onDay \in 0..PeriodDays,
               StartChangePlan(u, p, onDay)
        PROVE  PlanInv'
    BY <1>1 DEF StartChangePlan, Enter, ChargedTheDifference, PlanCall
  <1>2. ASSUME NEW u \in Users, FinishChangePlan(u)
        PROVE  PlanInv'
    <2> DEFINE e == [id |-> Cardinality(charged) + 1, from |-> call[u].read, to |-> call[u].to,
                     on |-> call[u].on, net |-> NetDelta(call[u])]
    <2>1. /\ call[u].op = "changePlan"
          /\ call[u].read \in Plans /\ call[u].to \in Plans /\ call[u].on \in 0..PeriodDays
      BY <1>2 DEF FinishChangePlan, PlanCall
    <2>2. NetDelta(call[u]) \in Net
      BY <2>1, ProratedIsPart DEF NetDelta, Net
    <2>3. Cardinality(charged) + 1 \in 1..MaxCharges
      BY <1>2, PlanChangeAssumption, FS_CardinalityType DEF FinishChangePlan, PlanChangeAssumption
    <2>4. e \in Charge /\ e.net = Prorated(e.to, e.on) - Prorated(e.from, e.on)
      BY <2>1, <2>2, <2>3 DEF Charge, NetDelta
    <2>5. /\ charged' = charged \cup {e} /\ plan' = call[u].to /\ status' = status
          /\ call' = [call EXCEPT ![u] = NoCall]
      BY <1>2 DEF FinishChangePlan, Leave
    <2> HIDE DEF e
    <2>6. IsFiniteSet(charged')  BY <2>5, FS_AddElement
    <2>7. PlanChangeTypeOK'  BY <2>1, <2>4, <2>5
    <2>8. ChargedTheDifference'  BY <2>4, <2>5 DEF ChargedTheDifference, Prorated
    <2> QED  BY <2>6, <2>7, <2>8
  <1>3. ASSUME NEW u \in Users, PlanChangeFails(u)
        PROVE  PlanInv'
    BY <1>3 DEF PlanChangeFails, Fails, Leave, ChargedTheDifference
  <1>4. ASSUME NEW s \in PlanStatus \ {status}, StatusMoves(s)
        PROVE  PlanInv'
    BY <1>4 DEF StatusMoves, ChargedTheDifference
  <1>5. CASE UNCHANGED planChangeVars
    BY <1>5 DEF planChangeVars, ChargedTheDifference
  <1> QED  BY <1>1, <1>2, <1>3, <1>4, <1>5 DEF PlanChangeNext

LEMMA PlanStart ==
  ASSUME PlanChangeInit
  PROVE  PlanInv
  BY PlanChangeAssumption, FS_EmptySet
  DEF PlanChangeAssumption, PlanChangeInit, CallsInit, PlanInv, PlanChangeTypeOK,
      ChargedTheDifference, PlanStatus, Changeable

LEMMA ThereAndBack == PlanInv => ThereAndBackIsFree
  <1> SUFFICES ASSUME PlanInv, NEW e \in charged, NEW f \in charged,
                      e.on = f.on, f.from = e.to, f.to = e.from
               PROVE  e.net + f.net = 0
    BY DEF ThereAndBackIsFree
  <1> DEFINE a == Prorated(e.to, e.on)
             b == Prorated(e.from, e.on)
  <1>1. e.net = a - b /\ f.net = b - a  BY DEF PlanInv, ChargedTheDifference
  <1>2. a \in Int /\ b \in Int
    BY ProratedIsPart DEF PlanInv, PlanChangeTypeOK, Charge
  <1> HIDE DEF a, b
  <1> QED  BY <1>1, <1>2

(* Going to another plan and back on one day costs nothing, whatever the   *)
(* prices, the length of the period and the rounding of each amount.       *)
THEOREM NothingForThereAndBack ==
  PlanChangeSpec => [](PlanChangeTypeOK /\ ThereAndBackIsFree)
  <1>1. PlanChangeInit => PlanInv  BY PlanStart
  <1>2. PlanInv /\ [PlanChangeNext]_planChangeVars => PlanInv'  BY PlanInductive
  <1>3. PlanInv => PlanChangeTypeOK /\ ThereAndBackIsFree  BY ThereAndBack DEF PlanInv
  <1> QED  BY <1>1, <1>2, <1>3, PTL DEF PlanChangeSpec

-----------------------------------------------------------------------------
(* The settings cache.                                                     *)

LEMMA SettingsInductive ==
  ASSUME SettingsTypeOK, ChangeIsSeen, [SettingsNext]_settingsVars
  PROVE  SettingsTypeOK' /\ ChangeIsSeen'
  <1> USE SettingsAssumption DEF SettingsTypeOK, SettingsAssumption, SettingCall, settingsTables, NoKey, NoCall
  <1>1. CASE Expire
    <2>1. now' \in 0..LastTime /\ quiet' \in BOOLEAN  BY <1>1 DEF Expire
    <2>2. cached' = NoKey \/ cached' = cached  BY <1>1 DEF Expire
    <2>3. SettingsTypeOK'  BY <1>1, <2>1, <2>2 DEF Expire
    <2>4. ChangeIsSeen'  BY <1>1 DEF Expire, ChangeIsSeen
    <2> QED  BY <2>3, <2>4
  <1>2. ASSUME NEW v \in Settings \ {setting}, ChangeQuietly(v)
        PROVE  SettingsTypeOK' /\ ChangeIsSeen'
    BY <1>2 DEF ChangeQuietly, ChangeIsSeen
  <1>3. ASSUME NEW u \in Users, Miss(u)
        PROVE  SettingsTypeOK' /\ ChangeIsSeen'
    BY <1>3 DEF Miss, Enter, ChangeIsSeen
  <1>4. ASSUME NEW u \in Users, Fill(u)
        PROVE  SettingsTypeOK' /\ ChangeIsSeen'
    <2> DEFINE c == call[u]
    <2>1. c.op = "fill" /\ c.read \in Settings  BY <1>4 DEF Fill
    <2>2. (c.read # setting) \in BOOLEAN  OBVIOUS
    <2>3. cached' \in [value : Settings, expires : 0..LastTime + Ttl, late : BOOLEAN]
      BY <1>4, <2>1, <2>2 DEF Fill
    <2>4. SettingsTypeOK'  BY <1>4, <2>3 DEF Fill, Leave
    <2>5. ChangeIsSeen'  BY <1>4 DEF Fill, Leave, ChangeIsSeen
    <2> QED  BY <2>4, <2>5
  <1>5. ASSUME NEW u \in Users, StartChange(u)
        PROVE  SettingsTypeOK' /\ ChangeIsSeen'
    BY <1>5 DEF StartChange, Enter, ChangeIsSeen
  <1>6. ASSUME NEW u \in Users, NEW v \in Settings \ {setting}, CommitChange(u, v)
        PROVE  SettingsTypeOK' /\ ChangeIsSeen'
    BY <1>6 DEF CommitChange, Proceed, ChangeIsSeen
  <1>7. ASSUME NEW u \in Users, DeleteKey(u)
        PROVE  SettingsTypeOK' /\ ChangeIsSeen'
    BY <1>7 DEF DeleteKey, Leave, ChangeIsSeen
  <1>8. ASSUME NEW u \in Users, SettingFails(u)
        PROVE  SettingsTypeOK' /\ ChangeIsSeen'
    BY <1>8 DEF SettingFails, Fails, Leave, ChangeIsSeen
  <1>9. CASE UNCHANGED settingsVars
    BY <1>9 DEF settingsVars, ChangeIsSeen
  <1> QED  BY <1>1, <1>2, <1>3, <1>4, <1>5, <1>6, <1>7, <1>8, <1>9 DEF SettingsNext

LEMMA SettingsStart ==
  ASSUME SettingsInit
  PROVE  SettingsTypeOK /\ ChangeIsSeen
  <1>1. setting \in Settings  BY SettingsAssumption DEF SettingsInit, SettingsAssumption
  <1>2. now \in 0..LastTime
    BY SettingsAssumption DEF SettingsInit, SettingsAssumption
  <1> QED  BY <1>1, <1>2 DEF SettingsInit, CallsInit, SettingsTypeOK, ChangeIsSeen

-----------------------------------------------------------------------------
(* Policies.                                                               *)

(* A policy that was created has a version and a text, and a call is at    *)
(* work on a policy that was created.                                      *)
PoliciesWritten ==
  /\ \A p \in Policies : policy[p].status # "none" => policy[p].version > 0 /\ policy[p].text > 0
  /\ \A u \in Users : call[u] # NoCall => policy[call[u].doc].status # "none"

PoliciesInv == HrPoliciesTypeOK /\ PoliciesWritten

LEMMA PoliciesCallIs ==
  ASSUME NEW c \in HrPoliciesCall \cup {NoCall}
  PROVE  /\ c.op # "idle" => c # NoCall
         /\ c # NoCall => /\ c.doc \in Policies /\ c.read \in PolicyStatus
                          /\ c.version \in 1..MaxTexts /\ c.text \in 1..MaxTexts
  BY DEF HrPoliciesCall, NoCall

LEMMA PoliciesInductive ==
  ASSUME PoliciesInv, [HrPoliciesNext]_hrPoliciesVars
  PROVE  PoliciesInv'
  <1> USE HrPoliciesAssumption DEF HrPoliciesAssumption
  <1>0. /\ call \in [Users -> HrPoliciesCall \cup {NoCall}]
        /\ policy \in [Policies -> Policy] /\ ack \subseteq Ack
        /\ PoliciesWritten
    BY DEF PoliciesInv, HrPoliciesTypeOK
  <1>1. ASSUME NEW p \in Policies, NEW row \in Policy, policy' = [policy EXCEPT ![p] = row],
               row.status # "none", row.version > 0, row.text > 0, UNCHANGED ack,
               \/ UNCHANGED call
               \/ \E u \in Users : call' = [call EXCEPT ![u] = NoCall]
        PROVE  PoliciesInv'
    <2>1. policy' \in [Policies -> Policy] /\ \A q \in Policies : policy'[q] = IF q = p THEN row ELSE policy[q]
      BY <1>0, <1>1
    <2>2. call' \in [Users -> HrPoliciesCall \cup {NoCall}]
          /\ \A u \in Users : call'[u] \in {call[u], NoCall}
      BY <1>0, <1>1
    <2>3. \A q \in Policies : policy'[q].status # "none" => policy'[q].version > 0 /\ policy'[q].text > 0
      BY <1>0, <1>1, <2>1 DEF PoliciesWritten
    <2>4. ASSUME NEW u \in Users, call'[u] # NoCall
          PROVE  policy'[call'[u].doc].status # "none"
      <3>1. call'[u] = call[u] /\ call[u].doc \in Policies  BY <1>0, <2>2, <2>4, PoliciesCallIs
      <3> QED  BY <1>0, <1>1, <2>1, <2>4, <3>1 DEF PoliciesWritten
    <2>5. PoliciesWritten'  BY <2>3, <2>4 DEF PoliciesWritten
    <2>6. HrPoliciesTypeOK'  BY <1>0, <1>1, <2>1, <2>2 DEF HrPoliciesTypeOK
    <2> QED  BY <2>5, <2>6 DEF PoliciesInv
  <1>2. ASSUME NEW p \in Policies, CreatePolicy(p)
        PROVE  PoliciesInv'
    <2> DEFINE row == [status |-> "draft", version |-> 1, text |-> 1]
    <2>1. row \in Policy /\ row.status # "none" /\ row.version > 0 /\ row.text > 0
      BY DEF Policy, PolicyStatus
    <2>2. policy' = [policy EXCEPT ![p] = row] /\ UNCHANGED <<ack, call>>
      BY <1>2 DEF CreatePolicy
    <2> HIDE DEF row
    <2> QED  BY <1>1, <2>1, <2>2
  <1>3. ASSUME NEW u \in Users, NEW p \in Policies, NEW op \in {"updatePolicy", "publish", "acknowledge"},
               StartPolicyStep(u, p, op)
        PROVE  PoliciesInv'
    <2> DEFINE c == [op |-> op, doc |-> p, read |-> policy[p].status,
                     version |-> policy[p].version, text |-> policy[p].text]
    <2>1. policy[p] \in Policy /\ policy[p].status # "none"  BY <1>0, <1>3 DEF StartPolicyStep
    <2>2. policy[p].version \in 1..MaxTexts /\ policy[p].text \in 1..MaxTexts
      BY <1>0, <2>1 DEF PoliciesWritten, Policy
    <2>3. c \in HrPoliciesCall  BY <2>1, <2>2 DEF HrPoliciesCall, Policy
    <2>4. call' = [call EXCEPT ![u] = c] /\ UNCHANGED <<policy, ack>>
      BY <1>3 DEF StartPolicyStep, Enter, hrPoliciesTables
    <2>5. c.doc = p  OBVIOUS
    <2> HIDE DEF c
    <2>6. HrPoliciesTypeOK'  BY <1>0, <2>3, <2>4 DEF HrPoliciesTypeOK
    <2>7. PoliciesWritten'  BY <1>0, <2>1, <2>4, <2>5 DEF PoliciesWritten
    <2> QED  BY <2>6, <2>7 DEF PoliciesInv
  <1>4. ASSUME NEW u \in Users, FinishUpdatePolicy(u)
        PROVE  PoliciesInv'
    <2> DEFINE c == call[u]
               held == policy[c.doc]
               row == [status  |-> IF c.read = "published" THEN "draft" ELSE held.status,
                       version |-> IF c.read = "published" THEN c.version + 1 ELSE held.version,
                       text    |-> held.text + 1]
    <2>1. c # NoCall /\ c.doc \in Policies /\ c.version \in 1..MaxTexts
      BY <1>0, <1>4, PoliciesCallIs DEF FinishUpdatePolicy
    <2>2. c.version < MaxTexts /\ held.text < MaxTexts  BY <1>4 DEF FinishUpdatePolicy
    <2>3. held \in Policy /\ held.status # "none" /\ held.version > 0 /\ held.text > 0
      BY <1>0, <2>1 DEF PoliciesWritten
    <2>4. row \in Policy /\ row.status # "none" /\ row.version > 0 /\ row.text > 0
      BY <2>1, <2>2, <2>3 DEF Policy, PolicyStatus
    <2>5. /\ policy' = [policy EXCEPT ![c.doc] = row] /\ UNCHANGED ack
          /\ call' = [call EXCEPT ![u] = NoCall]
      BY <1>0, <1>4, <2>1 DEF FinishUpdatePolicy, Leave
    <2> HIDE DEF c, held, row
    <2> QED  BY <1>1, <2>1, <2>4, <2>5
  <1>5. ASSUME NEW u \in Users, FinishPublish(u)
        PROVE  PoliciesInv'
    <2> DEFINE c == call[u]
               row == [policy[c.doc] EXCEPT !.status = "published"]
    <2>1. c # NoCall /\ c.doc \in Policies
      BY <1>0, <1>5, PoliciesCallIs DEF FinishPublish
    <2>2. policy[c.doc] \in Policy /\ policy[c.doc].version > 0 /\ policy[c.doc].text > 0
      BY <1>0, <2>1 DEF PoliciesWritten
    <2>3. row \in Policy  BY <2>2 DEF Policy, PolicyStatus
    <2>4. row.status = "published" /\ row.version = policy[c.doc].version /\ row.text = policy[c.doc].text
      BY <2>2 DEF Policy
    <2>5. /\ policy' = [policy EXCEPT ![c.doc] = row] /\ UNCHANGED ack
          /\ call' = [call EXCEPT ![u] = NoCall]
      BY <1>0, <1>5, <2>1 DEF FinishPublish, Leave
    <2> HIDE DEF c, row
    <2> QED  BY <1>1, <2>1, <2>2, <2>3, <2>4, <2>5
  <1>6. ASSUME NEW u \in Users, FinishAcknowledge(u)
        PROVE  PoliciesInv'
    <2> DEFINE c == call[u]
               a == [by |-> u, of |-> c.doc, version |-> c.version]
    <2>1. c.doc \in Policies /\ c.version \in 1..MaxTexts
      BY <1>0, <1>6, PoliciesCallIs DEF FinishAcknowledge
    <2>2. a \in Ack  BY <2>1 DEF Ack
    <2>3. /\ ack' = ack \cup {a} /\ UNCHANGED policy
          /\ call' = [call EXCEPT ![u] = NoCall]
      BY <1>6 DEF FinishAcknowledge, Leave
    <2> HIDE DEF c, a
    <2>4. HrPoliciesTypeOK'  BY <1>0, <2>2, <2>3 DEF HrPoliciesTypeOK
    <2>5. PoliciesWritten'  BY <1>0, <2>3 DEF PoliciesWritten
    <2> QED  BY <2>4, <2>5 DEF PoliciesInv
  <1>7. ASSUME NEW u \in Users, PolicyFails(u)
        PROVE  PoliciesInv'
    <2>1. call' = [call EXCEPT ![u] = NoCall] /\ UNCHANGED <<policy, ack>>
      BY <1>7 DEF PolicyFails, Fails, Leave, hrPoliciesTables
    <2>2. HrPoliciesTypeOK'  BY <1>0, <2>1 DEF HrPoliciesTypeOK
    <2>3. PoliciesWritten'  BY <1>0, <2>1 DEF PoliciesWritten
    <2> QED  BY <2>2, <2>3 DEF PoliciesInv
  <1>8. CASE UNCHANGED hrPoliciesVars
    BY <1>0, <1>8
    DEF hrPoliciesVars, hrPoliciesTables, PoliciesInv, HrPoliciesTypeOK, PoliciesWritten
  <1> QED  BY <1>2, <1>3, <1>4, <1>5, <1>6, <1>7, <1>8 DEF HrPoliciesNext

LEMMA PoliciesStart == HrPoliciesInit => PoliciesInv
  BY HrPoliciesAssumption
  DEF HrPoliciesAssumption, HrPoliciesInit, CallsInit, PoliciesInv, HrPoliciesTypeOK,
      PoliciesWritten, NoPolicy, Policy, PolicyStatus

LEMMA PublishedStands ==
  ASSUME HrPoliciesTypeOK, [HrPoliciesNext]_hrPoliciesVars, NEW p \in Policies,
         policy[p].status = "published", Fresh(p, "published"),
         \A u \in Users : call[u] # NoCall => call[u].version = policy[p].version
  PROVE  \/ policy'[p].text = policy[p].text
         \/ policy'[p].version = policy[p].version + 1 /\ policy'[p].status = "draft"
  <1>0. policy \in [Policies -> Policy]  BY DEF HrPoliciesTypeOK
  <1>1. ASSUME NEW u \in Users, FinishUpdatePolicy(u)
        PROVE  \/ policy'[p] = policy[p]
               \/ policy'[p].version = policy[p].version + 1 /\ policy'[p].status = "draft"
    <2>1. call[u] # NoCall  BY <1>1 DEF FinishUpdatePolicy, NoCall
    <2>2. CASE call[u].doc # p  BY <1>0, <1>1, <2>2 DEF FinishUpdatePolicy
    <2>3. CASE call[u].doc = p
      <3>1. call[u].read = "published" /\ call[u].version = policy[p].version
        BY <2>1, <2>3 DEF Fresh
      <3> QED  BY <1>0, <1>1, <2>3, <3>1 DEF FinishUpdatePolicy
    <2> QED  BY <2>2, <2>3
  <1>2. ASSUME NEW u \in Users, FinishPublish(u)
        PROVE  policy'[p].text = policy[p].text
    <2>1. policy' = [policy EXCEPT ![call[u].doc].status = "published"]  BY <1>2 DEF FinishPublish
    <2> QED  BY <1>0, <2>1 DEF Policy
  <1>3. ASSUME NEW q \in Policies, CreatePolicy(q)
        PROVE  policy'[p] = policy[p]
    BY <1>0, <1>3 DEF CreatePolicy
  <1>4. \/ UNCHANGED policy
        \/ \E q \in Policies : CreatePolicy(q)
        \/ \E u \in Users : FinishUpdatePolicy(u) \/ FinishPublish(u)
    BY Zenon DEF HrPoliciesNext, hrPoliciesVars, hrPoliciesTables, StartPolicyStep, FinishAcknowledge,
       PolicyFails
  <1> QED  BY <1>1, <1>2, <1>3, <1>4

-----------------------------------------------------------------------------
(* The scan of the stock.                                                  *)

ReorderCallsOK == low \subseteq Skus /\ call \in [Users -> ReorderCall \cup {NoCall}]

LEMMA ReorderInductive ==
  ASSUME ReorderCallsOK, [ReorderNext]_reorderVars
  PROVE  ReorderCallsOK'
  <1> USE DEF ReorderCallsOK, ReorderCall, reorderTables, NoCall
  <1>1. ASSUME NEW s \in Skus, StockChanges(s) \/ DraftHandled(s) \/ ResolveFlag(s)
        PROVE  ReorderCallsOK'
    BY <1>1 DEF StockChanges, DraftHandled, ResolveFlag
  <1>2. ASSUME NEW u \in Users, StartReorder(u)
        PROVE  ReorderCallsOK'
    BY <1>2 DEF StartReorder, Enter
  <1>3. ASSUME NEW u \in Users, RaiseFlag(u)
        PROVE  ReorderCallsOK'
    BY <1>3 DEF RaiseFlag, Proceed
  <1>4. ASSUME NEW u \in Users, ReadStale(u)
        PROVE  ReorderCallsOK'
    <2> DEFINE c == call[u]
               stale == {s \in Skus : flag[s] = "open"} \ c.seen
               d == [c EXCEPT !.op = "resolve", !.todo = stale]
    <2>1. c \in [op : {"raise", "resolve"}, todo : SUBSET Skus, seen : SUBSET Skus]
      BY <1>4 DEF ReadStale
    <2>2. call' = [call EXCEPT ![u] = d] /\ UNCHANGED low  BY <1>4 DEF ReadStale, Proceed
    <2>3. d \in [op : {"raise", "resolve"}, todo : SUBSET Skus, seen : SUBSET Skus]
      BY Zenon, <2>1
    <2> HIDE DEF c, stale, d
    <2> QED  BY <2>2, <2>3
  <1>5. ASSUME NEW u \in Users, ResolveStale(u) \/ Collect(u)
        PROVE  ReorderCallsOK'
    BY <1>5 DEF ResolveStale, Collect, Proceed
  <1>6. ASSUME NEW u \in Users, DraftOrder(u)
        PROVE  ReorderCallsOK'
    BY <1>6 DEF DraftOrder, Proceed
  <1>7. ASSUME NEW u \in Users, FinishReorder(u) \/ ReorderFails(u)
        PROVE  ReorderCallsOK'
    BY <1>7 DEF FinishReorder, ReorderFails, Fails, Leave
  <1>8. CASE UNCHANGED reorderVars
    BY <1>8 DEF reorderVars
  <1> QED  BY <1>1, <1>2, <1>3, <1>4, <1>5, <1>6, <1>7, <1>8 DEF ReorderNext

ReorderRowsOK ==
  /\ flag \in [Skus -> {"none", "open", "resolved"}]
  /\ drafts \in [Skus -> 0..MaxDrafts]
  /\ runRow \in [Users -> {"none", "running", "completed", "failed"}]

LEMMA ReorderRowsInductive ==
  ASSUME ReorderRowsOK, [ReorderNext]_reorderVars
  PROVE  ReorderRowsOK'
  <1> USE ReorderAssumption DEF ReorderAssumption, ReorderRowsOK, reorderTables
  <1>1. ASSUME NEW s \in Skus, StockChanges(s) \/ DraftHandled(s) \/ ResolveFlag(s)
        PROVE  ReorderRowsOK'
    BY <1>1 DEF StockChanges, DraftHandled, ResolveFlag
  <1>2. ASSUME NEW u \in Users, StartReorder(u) \/ RaiseFlag(u) \/ ReadStale(u) \/ ResolveStale(u)
        PROVE  ReorderRowsOK'
    <2>1. CASE RaiseFlag(u)
      <3>1. PICK s \in call[u].todo : flag' = [flag EXCEPT ![s] = "open"]
        BY <2>1 DEF RaiseFlag
      <3> QED  BY <2>1, <3>1 DEF RaiseFlag
    <2> QED  BY <1>2, <2>1 DEF StartReorder, ReadStale, ResolveStale
  <1>3. ASSUME NEW u \in Users, Collect(u) \/ FinishReorder(u) \/ ReorderFails(u)
        PROVE  ReorderRowsOK'
    BY <1>3 DEF Collect, FinishReorder, ReorderFails
  <1>4. ASSUME NEW u \in Users, DraftOrder(u)
        PROVE  ReorderRowsOK'
    <2>1. PICK p \in Suppliers :
            \/ UNCHANGED drafts
            \/ /\ \A s \in {s \in call[u].todo : p \in SupplierOf[s]} : drafts[s] < MaxDrafts
               /\ drafts' = [s \in Skus |-> drafts[s]
                               + IF s \in {t \in call[u].todo : p \in SupplierOf[t]} THEN 1 ELSE 0]
      BY <1>4 DEF DraftOrder
    <2>2. UNCHANGED <<flag, runRow>>  BY <1>4 DEF DraftOrder
    <2>3. drafts' \in [Skus -> 0..MaxDrafts]
      <3>1. CASE UNCHANGED drafts  BY <3>1
      <3>2. CASE ~ UNCHANGED drafts
        <4> SUFFICES ASSUME NEW s \in Skus
                     PROVE  drafts[s] + (IF s \in {t \in call[u].todo : p \in SupplierOf[t]} THEN 1 ELSE 0)
                              \in 0..MaxDrafts
          BY <2>1, <3>2
        <4> QED  BY <2>1, <3>2
      <3> QED  BY <3>1, <3>2
    <2> QED  BY <2>2, <2>3
  <1>5. CASE UNCHANGED reorderVars
    BY <1>5 DEF reorderVars
  <1> QED  BY <1>1, <1>2, <1>3, <1>4, <1>5 DEF ReorderNext

LEMMA ReorderStart == ReorderInit => ReorderCallsOK /\ ReorderRowsOK
  BY ReorderAssumption
  DEF ReorderAssumption, ReorderInit, CallsInit, ReorderCallsOK, ReorderRowsOK, NoCall

-----------------------------------------------------------------------------
(* Campaigns and promotions.                                               *)

(* A call that counts a use has read no more than the uses there are, and  *)
(* one that moves a campaign has not read that it was sent.                *)
MarketingReads ==
  \A u \in Users :
    /\ call[u].op \in {"recordUse", "removePromotion"} => call[u].read <= uses[call[u].doc]
    /\ call[u].op \in {"schedule", "send", "removeCampaign"} => call[u].read # "completed"

MarketingInv == MarketingTypeOK /\ UseCountedOnce /\ MarketingReads

LEMMA MarketingCallIs ==
  ASSUME MarketingTypeOK, NEW u \in Users
  PROVE  /\ call[u].op \in {"schedule", "send", "removeCampaign"}
              => call[u] # NoCall /\ call[u].doc \in Campaigns /\ call[u].read \in CampaignStatus
         /\ call[u].op \in {"recordUse", "removePromotion"}
              => call[u] # NoCall /\ call[u].doc \in Promotions /\ call[u].read \in 0..MaxUsed
  <1>1. CASE call[u] = NoCall  BY <1>1 DEF NoCall
  <1>2. CASE call[u] \in MarketingCall  BY <1>2 DEF MarketingCall, NoCall
  <1> QED  BY <1>1, <1>2 DEF MarketingTypeOK

LEMMA MarketingInductive ==
  ASSUME MarketingInv, [MarketingNext]_marketingVars
  PROVE  MarketingInv'
  <1> USE MarketingAssumption
      DEF MarketingInv, MarketingTypeOK, MarketingAssumption, MarketingCall, NoCall,
          marketingTables, PromotionRow, CampaignStatus, UseCountedOnce, MarketingReads
  <1>1. ASSUME NEW c \in Campaigns, CreateCampaign(c)
        PROVE  MarketingInv'
    BY <1>1 DEF CreateCampaign
  <1>2. ASSUME NEW c \in Campaigns, NEW k \in DOMAIN message[c],
               NEW event \in {"opened", "clicked", "converted"}, RecordEngagement(c, k, event)
        PROVE  MarketingInv'
    <2> DEFINE m == message[c][k]
               marked == [opened    |-> m.opened \/ event \in {"opened", "clicked"},
                          clicked   |-> m.clicked \/ event = "clicked",
                          converted |-> m.converted \/ event = "converted"]
    <2>1. marked \in Message
      <3>1. (m.opened \/ event \in {"opened", "clicked"}) \in BOOLEAN  OBVIOUS
      <3>2. (m.clicked \/ event = "clicked") \in BOOLEAN  OBVIOUS
      <3>3. (m.converted \/ event = "converted") \in BOOLEAN  OBVIOUS
      <3> QED  BY <3>1, <3>2, <3>3 DEF Message
    <2>2. message' = [message EXCEPT ![c] = [message[c] EXCEPT ![k] = marked]]
      BY <1>2 DEF RecordEngagement
    <2> HIDE DEF marked
    <2>3. /\ [message[c] EXCEPT ![k] = marked] \in Seq(Message)
          /\ Len([message[c] EXCEPT ![k] = marked]) = Len(message[c])
      BY <2>1
    <2>4. MarketingTypeOK'  BY <1>2, <2>2, <2>3 DEF RecordEngagement
    <2> QED  BY <1>2, <2>4 DEF RecordEngagement
  <1>3. ASSUME NEW p \in Promotions, CreatePromotion(p)
        PROVE  MarketingInv'
    BY <1>3 DEF CreatePromotion
  <1>4. ASSUME NEW p \in Promotions, NEW to \in {"active", "inactive"}, SwitchPromotion(p, to)
        PROVE  MarketingInv'
    BY <1>4 DEF SwitchPromotion
  <1>5. ASSUME NEW u \in Users, NEW c \in Campaigns,
               NEW op \in {"schedule", "send", "removeCampaign"}, StartCampaignStep(u, c, op)
        PROVE  MarketingInv'
    <2>1. campaign[c] # "completed"  BY <1>5 DEF StartCampaignStep, CampaignStepFrom
    <2> QED  BY <1>5, <2>1 DEF StartCampaignStep, Enter
  <1>6. ASSUME NEW u \in Users, NEW p \in Promotions,
               NEW op \in {"recordUse", "removePromotion"}, StartPromotionStep(u, p, op)
        PROVE  MarketingInv'
    BY <1>6 DEF StartPromotionStep, Enter
  <1>7. ASSUME NEW u \in Users, FinishSchedule(u)
        PROVE  MarketingInv'
    BY <1>7 DEF FinishSchedule, Leave
  <1>8. ASSUME NEW u \in Users, FinishSend(u)
        PROVE  MarketingInv'
    <2> DEFINE c == call[u].doc
    <2>1. NewMessage \in Message  BY DEF NewMessage, Message
    <2>2. c \in Campaigns  BY <1>8, MarketingCallIs DEF FinishSend
    <2>3. /\ Append(message[c], NewMessage) \in Seq(Message)
          /\ Len(Append(message[c], NewMessage)) <= MaxSendings
      BY <1>8, <2>1, <2>2 DEF FinishSend
    <2>4. message' = [message EXCEPT ![c] = Append(message[c], NewMessage)]
      BY <1>8 DEF FinishSend
    <2>5. /\ message' \in [Campaigns -> Seq(Message)]
          /\ \A d \in Campaigns : Len(message'[d]) <= MaxSendings
      <3> HIDE DEF c
      <3> QED  BY <2>2, <2>3, <2>4 DEF MarketingTypeOK
    <2>6. MarketingTypeOK'  BY <1>8, <2>5 DEF FinishSend, Leave
    <2> QED  BY <1>8, <2>6 DEF FinishSend, Leave
  <1>9. ASSUME NEW u \in Users, FinishRemoveCampaign(u)
        PROVE  MarketingInv'
    <2> DEFINE c == call[u].doc
    <2>1. <<>> \in Seq(Message) /\ Len(<<>>) <= MaxSendings  OBVIOUS
    <2>2. message' = [message EXCEPT ![c] = <<>>]  BY <1>9 DEF FinishRemoveCampaign
    <2>3. /\ message' \in [Campaigns -> Seq(Message)]
          /\ \A d \in Campaigns : Len(message'[d]) <= MaxSendings
      <3> HIDE DEF c
      <3> QED  BY <2>1, <2>2 DEF MarketingTypeOK
    <2>4. MarketingTypeOK'  BY <1>9, <2>3 DEF FinishRemoveCampaign, Leave
    <2> QED  BY <1>9, <2>4 DEF FinishRemoveCampaign, Leave
  <1>10. ASSUME NEW u \in Users, FinishRecordUse(u)
         PROVE  MarketingInv'
    <2> DEFINE p == call[u].doc
    <2>1. p \in Promotions /\ call[u].read \in 0..MaxUsed /\ call[u].read <= uses[p]
      BY <1>10, MarketingCallIs DEF FinishRecordUse
    <2>2. uses' = [uses EXCEPT ![p] = uses[p] + 1] /\ uses[p] < MaxUsed
      BY <1>10 DEF FinishRecordUse
    <2>3. MarketingTypeOK'
      <3>1. /\ promotion' = [promotion EXCEPT ![p].usedCount = call[u].read + 1]
            /\ call[u].read + 1 \in 0..MaxUsed /\ uses[p] + 1 \in 0..MaxUsed
        BY <1>10, <2>1, <2>2 DEF FinishRecordUse
      <3> HIDE DEF p
      <3>2. promotion' \in [Promotions -> PromotionRow] /\ uses' \in [Promotions -> 0..MaxUsed]
        BY <2>1, <2>2, <3>1
      <3> QED  BY <1>10, <3>2 DEF FinishRecordUse, Leave
    <2>4. UseCountedOnce'  BY <1>10, <2>1, <2>2 DEF FinishRecordUse
    <2>5. MarketingReads'  BY <1>10, <2>1, <2>2 DEF FinishRecordUse, Leave
    <2> QED  BY <2>3, <2>4, <2>5
  <1>11. ASSUME NEW u \in Users, FinishRemovePromotion(u)
         PROVE  MarketingInv'
    <2> DEFINE p == call[u].doc
               stands == IF call[u].read > 0 THEN "inactive" ELSE "deleted"
               row == [promotion[p] EXCEPT !.status = stands]
    <2>1. p \in Promotions  BY <1>11, MarketingCallIs DEF FinishRemovePromotion
    <2>2. /\ promotion' = [promotion EXCEPT ![p] = row]
          /\ call' = [call EXCEPT ![u] = NoCall]
          /\ UNCHANGED <<campaign, message, uses>>
      BY Zenon, <1>11 DEF FinishRemovePromotion, Leave
    <2>3. row \in PromotionRow /\ row.usedCount = promotion[p].usedCount  BY <2>1
    <2> HIDE DEF row, p
    <2>4. MarketingTypeOK' /\ UseCountedOnce'  BY <2>1, <2>2, <2>3
    <2>5. MarketingReads'  BY <2>2
    <2> QED  BY <2>4, <2>5
  <1>12. ASSUME NEW u \in Users, MarketingFails(u)
         PROVE  MarketingInv'
    BY <1>12 DEF MarketingFails, Fails, Leave
  <1>13. CASE UNCHANGED marketingVars
    BY <1>13 DEF marketingVars
  <1> HIDE DEF MarketingInv
  <1> QED
    BY <1>1, <1>2, <1>3, <1>4, <1>5, <1>6, <1>7, <1>8, <1>9, <1>10, <1>11, <1>12, <1>13
    DEF MarketingNext

LEMMA MarketingStarts == MarketingInit => MarketingInv
  BY MarketingAssumption
  DEF MarketingAssumption, MarketingInit, CallsInit, MarketingInv, MarketingTypeOK,
      UseCountedOnce, MarketingReads, NoCall, PromotionRow, CampaignStatus

(* However many uses of a promotion overlap, its count is never more than  *)
(* its uses.                                                               *)
THEOREM UsesCountOnce == MarketingSpec => []UseCountedOnce
  <1>1. MarketingInv => UseCountedOnce  BY DEF MarketingInv
  <1>2. MarketingInv /\ [MarketingNext]_marketingVars => MarketingInv'
    BY MarketingInductive
  <1> QED  BY <1>1, <1>2, MarketingStarts, PTL DEF MarketingSpec

LEMMA SentStays ==
  ASSUME MarketingInv, [MarketingNext]_marketingVars,
         NEW c \in Campaigns, campaign[c] = "completed", Fresh(c, "completed")
  PROVE  campaign'[c] = "completed" /\ Len(message'[c]) = Len(message[c])
  <1> USE DEF MarketingInv, MarketingTypeOK, MarketingCall, NoCall, MarketingReads
  <1>1. \A u \in Users : call[u].op \in {"schedule", "send", "removeCampaign"} => call[u].doc # c
    BY MarketingCallIs DEF Fresh
  <1>2. UNCHANGED <<campaign, message>> => campaign'[c] = "completed" /\ Len(message'[c]) = Len(message[c])
    OBVIOUS
  <1>3. ASSUME NEW d \in Campaigns, CreateCampaign(d)
        PROVE  campaign'[c] = "completed" /\ UNCHANGED message
    BY <1>3 DEF CreateCampaign
  <1>4. ASSUME NEW d \in Campaigns, NEW k \in DOMAIN message[d],
               NEW event \in {"opened", "clicked", "converted"}, RecordEngagement(d, k, event)
        PROVE  campaign'[c] = "completed" /\ Len(message'[c]) = Len(message[c])
    <2>1. message[c] \in Seq(Message) /\ message[d] \in Seq(Message)  OBVIOUS
    <2> QED  BY <1>4, <2>1 DEF RecordEngagement
  <1>5. ASSUME NEW u \in Users, FinishSchedule(u) \/ FinishSend(u) \/ FinishRemoveCampaign(u)
        PROVE  campaign'[c] = "completed" /\ message'[c] = message[c]
    <2>1. call[u].doc # c  BY <1>1, <1>5 DEF FinishSchedule, FinishSend, FinishRemoveCampaign
    <2> QED  BY <1>5, <2>1 DEF FinishSchedule, FinishSend, FinishRemoveCampaign
  <1>6. \/ UNCHANGED <<campaign, message>>
        \/ \E d \in Campaigns :
             CreateCampaign(d) \/ \E k \in DOMAIN message[d], event \in {"opened", "clicked", "converted"} :
                                    RecordEngagement(d, k, event)
        \/ \E u \in Users : FinishSchedule(u) \/ FinishSend(u) \/ FinishRemoveCampaign(u)
    BY DEF MarketingNext, marketingVars, marketingTables, CreatePromotion, SwitchPromotion,
           StartCampaignStep, StartPromotionStep, FinishRecordUse, FinishRemovePromotion, MarketingFails
  <1> QED  BY <1>2, <1>3, <1>4, <1>5, <1>6

LEMMA UsedStays ==
  ASSUME MarketingInv, [MarketingNext]_marketingVars,
         NEW p \in Promotions, uses[p] > 0, Fresh(p, uses[p]), promotion'[p].status = "deleted"
  PROVE  promotion[p].status = "deleted"
  <1> USE DEF MarketingInv, MarketingTypeOK, MarketingCall, NoCall, PromotionRow
  <1>1. ASSUME NEW u \in Users, FinishRemovePromotion(u)
        PROVE  promotion[p].status = "deleted"
    <2>1. call[u].doc \in Promotions /\ call[u] # NoCall
      BY <1>1, MarketingCallIs DEF FinishRemovePromotion
    <2>2. CASE call[u].doc = p
      <3>1. call[u].read > 0  BY <2>1, <2>2 DEF Fresh
      <3> QED  BY <1>1, <2>2, <3>1 DEF FinishRemovePromotion
    <2>3. CASE call[u].doc # p
      BY <1>1, <2>3 DEF FinishRemovePromotion
    <2> QED  BY <2>2, <2>3
  <1>2. ASSUME NEW u \in Users, FinishRecordUse(u)
        PROVE  promotion[p].status = "deleted"
    BY <1>2 DEF FinishRecordUse
  <1>3. ASSUME NEW q \in Promotions, CreatePromotion(q)
        PROVE  promotion[p].status = "deleted"
    BY <1>3 DEF CreatePromotion
  <1>4. ASSUME NEW q \in Promotions, NEW to \in {"active", "inactive"}, SwitchPromotion(q, to)
        PROVE  promotion[p].status = "deleted"
    BY <1>4 DEF SwitchPromotion
  <1>5. \/ UNCHANGED promotion
        \/ \E u \in Users : FinishRemovePromotion(u) \/ FinishRecordUse(u)
        \/ \E q \in Promotions :
             CreatePromotion(q) \/ \E to \in {"active", "inactive"} : SwitchPromotion(q, to)
    BY DEF MarketingNext, marketingVars, marketingTables, CreateCampaign, RecordEngagement,
           StartCampaignStep, StartPromotionStep, FinishSchedule, FinishSend,
           FinishRemoveCampaign, MarketingFails
  <1> QED  BY <1>1, <1>2, <1>3, <1>4, <1>5

(* A campaign that was sent, or a promotion that was used, is changed only *)
(* by a call that overlapped the sending or the use.                       *)
THEOREM SentAndUsedAreKept == MarketingSpec => SentAndUsedStay
  <1>1. MarketingInv /\ [MarketingNext]_marketingVars => MarketingInv'
    BY MarketingInductive
  <1>2. MarketingInv /\ [MarketingNext]_marketingVars
          => [/\ \A c \in Campaigns : campaign[c] = "completed" /\ Fresh(c, "completed")
                   => campaign'[c] = "completed" /\ Len(message'[c]) = Len(message[c])
              /\ \A p \in Promotions : uses[p] > 0 /\ Fresh(p, uses[p]) /\ promotion'[p].status = "deleted"
                   => promotion[p].status = "deleted"]_marketingVars
    BY SentStays, UsedStays
  <1> QED  BY <1>1, <1>2, MarketingStarts, PTL DEF MarketingSpec, SentAndUsedStay

-----------------------------------------------------------------------------
(* The audit trail: operations that follow each other leave a chain that   *)
(* verifies, for any length of the trail and any number of rows            *)
(* verifyChain takes.                                                      *)

NoTwoOfATime == \A r, s \in auditLog : r.at = s.at => r = s

(* The row that comes next in time holds the hash of the one before it.    *)
Linked ==
  \A r, s \in auditLog :
    r # s /\ r.at <= s.at /\ (\A t \in auditLog : ~ (r.at < t.at /\ t.at < s.at)) => s.prev = r.hash

(* While no two operations log at a time, the one that does has read the   *)
(* row that is still the last, and has no earlier time than any row.       *)
OneAtWork ==
  /\ \A u, v \in Users : call[u] # NoCall /\ call[v] # NoCall => u = v
  /\ \A u \in Users : call[u].op = "stamped" => \A r \in auditLog : r.at <= call[u].at
  /\ NoTwoOfATime =>
       /\ Linked
       /\ \A u \in Users : call[u] # NoCall => \A r \in Latest : call[u].prev = r.hash

TrailOK ==
  /\ AuditTypeOK
  /\ IsFiniteSet(auditLog)
  /\ \A r \in auditLog : r.at <= clock
  /\ \A u \in Users : call[u].op = "stamped" => call[u].at <= clock
  /\ apart => OneAtWork

(* The row a call writes. *)
Written(u) == [hash |-> Cardinality(auditLog) + 1, prev |-> call[u].prev, at |-> call[u].at]

LEMMA WrittenIsRow ==
  ASSUME TrailOK, NEW u \in Users, WriteRow(u)
  PROVE  /\ Written(u) \in AuditRow /\ Written(u).prev = call[u].prev /\ Written(u).at = call[u].at
         /\ auditLog' = auditLog \cup {Written(u)}
         /\ call' = [call EXCEPT ![u] = NoCall]
         /\ clock' = clock /\ apart' = apart
         /\ call[u] # NoCall /\ call[u].op = "stamped"
  <1> USE AuditAssumption DEF AuditAssumption, TrailOK, AuditTypeOK
  <1>1. call[u] \in [op : {"stamped"}, prev : Hashes \cup {Zero}, at : 0..LastTick]
    BY DEF WriteRow, AuditCall, NoCall
  <1>2. Cardinality(auditLog) \in Nat  BY FS_CardinalityType
  <1>3. Cardinality(auditLog) + 1 \in Hashes  BY <1>2 DEF WriteRow, Hashes
  <1>4. Written(u) \in AuditRow /\ Written(u).prev = call[u].prev /\ Written(u).at = call[u].at
    BY <1>1, <1>3 DEF Written, AuditRow
  <1> QED  BY <1>4 DEF WriteRow, Written, Leave, NoCall

(* A step that writes no row. *)
LEMMA TrailKept ==
  ASSUME TrailOK, UNCHANGED auditLog, clock' \in 0..LastTick, clock <= clock', apart' \in BOOLEAN,
         call' \in [Users -> AuditCall \cup {NoCall}],
         \A u \in Users : call'[u].op = "stamped" => call'[u].at <= clock',
         apart' => /\ apart
                   /\ \A u, v \in Users : call'[u] # NoCall /\ call'[v] # NoCall => u = v
                   /\ \A u \in Users : call'[u].op = "stamped" => \A r \in auditLog : r.at <= call'[u].at
                   /\ NoTwoOfATime =>
                        \A u \in Users : call'[u] # NoCall => \A r \in Latest : call'[u].prev = r.hash
  PROVE  TrailOK'
  <1>1. AuditTypeOK' /\ IsFiniteSet(auditLog')  BY DEF TrailOK, AuditTypeOK
  <1>2. \A r \in auditLog' : r.at <= clock'
    <2>1. \A r \in auditLog : r.at \in Int /\ r.at <= clock  BY DEF TrailOK, AuditTypeOK, AuditRow
    <2>2. clock \in Int /\ clock' \in Int  BY DEF TrailOK, AuditTypeOK
    <2> QED  BY <2>1, <2>2
  <1>3. /\ NoTwoOfATime' <=> NoTwoOfATime
        /\ Linked' <=> Linked
        /\ Latest' = Latest
    BY DEF NoTwoOfATime, Linked, Latest
  <1>4. apart' => OneAtWork'
    <2> SUFFICES ASSUME apart' PROVE OneAtWork'
      OBVIOUS
    <2>1. NoTwoOfATime => Linked  BY DEF TrailOK, OneAtWork
    <2> QED  BY <1>3, <2>1 DEF OneAtWork
  <1> QED  BY <1>1, <1>2, <1>4 DEF TrailOK

LEMMA TrailInductive ==
  ASSUME TrailOK, [AuditNext]_auditVars
  PROVE  TrailOK'
  <1> USE AuditAssumption DEF AuditAssumption
  <1>0. /\ call \in [Users -> AuditCall \cup {NoCall}] /\ clock \in 0..LastTick /\ apart \in BOOLEAN
        /\ auditLog \subseteq AuditRow /\ clock \in Int /\ NoCall.op = "idle"
        /\ \A r \in auditLog : r.at \in Int /\ r.at <= clock
        /\ \A u \in Users : call[u].op = "stamped" => call[u].at <= clock
    BY DEF TrailOK, AuditTypeOK, AuditRow, NoCall
  <1>1. CASE Tick
    <2>1. /\ clock' = clock + 1 /\ clock < LastTick /\ UNCHANGED <<auditLog, apart, call>>
      BY <1>1 DEF Tick
    <2>2. clock' \in 0..LastTick /\ clock <= clock'  BY <1>0, <2>1
    <2>3. \A u \in Users : call'[u].op = "stamped" => call'[u].at <= clock'
      <3>1. ASSUME NEW u \in Users, call[u].op = "stamped"
            PROVE  call[u].at \in Int
        BY <1>0, <3>1 DEF AuditCall, NoCall
      <3> QED  BY <1>0, <2>1, <2>2, <3>1
    <2> QED  BY <1>0, <2>1, <2>2, <2>3, TrailKept DEF TrailOK, OneAtWork
  <1>2. ASSUME NEW u \in Users, ReadLast(u)
        PROVE  TrailOK'
    <2>1. PICK h \in Hashes \cup {Zero} :
            /\ call' = [call EXCEPT ![u] = [op |-> "log", prev |-> h]]
            /\ auditLog = {} \/ \E r \in Latest : h = r.hash
      BY <1>0, <1>2 DEF ReadLast, Enter, Latest, AuditRow
    <2>2. [op |-> "log", prev |-> h] \in AuditCall  BY DEF AuditCall
    <2> DEFINE c == [op |-> "log", prev |-> h]
    <2>3. c.op = "log" /\ c.prev = h  OBVIOUS
    <2> HIDE DEF c
    <2>4. /\ call' \in [Users -> AuditCall \cup {NoCall}]
          /\ \A v \in Users : call'[v] = IF v = u THEN c ELSE call[v]
      BY <1>0, <2>1, <2>2 DEF c
    <2>5. /\ UNCHANGED <<auditLog, clock>>
          /\ apart' = (apart /\ \A v \in Users : call[v] = NoCall)
      BY <1>2 DEF ReadLast
    <2>6. \A v \in Users : call'[v].op = "stamped" => call'[v].at <= clock'
      BY <1>0, <2>3, <2>4, <2>5
    <2>7. ASSUME apart'
          PROVE  /\ apart
                 /\ \A v \in Users : call'[v] # NoCall => v = u
                 /\ \A v \in Users : call'[v].op # "stamped"
                 /\ NoTwoOfATime => \A r \in Latest : c.prev = r.hash
      <3>1. apart /\ \A v \in Users : call[v] = NoCall  BY <2>5, <2>7
      <3>2. NoTwoOfATime => \A r, s \in Latest : r = s
        BY <1>0 DEF NoTwoOfATime, Latest
      <3>3. auditLog = {} => Latest = {}  BY DEF Latest
      <3> QED  BY <1>0, <2>1, <2>3, <2>4, <3>1, <3>2, <3>3
    <2>8. apart' /\ NoTwoOfATime => \A v \in Users : call'[v] # NoCall =>
                                      \A r \in Latest : call'[v].prev = r.hash
      BY <2>4, <2>7
    <2>9. apart' \in BOOLEAN /\ clock <= clock'  BY <1>0, <2>5
    <2> QED  BY <1>0, <2>4, <2>5, <2>6, <2>7, <2>8, <2>9, TrailKept
  <1>3. ASSUME NEW u \in Users, Stamp(u)
        PROVE  TrailOK'
    <2> DEFINE c == [op |-> "stamped", prev |-> call[u].prev, at |-> clock]
    <2>1. call[u].prev \in Hashes \cup {Zero} /\ call[u] # NoCall
      BY <1>0, <1>3 DEF Stamp, AuditCall, NoCall
    <2>2. c \in AuditCall /\ c.op = "stamped" /\ c.prev = call[u].prev /\ c.at = clock
      BY <1>0, <2>1 DEF AuditCall
    <2>3. call' = [call EXCEPT ![u] = c] /\ UNCHANGED <<auditLog, clock, apart>>
      BY <1>3 DEF Stamp, Proceed, auditTables
    <2> HIDE DEF c
    <2>4. /\ call' \in [Users -> AuditCall \cup {NoCall}]
          /\ \A v \in Users : call'[v] = IF v = u THEN c ELSE call[v]
      BY <1>0, <2>2, <2>3
    <2>5. \A v \in Users : /\ call'[v] # NoCall => call[v] # NoCall
                           /\ call[v] # NoCall => call'[v].prev = call[v].prev
      BY <2>1, <2>2, <2>4
    <2>6. \A v \in Users : call'[v].op = "stamped" => call'[v].at <= clock'
      BY <1>0, <2>2, <2>3, <2>4
    <2>7. apart => \A v \in Users : call'[v].op = "stamped" => \A r \in auditLog : r.at <= call'[v].at
      BY <1>0, <2>2, <2>4 DEF TrailOK, OneAtWork
    <2>8. apart => /\ \A v, w \in Users : call'[v] # NoCall /\ call'[w] # NoCall => v = w
                   /\ NoTwoOfATime => \A v \in Users : call'[v] # NoCall =>
                                        \A r \in Latest : call'[v].prev = r.hash
      BY <2>5 DEF TrailOK, OneAtWork
    <2>9. apart' \in BOOLEAN /\ clock <= clock' /\ clock' \in 0..LastTick  BY <1>0, <2>3
    <2> QED  BY <2>3, <2>4, <2>6, <2>7, <2>8, <2>9, TrailKept
  <1>4. ASSUME NEW u \in Users, WriteRow(u)
        PROVE  TrailOK'
    <2>1. PICK n \in AuditRow :
            /\ n.prev = call[u].prev /\ n.at = call[u].at
            /\ auditLog' = auditLog \cup {n} /\ clock' = clock /\ apart' = apart
            /\ call' = [call EXCEPT ![u] = NoCall] /\ call[u] # NoCall /\ call[u].op = "stamped"
      BY <1>4, WrittenIsRow
    <2>2. /\ call' \in [Users -> AuditCall \cup {NoCall}]
          /\ \A v \in Users : call'[v] = IF v = u THEN NoCall ELSE call[v]
      BY <1>0, <2>1
    <2>3. AuditTypeOK'  BY <1>0, <2>1, <2>2 DEF AuditTypeOK
    <2>4. IsFiniteSet(auditLog')  BY <2>1, FS_AddElement DEF TrailOK
    <2>5. n.at \in Int /\ n.at <= clock  BY <1>0, <2>1 DEF AuditRow
    <2>6. /\ \A r \in auditLog' : r.at <= clock'
          /\ \A v \in Users : call'[v].op = "stamped" => call'[v].at <= clock'
      BY <1>0, <2>1, <2>2, <2>5
    <2>7. ASSUME apart'
          PROVE  OneAtWork'
      <3>1. OneAtWork  BY <2>1, <2>7 DEF TrailOK
      <3>2. \A v \in Users : call'[v] = NoCall  BY <2>1, <2>2, <3>1 DEF OneAtWork
      <3>3. \A r \in auditLog : r.at <= n.at  BY <2>1, <3>1 DEF OneAtWork
      <3>4. ASSUME NoTwoOfATime'
            PROVE  Linked'
        <4>1. NoTwoOfATime  BY <2>1, <3>4 DEF NoTwoOfATime
        <4>2. Linked /\ \A r \in Latest : n.prev = r.hash
          BY <2>1, <3>1, <4>1 DEF OneAtWork
        <4>3. CASE n \in auditLog
          <5>1. auditLog' = auditLog  BY <2>1, <4>3
          <5> QED  BY <4>2, <5>1 DEF Linked
        <4>4. CASE n \notin auditLog
          <5>1. \A r \in auditLog : r.at < n.at
            <6>1. \A r \in auditLog : r.at # n.at  BY <2>1, <3>4, <4>4 DEF NoTwoOfATime
            <6> QED  BY <1>0, <2>5, <3>3, <6>1
          <5>2. SUFFICES ASSUME NEW r \in auditLog', NEW s \in auditLog', r # s, r.at <= s.at,
                                \A t \in auditLog' : ~ (r.at < t.at /\ t.at < s.at)
                         PROVE  s.prev = r.hash
            BY DEF Linked
          <5>3. CASE s \in auditLog
            <6>1. r \in auditLog  BY <1>0, <2>1, <2>5, <5>1, <5>2, <5>3
            <6> QED  BY <2>1, <4>2, <5>2, <5>3, <6>1 DEF Linked
          <5>4. CASE s = n
            <6>1. r \in auditLog  BY <2>1, <5>2, <5>4
            <6>2. ASSUME NEW t \in auditLog
                  PROVE  t.at <= r.at
              <7>1. t.at < n.at /\ ~ (r.at < t.at /\ t.at < n.at)  BY <2>1, <5>1, <5>2, <5>4
              <7> QED  BY <1>0, <6>1, <7>1
            <6>3. r \in Latest  BY <6>1, <6>2 DEF Latest
            <6> QED  BY <4>2, <5>4, <6>3
          <5> QED  BY <2>1, <5>3, <5>4
        <4> QED  BY <4>3, <4>4
      <3> QED  BY <1>0, <3>2, <3>4 DEF OneAtWork
    <2> QED  BY <2>3, <2>4, <2>6, <2>7 DEF TrailOK
  <1>5. ASSUME NEW u \in Users, LogFails(u)
        PROVE  TrailOK'
    <2>1. /\ call' \in [Users -> AuditCall \cup {NoCall}]
          /\ \A v \in Users : call'[v] = IF v = u THEN NoCall ELSE call[v]
          /\ UNCHANGED <<auditLog, clock, apart>>
      BY <1>0, <1>5 DEF LogFails, Fails, Leave, auditTables
    <2>2. \A v \in Users : call'[v] # NoCall => call'[v] = call[v]  BY <2>1
    <2>3. clock <= clock'  BY <1>0, <2>1
    <2> QED  BY <1>0, <2>1, <2>2, <2>3, TrailKept DEF TrailOK, OneAtWork
  <1>6. CASE UNCHANGED auditVars
    <2>1. UNCHANGED <<auditLog, clock, apart, call>>  BY <1>6 DEF auditVars, auditTables
    <2>2. clock <= clock'  BY <1>0, <2>1
    <2> QED  BY <1>0, <2>1, <2>2, TrailKept DEF TrailOK, OneAtWork
  <1> QED  BY <1>1, <1>2, <1>3, <1>4, <1>5, <1>6 DEF AuditNext

LEMMA TrailStart == AuditInit => TrailOK
  BY AuditAssumption, FS_EmptySet
  DEF AuditAssumption, AuditInit, CallsInit, TrailOK, AuditTypeOK, NoCall, OneAtWork, Linked, Latest

LEMMA TrailVerifies == TrailOK => ChainVerifies
  BY DEF TrailOK, OneAtWork, NoTwoOfATime, Linked, ChainVerifies, Verifies, MayFollow

(* A trail whose operations never logged at the same time, nor in the same *)
(* millisecond, verifies: the last row read is the last by time still when *)
(* the next is written, whatever operations fail in between.               *)
THEOREM ApartTrailsVerify == AuditSpec => []ChainVerifies
  <1>1. AuditInit => TrailOK  BY TrailStart
  <1>2. TrailOK /\ [AuditNext]_auditVars => TrailOK'  BY TrailInductive
  <1> QED  BY <1>1, <1>2, TrailVerifies, PTL DEF AuditSpec

-----------------------------------------------------------------------------
(***************************************************************************)
(* The composition: a behaviour is a scene of one component, and the other *)
(* components' tables are as they were.  The component of the scene keeps  *)
(* its inductive invariant; what is said of the others reads their tables  *)
(* alone.                                                                  *)
(***************************************************************************)

LEMMA SceneSteps ==
  ASSUME [Next]_vars
  PROVE  /\ UNCHANGED scene
         /\ scene = "delivery" => [DeliveryNext]_deliveryVars
         /\ scene = "purchasing" => [PurchasingNext]_purchasingVars
         /\ scene = "payables" => [PayablesNext]_payablesVars
         /\ scene = "receivables" => [ReceivablesNext]_receivablesVars
         /\ scene = "assets" => [AssetsNext]_assetsVars
         /\ scene = "hr" => [HrNext]_hrVars
         /\ scene = "licensing" => [LicensingNext]_licensingVars
         /\ scene = "trials" => [TrialsNext]_trialsVars
         /\ scene = "reorder" => [ReorderNext]_reorderVars
         /\ scene = "billing" => [BillingNext]_billingVars
         /\ scene = "quotations" => [QuotationsNext]_quotationsVars
         /\ scene = "jobOrders" => [JobOrdersNext]_jobOrdersVars
         /\ scene = "ledger" => [GlNext]_glVars
         /\ scene = "budgets" => [BudgetsNext]_budgetsVars
         /\ scene = "categories" => [CategoryTreeNext]_categoryTreeVars
         /\ scene = "audit" => [AuditNext]_auditVars
         /\ scene = "policies" => [HrPoliciesNext]_hrPoliciesVars
         /\ scene = "bank" => [BankNext]_bankVars
         /\ scene = "hiring" => [HiringNext]_hiringVars
         /\ scene = "planChange" => [PlanChangeNext]_planChangeVars
         /\ scene = "settings" => [SettingsNext]_settingsVars
         /\ scene = "prices" => [PriceListsNext]_priceListsVars
         /\ scene = "marketing" => [MarketingNext]_marketingVars
  <1>1. CASE Next
    BY Zenon, <1>1 DEF Next, Rest
  <1>2. CASE UNCHANGED vars
    BY <1>2
    DEF vars, tables, deliveryVars, purchasingVars, payablesVars, receivablesVars, assetsVars,
        hrVars, licensingVars, trialsVars, reorderVars, billingVars, quotationsVars,
        jobOrdersVars, glVars, budgetsVars, categoryTreeVars, auditVars, hrPoliciesVars, bankVars,
        hiringVars, planChangeVars, settingsVars, priceListsVars, marketingVars
  <1> QED  BY <1>1, <1>2

(* The components of which something is claimed in every scene. *)
LEMMA RestingTables ==
  ASSUME [Next]_vars
  PROVE  /\ scene # "delivery" => UNCHANGED deliveryTables
         /\ scene # "purchasing" => UNCHANGED purchasingTables
         /\ scene # "receivables" => UNCHANGED receivablesTables
         /\ scene # "assets" => UNCHANGED assetsTables
         /\ scene # "hr" => UNCHANGED hrTables
         /\ scene # "licensing" => UNCHANGED licensingTables
         /\ scene # "trials" => UNCHANGED trialsTables
         /\ scene # "billing" => UNCHANGED billingTables
         /\ scene # "quotations" => UNCHANGED quotationsTables
         /\ scene # "jobOrders" => UNCHANGED jobOrdersTables
         /\ scene # "ledger" => UNCHANGED glTables
         /\ scene # "budgets" => UNCHANGED budgetsTables
         /\ scene # "policies" => UNCHANGED hrPoliciesTables
         /\ scene # "bank" => UNCHANGED bankTables
         /\ scene # "hiring" => UNCHANGED hiringTables
         /\ scene # "prices" => UNCHANGED priceListsTables
         /\ scene # "marketing" => UNCHANGED marketingTables
  <1>1. CASE Next
    BY Zenon, <1>1 DEF Next, Rest
  <1>2. CASE UNCHANGED vars
    BY <1>2 DEF vars, tables
  <1> QED  BY Zenon, <1>1, <1>2

(* The component of the scene. *)
SceneInv ==
  /\ scene = "delivery" => DeliveryTypeOK
  /\ scene = "purchasing" => PurchasingInv
  /\ scene = "payables" => PayablesInv
  /\ scene = "receivables" => ReceivablesInv
  /\ scene = "assets" => AssetsInv
  /\ scene = "hr" => HrInv
  /\ scene = "licensing" => LicensingInv
  /\ scene = "trials" => TrialsInv
  /\ scene = "reorder" => ReorderCallsOK /\ ReorderRowsOK
  /\ scene = "billing" => BillingInv
  /\ scene = "quotations" => QuotationsInv
  /\ scene = "jobOrders" => JobOrdersInv
  /\ scene = "ledger" => GlInv
  /\ scene = "budgets" => BudgetsInv
  /\ scene = "categories" => CategoryTreeTypeOK
  /\ scene = "audit" => TrailOK
  /\ scene = "policies" => PoliciesInv
  /\ scene = "bank" => BankTypeOK
  /\ scene = "hiring" => HiringInv
  /\ scene = "planChange" => PlanInv
  /\ scene = "settings" => SettingsTypeOK /\ ChangeIsSeen
  /\ scene = "prices" => PriceListsTypeOK
  /\ scene = "marketing" => MarketingInv

LEMMA SceneInductive ==
  ASSUME SceneInv, [Next]_vars
  PROVE  SceneInv'
  <1>0. UNCHANGED scene  BY SceneSteps
  <1>1. scene = "delivery" => DeliveryTypeOK'  BY SceneSteps, DeliveryInductive DEF SceneInv
  <1>2. scene = "purchasing" => PurchasingInv'  BY SceneSteps, PurchasingInductive DEF SceneInv
  <1>3. scene = "payables" => PayablesInv'  BY SceneSteps, PayablesInductive DEF SceneInv
  <1>4. scene = "receivables" => ReceivablesInv'  BY SceneSteps, ReceivablesInductive DEF SceneInv
  <1>5. scene = "assets" => AssetsInv'  BY SceneSteps, AssetsInductive DEF SceneInv
  <1>6. scene = "hr" => HrInv'  BY SceneSteps, HrInductive DEF SceneInv
  <1>7. scene = "licensing" => LicensingInv'  BY SceneSteps, LicensingInductive DEF SceneInv
  <1>8. scene = "trials" => TrialsInv'  BY SceneSteps, TrialsInductive DEF SceneInv
  <1>9. scene = "reorder" => ReorderCallsOK' /\ ReorderRowsOK'
    BY SceneSteps, ReorderInductive, ReorderRowsInductive DEF SceneInv
  <1>10. scene = "billing" => BillingInv'  BY SceneSteps, BillingInductive DEF SceneInv
  <1>11. scene = "quotations" => QuotationsInv'  BY SceneSteps, QuotationsInductive DEF SceneInv
  <1>12. scene = "jobOrders" => JobOrdersInv'  BY SceneSteps, JobOrdersInductive DEF SceneInv
  <1>13. scene = "ledger" => GlInv'  BY SceneSteps, GlInductive DEF SceneInv
  <1>14. scene = "budgets" => BudgetsInv'  BY SceneSteps, BudgetsInductive DEF SceneInv
  <1>15. scene = "categories" => CategoryTreeTypeOK'
    BY SceneSteps, CategoryTreeInductive DEF SceneInv
  <1>16. scene = "audit" => TrailOK'  BY SceneSteps, TrailInductive DEF SceneInv
  <1>17. scene = "policies" => PoliciesInv'  BY SceneSteps, PoliciesInductive DEF SceneInv
  <1>18. scene = "bank" => BankTypeOK'  BY SceneSteps, BankInductive DEF SceneInv
  <1>19. scene = "hiring" => HiringInv'  BY SceneSteps, HiringInductive DEF SceneInv
  <1>20. scene = "planChange" => PlanInv'  BY SceneSteps, PlanInductive DEF SceneInv
  <1>21. scene = "settings" => SettingsTypeOK' /\ ChangeIsSeen'
    BY SceneSteps, SettingsInductive DEF SceneInv
  <1>22. scene = "prices" => PriceListsTypeOK'  BY SceneSteps, PriceListsInductive DEF SceneInv
  <1>23. scene = "marketing" => MarketingInv'  BY SceneSteps, MarketingInductive DEF SceneInv
  <1> QED
    BY <1>0, <1>1, <1>2, <1>3, <1>4, <1>5, <1>6, <1>7, <1>8, <1>9, <1>10, <1>11, <1>12, <1>13,
       <1>14, <1>15, <1>16, <1>17, <1>18, <1>19, <1>20, <1>21, <1>22, <1>23
    DEF SceneInv

LEMMA SceneStart ==
  ASSUME Init
  PROVE  SceneInv
  <1>1. DeliveryTypeOK /\ PurchasingInv /\ PayablesInv /\ ReceivablesInv /\ AssetsInv /\ HrInv
    BY DeliveryStart, PurchasingStart, PayablesStart, ReceivablesStart, AssetsStart, HrStart
    DEF Init
  <1>2. LicensingInv /\ TrialsInv /\ BillingInv /\ QuotationsInv /\ JobOrdersInv
    BY LicensingStart, TrialsStart, BillingStart, QuotationsStart, JobOrdersStart DEF Init
  <1>3. GlInv /\ BudgetsInv /\ CategoryTreeTypeOK /\ TrailOK /\ PoliciesInv /\ BankTypeOK
    BY GlStart, BudgetsStart, CategoryTreeStart, TrailStart, PoliciesStart, BankStart DEF Init
  <1>4. HiringInv /\ PlanInv /\ SettingsTypeOK /\ ChangeIsSeen /\ PriceListsTypeOK /\ MarketingInv
    BY HiringStart, PlanStart, SettingsStart, PriceListsStart, MarketingStarts DEF Init
  <1>5. ReorderCallsOK /\ ReorderRowsOK  BY ReorderStart DEF Init
  <1> QED  BY <1>1, <1>2, <1>3, <1>4, <1>5 DEF SceneInv

(* The rows and the calls of every component have their types, whatever    *)
(* overlaps, for any users, documents and bounds.                          *)
THEOREM TypeCorrect == Spec => []TypeOK
  <1>1. Init => SceneInv  BY SceneStart
  <1>2. SceneInv /\ [Next]_vars => SceneInv'  BY SceneInductive
  <1>3. SceneInv => TypeOK
    <2> SUFFICES ASSUME SceneInv PROVE TypeOK
      OBVIOUS
    <2>1. PurchasingInv => PurchasingTypeOK  BY DEF PurchasingInv
    <2>2. PayablesInv => PayablesTypeOK  BY DEF PayablesInv
    <2>3. ReceivablesInv => ReceivablesTypeOK
      BY DEF ReceivablesInv, ReceivablesRowsOK, ReceivablesCallsOK, ReceivablesTypeOK
    <2>4. AssetsInv => AssetsTypeOK  BY DEF AssetsInv
    <2>5. HrInv => HrTypeOK  BY DEF HrInv
    <2>6. LicensingInv => LicensingTypeOK  BY DEF LicensingInv
    <2>7. TrialsInv => TrialsTypeOK  BY DEF TrialsInv
    <2>8. ReorderCallsOK /\ ReorderRowsOK => ReorderTypeOK
      BY DEF ReorderCallsOK, ReorderRowsOK, ReorderTypeOK
    <2>9. BillingInv => BillingTypeOK  BY DEF BillingInv
    <2>10. QuotationsInv => QuotationsTypeOK  BY DEF QuotationsInv
    <2>11. JobOrdersInv => JobOrdersTypeOK  BY DEF JobOrdersInv
    <2>12. GlInv => GlTypeOK  BY DEF GlInv, GlRowsOK, GlTypeOK
    <2>13. BudgetsInv => BudgetsTypeOK  BY DEF BudgetsInv
    <2>14. TrailOK => AuditTypeOK  BY DEF TrailOK
    <2>15. PoliciesInv => HrPoliciesTypeOK  BY DEF PoliciesInv
    <2>16. HiringInv => HiringTypeOK  BY DEF HiringInv
    <2>17. PlanInv => PlanChangeTypeOK  BY DEF PlanInv
    <2>18. MarketingInv => MarketingTypeOK  BY DEF MarketingInv
    <2> QED
      BY <2>1, <2>2, <2>3, <2>4, <2>5, <2>6, <2>7, <2>8, <2>9, <2>10, <2>11, <2>12, <2>13, <2>14,
         <2>15, <2>16, <2>17, <2>18
      DEF SceneInv, TypeOK
  <1> QED  BY <1>1, <1>2, <1>3, PTL DEF Spec

(* A notice of a trial goes out once, a licence is renewed by one cycle a  *)
(* window, one budget of a year is active and a use of a promotion counts  *)
(* once, whatever overlaps.                                                *)
THEOREM OccasionsHappenOnce == Spec => []OncePerOccasion
  <1>1. Init => SceneInv /\ OncePerOccasion
    <2> SUFFICES ASSUME Init PROVE SceneInv /\ OncePerOccasion
      OBVIOUS
    <2>1. TrialsInv /\ LicensingInv /\ BudgetsInv /\ MarketingInv
      BY TrialsStart, LicensingStart, BudgetsStart, MarketingStarts DEF Init
    <2>2. NoticeOnce  BY <2>1 DEF TrialsInv
    <2>3. RenewedOncePerWindow  BY <2>1, LicensingBounded
    <2> QED
      BY <2>1, <2>2, <2>3, SceneStart DEF OncePerOccasion, BudgetsInv, MarketingInv
  <1>2. SceneInv /\ OncePerOccasion /\ [Next]_vars => SceneInv' /\ OncePerOccasion'
    <2> SUFFICES ASSUME SceneInv, OncePerOccasion, [Next]_vars
                 PROVE  SceneInv' /\ OncePerOccasion'
      OBVIOUS
    <2>1. SceneInv' /\ UNCHANGED scene  BY SceneInductive, SceneSteps
    <2>2. NoticeOnce'
      <3>1. CASE scene = "trials"  BY <2>1, <3>1 DEF SceneInv, TrialsInv
      <3>2. CASE scene # "trials"
        BY <3>2, RestingTables DEF trialsTables, OncePerOccasion, NoticeOnce
      <3> QED  BY <3>1, <3>2
    <2>3. RenewedOncePerWindow'
      <3>1. CASE scene = "licensing"
        <4>1. LicensingInv'  BY <2>1, <3>1 DEF SceneInv
        <4>2. LicensingInv' => RenewedOncePerWindow'  BY LicensingBounded, PTL
        <4> QED  BY <4>1, <4>2
      <3>2. CASE scene # "licensing"
        BY <3>2, RestingTables DEF licensingTables, OncePerOccasion, RenewedOncePerWindow
      <3> QED  BY <3>1, <3>2
    <2>4. OneActivePerYear'
      <3>1. CASE scene = "budgets"  BY <2>1, <3>1 DEF SceneInv, BudgetsInv
      <3>2. CASE scene # "budgets"
        BY <3>2, RestingTables DEF budgetsTables, OncePerOccasion, OneActivePerYear
      <3> QED  BY <3>1, <3>2
    <2>5. UseCountedOnce'
      <3>1. CASE scene = "marketing"  BY <2>1, <3>1 DEF SceneInv, MarketingInv
      <3>2. CASE scene # "marketing"
        BY <3>2, RestingTables DEF marketingTables, OncePerOccasion, UseCountedOnce
      <3> QED  BY <3>1, <3>2
    <2> QED  BY <2>1, <2>2, <2>3, <2>4, <2>5 DEF OncePerOccasion
  <1> QED  BY <1>1, <1>2, PTL DEF Spec

(* What a cancellation leaves behind, in every scene.                      *)
CancellationsInv ==
  /\ SettledByLiveOne /\ CancelledHoldsNoDay
  /\ grn \in [Receipts -> GrnRow] /\ SentBackInv

(* A cancelled settlement holds no delivery, a rejected receipt no         *)
(* quantity of its order and a cancelled leave no day, whatever overlaps   *)
(* the cancellation.                                                       *)
THEOREM CancelledLetsGo == Spec => []CancelledHoldsNothing
  <1>1. Init => SceneInv /\ CancellationsInv
    <2> SUFFICES ASSUME Init PROVE SceneInv /\ CancellationsInv
      OBVIOUS
    <2>1. HrInv /\ PurchasingInv /\ SentBackInv
      BY HrStart, PurchasingStart, SentBackStart DEF Init
    <2>2. SettledByLiveOne
      <3>1. DeliveryInit  BY DEF Init
      <3> QED  BY <3>1 DEF DeliveryInit, SettledByLiveOne, NewOrder
    <2> QED  BY <2>1, <2>2, SceneStart DEF CancellationsInv, HrInv, PurchasingInv, PurchasingTypeOK
  <1>2. SceneInv /\ CancellationsInv /\ [Next]_vars => SceneInv' /\ CancellationsInv'
    <2> SUFFICES ASSUME SceneInv, CancellationsInv, [Next]_vars
                 PROVE  SceneInv' /\ CancellationsInv'
      OBVIOUS
    <2>1. SceneInv' /\ UNCHANGED scene  BY SceneInductive, SceneSteps
    <2>2. SettledByLiveOne'
      <3>1. CASE scene = "delivery"
        BY <3>1, SceneSteps, SettledInductive DEF SceneInv, CancellationsInv
      <3>2. CASE scene # "delivery"
        BY <3>2, RestingTables DEF deliveryTables, CancellationsInv, SettledByLiveOne
      <3> QED  BY <3>1, <3>2
    <2>3. (grn \in [Receipts -> GrnRow])' /\ SentBackInv'
      <3>1. CASE scene = "purchasing"
        <4>1. PurchasingInv /\ PurchasingInv' /\ [PurchasingNext]_purchasingVars
          BY <2>1, <3>1, SceneSteps DEF SceneInv
        <4>2. SentBackInv'  BY <4>1, SentBackInductive DEF CancellationsInv
        <4> QED  BY <4>1, <4>2 DEF PurchasingInv, PurchasingTypeOK
      <3>2. CASE scene # "purchasing"
        BY <3>2, RestingTables DEF purchasingTables, CancellationsInv, SentBackInv
      <3> QED  BY <3>1, <3>2
    <2>4. CancelledHoldsNoDay'
      <3>1. CASE scene = "hr"  BY <2>1, <3>1 DEF SceneInv, HrInv
      <3>2. CASE scene # "hr"
        BY <3>2, RestingTables DEF hrTables, CancellationsInv, CancelledHoldsNoDay
      <3> QED  BY <3>1, <3>2
    <2> QED  BY <2>1, <2>2, <2>3, <2>4 DEF CancellationsInv
  <1>3. CancellationsInv => CancelledHoldsNothing
    BY SentBackIs DEF CancellationsInv, CancelledHoldsNothing
  <1> QED  BY <1>1, <1>2, <1>3, PTL DEF Spec

(* A converted quotation has its order, a ready job was in production, a   *)
(* billed period has ended, an expired trial had its days of grace and a   *)
(* notified contract its notice, whatever overlaps.                        *)
THEOREM StatusesAreEarned == Spec => []StatusIsEarned
  <1>1. Init => SceneInv /\ StatusIsEarned
    <2> SUFFICES ASSUME Init PROVE SceneInv /\ StatusIsEarned
      OBVIOUS
    <2>1. QuotationsInv /\ JobOrdersInv /\ BillingInv /\ TrialsInv /\ HiringInv
      BY QuotationsStart, JobOrdersStart, BillingStart, TrialsStart, HiringStart DEF Init
    <2>2. ExpiredAfterGrace  BY <2>1, TrialsEarned
    <2> QED
      BY <2>1, <2>2, SceneStart
      DEF StatusIsEarned, QuotationsInv, JobOrdersInv, BillingInv, HiringInv
  <1>2. SceneInv /\ StatusIsEarned /\ [Next]_vars => SceneInv' /\ StatusIsEarned'
    <2> SUFFICES ASSUME SceneInv, StatusIsEarned, [Next]_vars
                 PROVE  SceneInv' /\ StatusIsEarned'
      OBVIOUS
    <2>1. SceneInv' /\ UNCHANGED scene  BY SceneInductive, SceneSteps
    <2>2. ConvertedNamesItsOrder'
      <3>1. CASE scene = "quotations"  BY <2>1, <3>1 DEF SceneInv, QuotationsInv
      <3>2. CASE scene # "quotations"
        BY <3>2, RestingTables DEF quotationsTables, StatusIsEarned, ConvertedNamesItsOrder
      <3> QED  BY <3>1, <3>2
    <2>3. MadeBeforeReady'
      <3>1. CASE scene = "jobOrders"  BY <2>1, <3>1 DEF SceneInv, JobOrdersInv
      <3>2. CASE scene # "jobOrders"
        BY <3>2, RestingTables DEF jobOrdersTables, StatusIsEarned, MadeBeforeReady
      <3> QED  BY <3>1, <3>2
    <2>4. BilledAfterItsEnd'
      <3>1. CASE scene = "billing"  BY <2>1, <3>1 DEF SceneInv, BillingInv
      <3>2. CASE scene # "billing"
        BY <3>2, RestingTables DEF billingTables, StatusIsEarned, BilledAfterItsEnd
      <3> QED  BY <3>1, <3>2
    <2>5. ExpiredAfterGrace'
      <3>1. CASE scene = "trials"
        <4>1. TrialsInv'  BY <2>1, <3>1 DEF SceneInv
        <4> QED  BY <4>1 DEF TrialsInv, HadGrace, ExpiredAfterGrace
      <3>2. CASE scene # "trials"
        BY <3>2, RestingTables DEF trialsTables, StatusIsEarned, ExpiredAfterGrace
      <3> QED  BY <3>1, <3>2
    <2>6. NotifiedWasSent'
      <3>1. CASE scene = "hiring"  BY <2>1, <3>1 DEF SceneInv, HiringInv
      <3>2. CASE scene # "hiring"
        BY <3>2, RestingTables DEF hiringTables, StatusIsEarned, NotifiedWasSent
      <3> QED  BY <3>1, <3>2
    <2> QED  BY <2>1, <2>2, <2>3, <2>4, <2>5, <2>6 DEF StatusIsEarned
  <1> QED  BY <1>1, <1>2, PTL DEF Spec

(***************************************************************************)
(* A closed document stays closed.  What the components' invariants lack   *)
(* is what the calls had read: a call that goes on from a status had read  *)
(* one that it goes on from.                                               *)
(***************************************************************************)
SealInv ==
  /\ PostedHasEntry
  /\ scene = "delivery" => TransitionsFollow
  /\ scene = "assets" => DueWereActive
  /\ scene = "hr" => RunsFit
  /\ scene = "licensing" => ActivationsReadValid
  /\ scene = "billing" => BillsReadUnsettled
  /\ scene = "quotations" => QuotesReadOpen
  /\ scene = "jobOrders" => JobsReadOpen
  /\ scene = "budgets" => BudgetsReadOpen
  /\ scene = "bank" => ReadsAtWork
  /\ scene = "hiring" => HiringReadsOpen

LEMMA SealStart ==
  ASSUME Init
  PROVE  SealInv
  <1>1. \A u \in Users : call[u] = NoCall /\ call[u].op = "idle"
    BY DEF Init, DeliveryInit, CallsInit, NoCall
  <1>2. PostedHasEntry  BY DEF Init, HrInit, PostedHasEntry
  <1>3. TransitionsFollow /\ DueWereActive
    BY <1>1 DEF TransitionsFollow, Follows, OrderStatus, DueWereActive
  <1>4. RunsFit /\ ActivationsReadValid /\ BillsReadUnsettled
    BY <1>1, <1>2
    DEF RunsFit, StepFits, ActivationsReadValid, BillsReadUnsettled, BillReads
  <1>5. QuotesReadOpen /\ JobsReadOpen /\ BudgetsReadOpen
    BY <1>1 DEF QuotesReadOpen, QuoteReads, JobsReadOpen, JobReads, JobOps, BudgetsReadOpen, BudgetReads
  <1>6. ReadsAtWork /\ HiringReadsOpen
    BY <1>1 DEF ReadsAtWork, HiringReadsOpen, HiringReads
  <1> QED  BY Zenon, <1>2, <1>3, <1>4, <1>5, <1>6 DEF SealInv

LEMMA SealInductive ==
  ASSUME SceneInv, SealInv, [Next]_vars
  PROVE  SealInv'
  <1>0. UNCHANGED scene  BY SceneSteps
  <1>1. scene = "delivery" => TransitionsFollow'
    BY SceneSteps, TransitionsFollowStill DEF SceneInv, SealInv
  <1>2. scene = "assets" => DueWereActive'
    BY SceneSteps, DueWereActiveStill DEF SceneInv, SealInv, AssetsInv
  <1>3. scene = "hr" => RunsFit'
    BY SceneSteps, RunsFitStill DEF SceneInv, SealInv, HrInv
  <1>4. scene = "licensing" => ActivationsReadValid'
    BY SceneSteps, ActivationsReadValidStill DEF SceneInv, SealInv, LicensingInv
  <1>5. scene = "billing" => BillsReadUnsettled'
    BY SceneSteps, BillsReadUnsettledStill DEF SceneInv, SealInv, BillingInv
  <1>6. scene = "quotations" => QuotesReadOpen'
    BY SceneSteps, QuotesReadOpenStill DEF SceneInv, SealInv, QuotationsInv
  <1>7. scene = "jobOrders" => JobsReadOpen'
    BY SceneSteps, JobsReadOpenStill DEF SceneInv, SealInv, JobOrdersInv
  <1>8. scene = "budgets" => BudgetsReadOpen'
    BY SceneSteps, BudgetsReadOpenStill DEF SceneInv, SealInv, BudgetsInv
  <1>9. scene = "bank" => ReadsAtWork'
    BY SceneSteps, ReadsAtWorkStill DEF SceneInv, SealInv
  <1>10. scene = "hiring" => HiringReadsOpen'
    BY SceneSteps, HiringReadsOpenStill DEF SceneInv, SealInv, HiringInv
  <1>11. PostedHasEntry'
    <2>1. CASE scene = "hr"  BY <1>3, <2>1 DEF RunsFit
    <2>2. CASE scene # "hr"
      BY <2>2, RestingTables DEF hrTables, SealInv, PostedHasEntry
    <2> QED  BY <2>1, <2>2
  <1> QED
    BY <1>0, <1>1, <1>2, <1>3, <1>4, <1>5, <1>6, <1>7, <1>8, <1>9, <1>10, <1>11 DEF SealInv

(* What writes the status of a closed document, or the amounts it was      *)
(* closed with, is a call that had read it before it was closed, and the   *)
(* price of a day stands until one is set for that day: of every component *)
(* of requests that overlap, for any users, documents and bounds.          *)
THEOREM ClosedDocumentsStay == Spec => ClosedStaysClosed
  <1>1. Init => SceneInv /\ SealInv  BY SceneStart, SealStart
  <1>2. SceneInv /\ SealInv /\ [Next]_vars => SceneInv' /\ SealInv'
    BY SceneInductive, SealInductive
  <1>3. SceneInv /\ SealInv /\ [Next]_vars =>
          [\A d \in Orders :
             /\ delivery[d].status \in {"delivered", "returned", "cancelled"}
             /\ Fresh(d, delivery[d].status)
             => delivery'[d].status = delivery[d].status /\ restocks'[d] = restocks[d]]_deliveryVars
    <2> SUFFICES ASSUME SceneInv, SealInv, [Next]_vars,
                        NEW d \in Orders,
                        delivery[d].status \in {"delivered", "returned", "cancelled"},
                        Fresh(d, delivery[d].status)
                 PROVE  delivery'[d].status = delivery[d].status /\ restocks'[d] = restocks[d]
      OBVIOUS
    <2>1. CASE scene = "delivery"
      BY <2>1, SceneSteps, DeliveredStays DEF SceneInv, SealInv
    <2>2. CASE scene # "delivery"
      BY <2>2, RestingTables DEF deliveryTables
    <2> QED  BY <2>1, <2>2
  <1>4. SceneInv /\ SealInv /\ [Next]_vars =>
          [\A p \in PurchaseOrders :
             /\ po[p].status \in {"received", "cancelled"}
             /\ Fresh(p, po[p].status)
             /\ \A u \in Users : call[u].op \in {"receive", "booking"} => OrderOf[call[u].doc] # p
             => po'[p].status = po[p].status]_purchasingVars
    <2> SUFFICES ASSUME SceneInv, SealInv, [Next]_vars,
                        NEW p \in PurchaseOrders,
                        po[p].status \in {"received", "cancelled"},
                        Fresh(p, po[p].status),
                        \A u \in Users : call[u].op \in {"receive", "booking"} => OrderOf[call[u].doc] # p
                 PROVE  po'[p].status = po[p].status
      OBVIOUS
    <2>1. CASE scene = "purchasing"
      BY <2>1, SceneSteps, ClosedOrderStays DEF SceneInv
    <2>2. CASE scene # "purchasing"
      BY <2>2, RestingTables DEF purchasingTables
    <2> QED  BY <2>1, <2>2
  <1>5. SceneInv /\ SealInv /\ [Next]_vars =>
          [\A i \in SalesInvoices :
             /\ invoice[i].status = "reversed"
             /\ Fresh(i, invoice[i].status)
             => invoice'[i].status = "reversed"]_receivablesVars
    <2> SUFFICES ASSUME SceneInv, SealInv, [Next]_vars,
                        NEW i \in SalesInvoices,
                        invoice[i].status = "reversed",
                        Fresh(i, invoice[i].status)
                 PROVE  invoice'[i].status = "reversed"
      OBVIOUS
    <2>1. CASE scene = "receivables"
      BY <2>1, SceneSteps, ReversedStays DEF SceneInv
    <2>2. CASE scene # "receivables"
      BY <2>2, RestingTables DEF receivablesTables
    <2> QED  BY <2>1, <2>2
  <1>6. SceneInv /\ SealInv /\ [Next]_vars =>
          [\A a \in Assets :
             /\ asset[a].status = "disposed"
             /\ \A u \in Users : call[u].op = "generate" /\ a \in call[u].todo
                  => call[u].read[a].status = "disposed"
             => \A m \in Months : charge'[a][m].row = charge[a][m].row]_assetsVars
    <2> SUFFICES ASSUME SceneInv, SealInv, [Next]_vars,
                        NEW a \in Assets,
                        asset[a].status = "disposed",
                        \A u \in Users : call[u].op = "generate" /\ a \in call[u].todo
                              => call[u].read[a].status = "disposed",
                        NEW m \in Months
                 PROVE  charge'[a][m].row = charge[a][m].row
      OBVIOUS
    <2>1. CASE scene = "assets"
      BY <2>1, SceneSteps, DisposedIsNotCharged DEF SceneInv, SealInv, AssetsInv
    <2>2. CASE scene # "assets"
      BY <2>2, RestingTables DEF assetsTables
    <2> QED  BY <2>1, <2>2
  <1>7. SceneInv /\ SealInv /\ [Next]_vars =>
          [\A p \in Runs :
             /\ run'[p].status = "paid" => run'[p].entries > 0
             /\ /\ run[p].status \in {"paid", "draft"}
                /\ Fresh(p, run[p].status)
                => run'[p] = run[p]]_hrVars
    <2> SUFFICES ASSUME SceneInv, SealInv, [Next]_vars, NEW p \in Runs
                 PROVE  /\ run'[p].status = "paid" => run'[p].entries > 0
                        /\ /\ run[p].status \in {"paid", "draft"}
                           /\ Fresh(p, run[p].status)
                           => run'[p] = run[p]
      OBVIOUS
    <2>1. run'[p].status = "paid" => run'[p].entries > 0
      BY SealInductive DEF SealInv, PostedHasEntry
    <2>2. CASE scene = "hr"
      BY <2>1, <2>2, SceneSteps, ClosedRunStays DEF SceneInv, SealInv, HrInv
    <2>3. CASE scene # "hr"
      BY <2>1, <2>3, RestingTables DEF hrTables
    <2> QED  BY <2>2, <2>3
  <1>8. SceneInv /\ SealInv /\ [Next]_vars =>
          [/\ revoked
           /\ \A u \in Users : call[u].op \in {"bind", "rebind"} => call[u].read = revoked
           => \A d \in Devices : bound'[d] = "active" => bound[d] = "active"]_licensingVars
    <2> SUFFICES ASSUME SceneInv, SealInv, [Next]_vars,
                        revoked,
                        \A u \in Users : call[u].op \in {"bind", "rebind"} => call[u].read = revoked,
                        NEW d \in Devices, bound'[d] = "active"
                 PROVE  bound[d] = "active"
      OBVIOUS
    <2>1. CASE scene = "licensing"
      BY <2>1, SceneSteps, RevokedIsNotBound DEF SceneInv, SealInv, LicensingInv
    <2>2. CASE scene # "licensing"
      BY <2>2, RestingTables DEF licensingTables
    <2> QED  BY <2>1, <2>2
  <1>9. SceneInv /\ SealInv /\ [Next]_vars =>
          [\A p \in Periods :
             /\ billed[p] \in {"paid", "voided"}
             /\ \A u \in Users : call[u].op \notin {"idle", "sweep"} /\ call[u].doc = p
                  => call[u].read = billed[p]
             => billed'[p] = billed[p]]_billingVars
    <2> SUFFICES ASSUME SceneInv, SealInv, [Next]_vars,
                        NEW p \in Periods,
                        billed[p] \in {"paid", "voided"},
                        \A u \in Users : call[u].op \notin {"idle", "sweep"} /\ call[u].doc = p
                              => call[u].read = billed[p]
                 PROVE  billed'[p] = billed[p]
      OBVIOUS
    <2>1. CASE scene = "billing"
      BY <2>1, SceneSteps, SettledBillStays DEF SceneInv, SealInv, BillingInv
    <2>2. CASE scene # "billing"
      BY <2>2, RestingTables DEF billingTables
    <2> QED  BY <2>1, <2>2
  <1>10. SceneInv /\ SealInv /\ [Next]_vars =>
          [\A q \in Quotes :
             /\ quote[q].status # "none"
             /\ \A u \in Users : call[u] # NoCall /\ call[u].doc = q
                  => call[u].read.status = quote[q].status
             => /\ quote[q].status # "draft" => quote'[q].lines = quote[q].lines
                /\ quote[q].status \in {"rejected", "converted"} => quote'[q] = quote[q]]_quotationsVars
    <2> SUFFICES ASSUME SceneInv, SealInv, [Next]_vars,
                        NEW q \in Quotes,
                        quote[q].status # "none",
                        \A u \in Users : call[u] # NoCall /\ call[u].doc = q
                              => call[u].read.status = quote[q].status
                 PROVE  /\ quote[q].status # "draft" => quote'[q].lines = quote[q].lines
                        /\ quote[q].status \in {"rejected", "converted"} => quote'[q] = quote[q]
      OBVIOUS
    <2>1. CASE scene = "quotations"
      BY <2>1, SceneSteps, QuoteStays DEF SceneInv, SealInv, QuotationsInv
    <2>2. CASE scene # "quotations"
      BY <2>2, RestingTables DEF quotationsTables
    <2> QED  BY <2>1, <2>2
  <1>11. SceneInv /\ SealInv /\ [Next]_vars =>
          [\A j \in Jobs :
             job[j].status \in {"delivered", "cancelled"} /\ Fresh(j, job[j].status)
               => job'[j].status = job[j].status]_jobOrdersVars
    <2> SUFFICES ASSUME SceneInv, SealInv, [Next]_vars,
                        NEW j \in Jobs,
                        job[j].status \in {"delivered", "cancelled"},
                        Fresh(j, job[j].status)
                 PROVE  job'[j].status = job[j].status
      OBVIOUS
    <2>1. CASE scene = "jobOrders"
      BY <2>1, SceneSteps, ClosedJobStays DEF SceneInv, SealInv, JobOrdersInv
    <2>2. CASE scene # "jobOrders"
      BY <2>2, RestingTables DEF jobOrdersTables
    <2> QED  BY <2>1, <2>2
  <1>12. SceneInv /\ SealInv /\ [Next]_vars =>
          [\A a \in Accounts :
             /\ InUse(a)
             /\ \A u \in Users : call[u].op = "update" /\ call[u].doc = a =>
                  call[u].used \/ call[u].to = chart[a].category
             => chart'[a].category = chart[a].category]_glVars
    <2> SUFFICES ASSUME SceneInv, SealInv, [Next]_vars,
                        NEW a \in Accounts,
                        InUse(a),
                        \A u \in Users : call[u].op = "update" /\ call[u].doc = a =>
                          call[u].used \/ call[u].to = chart[a].category
                 PROVE  chart'[a].category = chart[a].category
      OBVIOUS
    <2>1. CASE scene = "ledger"
      BY <2>1, SceneSteps, CategoryStays DEF SceneInv
    <2>2. CASE scene # "ledger"
      BY <2>2, RestingTables DEF glTables
    <2> QED  BY <2>1, <2>2
  <1>13. SceneInv /\ SealInv /\ [Next]_vars =>
          [\A b \in BudgetIds :
             budget[b].status \in {"active", "closed"} /\ Fresh(b, budget[b].status)
               => /\ budget'[b].lines = budget[b].lines
                  /\ budget[b].status = "closed" => budget'[b].status = "closed"]_budgetsVars
    <2> SUFFICES ASSUME SceneInv, SealInv, [Next]_vars,
                        NEW b \in BudgetIds,
                        budget[b].status \in {"active", "closed"},
                        Fresh(b, budget[b].status)
                 PROVE  /\ budget'[b].lines = budget[b].lines
                        /\ budget[b].status = "closed" => budget'[b].status = "closed"
      OBVIOUS
    <2>1. CASE scene = "budgets"
      BY <2>1, SceneSteps, ClosedBudgetStays DEF SceneInv, SealInv, BudgetsInv
    <2>2. CASE scene # "budgets"
      BY <2>2, RestingTables DEF budgetsTables
    <2> QED  BY <2>1, <2>2
  <1>14. SceneInv /\ SealInv /\ [Next]_vars =>
          [\A p \in Policies :
             /\ policy[p].status = "published"
             /\ Fresh(p, "published")
             /\ \A u \in Users : call[u] # NoCall => call[u].version = policy[p].version
             => \/ policy'[p].text = policy[p].text
                \/ policy'[p].version = policy[p].version + 1 /\ policy'[p].status = "draft"]_hrPoliciesVars
    <2> SUFFICES ASSUME SceneInv, SealInv, [Next]_vars,
                        NEW p \in Policies,
                        policy[p].status = "published",
                        Fresh(p, "published"),
                        \A u \in Users : call[u] # NoCall => call[u].version = policy[p].version
                 PROVE  \/ policy'[p].text = policy[p].text
                        \/ policy'[p].version = policy[p].version + 1 /\ policy'[p].status = "draft"
      OBVIOUS
    <2>1. CASE scene = "policies"
      BY <2>1, SceneSteps, PublishedStands DEF SceneInv, PoliciesInv
    <2>2. CASE scene # "policies"
      BY <2>2, RestingTables DEF hrPoliciesTables
    <2> QED  BY <2>1, <2>2
  <1>15. SceneInv /\ SealInv /\ [Next]_vars =>
          [\A r \in Recos :
             reco[r] = "completed" /\ Fresh(r, "completed")
               => /\ reco'[r] = "completed" /\ booked'[r] = booked[r]
                  /\ (item'[r].open \cup item'[r].matched) \cap Adjustments
                       \subseteq item[r].open \cup item[r].matched]_bankVars
    <2> SUFFICES ASSUME SceneInv, SealInv, [Next]_vars,
                        NEW r \in Recos,
                        reco[r] = "completed",
                        Fresh(r, "completed")
                 PROVE  /\ reco'[r] = "completed" /\ booked'[r] = booked[r]
                        /\ (item'[r].open \cup item'[r].matched) \cap Adjustments
                             \subseteq item[r].open \cup item[r].matched
      OBVIOUS
    <2>1. CASE scene = "bank"
      BY <2>1, SceneSteps, CompletedRecoStays DEF SceneInv, SealInv
    <2>2. CASE scene # "bank"
      BY <2>2, RestingTables DEF bankTables
    <2> QED  BY <2>1, <2>2
  <1>16. SceneInv /\ SealInv /\ [Next]_vars =>
          [\A a \in Applications :
             application[a].status \in {"hired", "rejected"} /\ Fresh(a, application[a].status)
               => application'[a].status = application[a].status]_hiringVars
    <2> SUFFICES ASSUME SceneInv, SealInv, [Next]_vars,
                        NEW a \in Applications,
                        application[a].status \in {"hired", "rejected"},
                        Fresh(a, application[a].status)
                 PROVE  application'[a].status = application[a].status
      OBVIOUS
    <2>1. CASE scene = "hiring"
      BY <2>1, SceneSteps, FinalApplicationStays DEF SceneInv, SealInv, HiringInv
    <2>2. CASE scene # "hiring"
      BY <2>2, RestingTables DEF hiringTables
    <2> QED  BY <2>1, <2>2
  <1>17. SceneInv /\ SealInv /\ [Next]_vars =>
          [\A d \in PriceDays : CurrentPrice(d)' # CurrentPrice(d) =>
             \E u \in Users : \E c \in {call[u], call'[u]} :
               /\ call'[u] # call[u] /\ c.op = "setPrice" /\ c.from <= d
               /\ \A i \in InEffect(d) : items[i].from <= c.from]_priceListsVars
    <2> SUFFICES ASSUME SceneInv, [Next]_vars, NEW d \in PriceDays,
                        CurrentPrice(d)' # CurrentPrice(d)
                 PROVE  \E u \in Users : \E c \in {call[u], call'[u]} :
                          /\ call'[u] # call[u] /\ c.op = "setPrice" /\ c.from <= d
                          /\ \A i \in InEffect(d) : items[i].from <= c.from
      OBVIOUS
    <2>1. CASE scene = "prices"
      <3>1. PriceListsTypeOK /\ PriceListsTypeOK' /\ [PriceListsNext]_priceListsVars
        BY <2>1, SceneSteps, SceneInductive DEF SceneInv
      <3> QED  BY <3>1, PricesChange
    <2>2. CASE scene # "prices"
      BY <2>2, RestingTables DEF priceListsTables, CurrentPrice, InEffect
    <2> QED  BY <2>1, <2>2
  <1>18. SceneInv /\ SealInv /\ [Next]_vars =>
          [/\ \A c \in Campaigns : campaign[c] = "completed" /\ Fresh(c, "completed")
                => campaign'[c] = "completed" /\ Len(message'[c]) = Len(message[c])
           /\ \A p \in Promotions : uses[p] > 0 /\ Fresh(p, uses[p]) /\ promotion'[p].status = "deleted"
                => promotion[p].status = "deleted"]_marketingVars
    <2> SUFFICES ASSUME SceneInv, [Next]_vars
                 PROVE  /\ \A c \in Campaigns : campaign[c] = "completed" /\ Fresh(c, "completed")
                             => campaign'[c] = "completed" /\ Len(message'[c]) = Len(message[c])
                        /\ \A p \in Promotions :
                             uses[p] > 0 /\ Fresh(p, uses[p]) /\ promotion'[p].status = "deleted"
                             => promotion[p].status = "deleted"
      OBVIOUS
    <2>1. CASE scene = "marketing"
      <3>1. MarketingInv /\ [MarketingNext]_marketingVars  BY <2>1, SceneSteps DEF SceneInv
      <3> QED  BY <3>1, SentStays, UsedStays
    <2>2. CASE scene # "marketing"
      BY <2>2, RestingTables DEF marketingTables
    <2> QED  BY <2>1, <2>2
  <1> QED
    BY <1>1, <1>2, <1>3, <1>4, <1>5, <1>6, <1>7, <1>8, <1>9, <1>10,
       <1>11, <1>12, <1>13, <1>14, <1>15, <1>16, <1>17, <1>18, PTL
    DEF Spec, ClosedStaysClosed, DeliverySealed, OrderSealed, InvoiceSealed, NoChargeAfterDisposal,
        RunSealed, RevokedStaysRevoked, InvoiceSettled, QuoteFrozen, JobSealed, CategorySealed,
        BudgetSealed, PublishedTextStands, RecoSealed, ApplicationFinal, PricesStand, SentAndUsedStay
===============================================================================
