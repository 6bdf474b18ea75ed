---------------------------- MODULE Engines_proofs ----------------------------
(***************************************************************************)
(* Proofs about two engines that every document goes through, each about   *)
(* its own specification.                                                  *)
(*                                                                         *)
(* The Sequence Engine: the type invariant, the uniqueness of the numbers  *)
(* of every key with one row, and that these numbers leave no hole, for    *)
(* any number of callers and keys.                                         *)
(*                                                                         *)
(* The Posting Engine, which takes its entries' numbers from there, next   *)
(* to the closing of its periods: the type invariant, the grounding of the *)
(* hash chain, that an entry is reversed once, and that a sealed period    *)
(* stays as it is, for any number of users, posters, periods, codes and    *)
(* entries.                                                                *)
(***************************************************************************)
EXTENDS Sequence, Posting, WellFoundedInduction, TLAPS

-----------------------------------------------------------------------------
(***************************************************************************)
(* The Sequence Engine                                                     *)
(***************************************************************************)

(* A transaction past its upsert holds a value of at least count; on a key *)
(* with one row it holds the lock, and the row is count above the          *)
(* committed counter.                                                      *)
InFlight ==
  \A p \in Procs : tx[p].step \in {"written", "read"} =>
    /\ tx[p].row >= tx[p].count
    /\ tx[p].value >= tx[p].count
    /\ tx[p].step = "written" => tx[p].count = 1
    /\ tx[p].key \in OneRow =>
         /\ holder[tx[p].key] = p
         /\ tx[p].row = lastValue[tx[p].key] + tx[p].count
         /\ tx[p].value = tx[p].row

(* nextNumber asks for one number. *)
CountOfNext ==
  \A p \in Procs : tx[p].step # "idle" /\ tx[p].op = "next" => tx[p].count = 1

(* Rows of a NULL branch start at 1 or above. *)
NullRowsPositive == \A k \in Keys : \A v \in nullRows[k] : v >= 1

(* No block handed out reaches above the committed counter. *)
IssuedBelow ==
  \A k \in OneRow : \A i \in 1..Len(issued[k]) :
    issued[k][i].to <= lastValue[k]

(* Every number up to the counter is in a block handed out. *)
Covered ==
  \A k \in OneRow : \A n \in 1..lastValue[k] :
    \E i \in 1..Len(issued[k]) :
      issued[k][i].from <= n /\ n <= issued[k][i].to

(* The last block handed out ends at the committed counter. *)
LastIsCounter ==
  \A k \in OneRow :
    lastValue[k] = IF issued[k] = <<>> THEN 0 ELSE issued[k][Len(issued[k])].to

SequenceInv ==
  /\ SequenceTypeOK
  /\ InFlight
  /\ CountOfNext
  /\ NullRowsPositive
  /\ IssuedBelow
  /\ StrictlyMonotonic
  /\ Covered
  /\ LastIsCounter

-----------------------------------------------------------------------------
LEMMA OneRowKeys == OneRow \subseteq Keys
  BY DEF OneRow

(* A transaction that is not idle is a full record. *)
LEMMA ActiveCall ==
  ASSUME SequenceTypeOK, NEW p \in Procs, tx[p].step # "idle"
  PROVE  tx[p] \in [step : {"called", "written", "read"}, op : {"next", "range"},
                    key : Keys, count : 1..MaxBlock, row : Nat, value : Nat]
  BY DEF SequenceTypeOK, Tx

LEMMA SequenceInitInv == SequenceInit => SequenceInv
  <1> SUFFICES ASSUME SequenceInit PROVE SequenceInv
    OBVIOUS
  <1> USE SequenceAssumption, OneRowKeys
  <1>1. SequenceTypeOK
    BY DEF SequenceInit, SequenceTypeOK, Tx, NoNumber, Block
  <1>2. InFlight /\ CountOfNext
    BY DEF SequenceInit, InFlight, CountOfNext, NoNumber
  <1>3. NullRowsPositive
    BY DEF SequenceInit, NullRowsPositive
  <1>4. IssuedBelow /\ StrictlyMonotonic /\ Covered /\ LastIsCounter
    BY DEF SequenceInit, IssuedBelow, StrictlyMonotonic, Covered, LastIsCounter
  <1> QED
    BY <1>1, <1>2, <1>3, <1>4 DEF SequenceInv

LEMMA CallEngineInv ==
  ASSUME SequenceInv, NEW p \in Procs, NEW op \in {"next", "range"}, NEW k \in Keys,
         NEW n \in 1..MaxBlock, op = "next" => n = 1, CallEngine(p, op, k, n)
  PROVE  SequenceInv'
  <1> USE SequenceAssumption
  <1>1. SequenceTypeOK'
    BY DEF CallEngine, SequenceInv, SequenceTypeOK, Tx
  <1>2. InFlight'
    BY DEF CallEngine, SequenceInv, SequenceTypeOK, InFlight
  <1>3. CountOfNext'
    BY DEF CallEngine, SequenceInv, SequenceTypeOK, CountOfNext
  <1>4. (NullRowsPositive /\ IssuedBelow /\ StrictlyMonotonic /\ Covered /\ LastIsCounter)'
    BY DEF CallEngine, SequenceInv, NullRowsPositive, IssuedBelow, StrictlyMonotonic, Covered,
           LastIsCounter
  <1> QED
    BY <1>1, <1>2, <1>3, <1>4 DEF SequenceInv

LEMMA UpsertRowInv ==
  ASSUME SequenceInv, NEW p \in Procs, UpsertRow(p)
  PROVE  SequenceInv'
  <1> USE SequenceAssumption, OneRowKeys
  <1>a. tx[p] \in [step : {"called", "written", "read"}, op : {"next", "range"},
                   key : Keys, count : 1..MaxBlock, row : Nat, value : Nat]
    BY ActiveCall DEF UpsertRow, SequenceInv
  <1> DEFINE k == tx[p].key
             v == lastValue[k] + tx[p].count
             s == IF tx[p].op = "range" THEN "read" ELSE "written"
  <1>b. v \in Nat /\ k \in Keys /\ v >= tx[p].count
    BY <1>a DEF SequenceInv, SequenceTypeOK
  <1>c. tx' = [tx EXCEPT ![p] = [step |-> s, op |-> tx[p].op, key |-> k,
                                 count |-> tx[p].count, row |-> v, value |-> v]]
    BY DEF UpsertRow, At
  <1>1. SequenceTypeOK'
    BY <1>a, <1>b, <1>c DEF UpsertRow, SequenceInv, SequenceTypeOK, Tx
  <1>2. InFlight'
    <2> SUFFICES ASSUME NEW q \in Procs, tx'[q].step \in {"written", "read"}
                 PROVE  /\ tx'[q].row >= tx'[q].count
                        /\ tx'[q].value >= tx'[q].count
                        /\ tx'[q].step = "written" => tx'[q].count = 1
                        /\ tx'[q].key \in OneRow =>
                             /\ holder'[tx'[q].key] = q
                             /\ tx'[q].row = lastValue'[tx'[q].key] + tx'[q].count
                             /\ tx'[q].value = tx'[q].row
      BY DEF InFlight, OneRow
    <2>1. CASE q = p
      <3>1. s = "written" => tx[p].count = 1
        BY <1>a DEF SequenceInv, CountOfNext
      <3> QED
        BY <1>a, <1>b, <1>c, <2>1, <3>1 DEF UpsertRow, SequenceInv, SequenceTypeOK
    <2>2. CASE q # p
      <3>1. tx'[q] = tx[q]
        BY <1>c, <2>2 DEF SequenceInv, SequenceTypeOK
      <3>2. tx[q].key \in OneRow => holder[tx[q].key] = q
        BY <3>1 DEF SequenceInv, InFlight
      <3>3. tx[q].key \in OneRow => holder'[tx[q].key] = q
        BY <3>2 DEF UpsertRow, SequenceInv, SequenceTypeOK
      <3> QED
        BY <3>1, <3>3 DEF UpsertRow, SequenceInv, InFlight
    <2> QED
      BY <2>1, <2>2
  <1>3. CountOfNext'
    BY <1>a, <1>c DEF UpsertRow, SequenceInv, SequenceTypeOK, CountOfNext
  <1>4. (NullRowsPositive /\ IssuedBelow /\ StrictlyMonotonic /\ Covered /\ LastIsCounter)'
    BY DEF UpsertRow, SequenceInv, NullRowsPositive, IssuedBelow, StrictlyMonotonic, Covered,
           LastIsCounter
  <1> QED
    BY <1>1, <1>2, <1>3, <1>4 DEF SequenceInv

LEMMA InsertNullRowInv ==
  ASSUME SequenceInv, NEW p \in Procs, InsertNullRow(p)
  PROVE  SequenceInv'
  <1> USE SequenceAssumption, OneRowKeys
  <1>a. tx[p] \in [step : {"called", "written", "read"}, op : {"next", "range"},
                   key : Keys, count : 1..MaxBlock, row : Nat, value : Nat]
    BY ActiveCall DEF InsertNullRow, SequenceInv
  <1> DEFINE s == IF tx[p].op = "range" THEN "read" ELSE "written"
  <1>c. tx' = [tx EXCEPT ![p] = [step |-> s, op |-> tx[p].op, key |-> tx[p].key,
                    count |-> tx[p].count, row |-> tx[p].count, value |-> tx[p].count]]
    BY DEF InsertNullRow, At
  <1>1. SequenceTypeOK'
    BY <1>a, <1>c DEF InsertNullRow, SequenceInv, SequenceTypeOK, Tx
  <1>2. InFlight'
    <2>1. s = "written" => tx[p].count = 1
      BY <1>a DEF SequenceInv, CountOfNext
    <2>2. \A q \in Procs : q # p => tx'[q] = tx[q]
      BY <1>c DEF SequenceInv, SequenceTypeOK
    <2>3. /\ tx'[p].step = s /\ tx'[p].key \notin OneRow /\ tx'[p].count = tx[p].count
          /\ tx'[p].row = tx[p].count /\ tx'[p].value = tx[p].count
      BY <1>a, <1>c DEF InsertNullRow, SequenceInv, SequenceTypeOK
    <2>4. tx[p].count >= tx[p].count
      BY <1>a
    <2> QED
      BY <2>1, <2>2, <2>3, <2>4 DEF InsertNullRow, SequenceInv, InFlight, OneRow
  <1>3. CountOfNext'
    BY <1>a, <1>c DEF InsertNullRow, SequenceInv, SequenceTypeOK, CountOfNext
  <1>4. (NullRowsPositive /\ IssuedBelow /\ StrictlyMonotonic /\ Covered /\ LastIsCounter)'
    BY DEF InsertNullRow, SequenceInv, NullRowsPositive, IssuedBelow, StrictlyMonotonic, Covered,
           LastIsCounter
  <1> QED
    BY <1>1, <1>2, <1>3, <1>4 DEF SequenceInv

LEMMA ReadBackInv ==
  ASSUME SequenceInv, NEW p \in Procs, ReadBack(p)
  PROVE  SequenceInv'
  <1> USE SequenceAssumption, OneRowKeys
  <1>a. tx[p] \in [step : {"called", "written", "read"}, op : {"next", "range"},
                   key : Keys, count : 1..MaxBlock, row : Nat, value : Nat]
    BY ActiveCall DEF ReadBack, SequenceInv
  <1>b. PICK v : /\ v \in IF tx[p].key \in OneRow THEN {tx[p].row}
                          ELSE nullRows[tx[p].key] \cup {tx[p].row}
                 /\ tx' = [tx EXCEPT ![p] = At(@, "read", tx[p].row, v)]
    BY DEF ReadBack
  <1>c. v \in Nat /\ v >= 1
    BY <1>a, <1>b DEF ReadBack, SequenceInv, SequenceTypeOK, InFlight, NullRowsPositive
  <1>d. tx' = [tx EXCEPT ![p] = [step |-> "read", op |-> tx[p].op, key |-> tx[p].key,
                    count |-> tx[p].count, row |-> tx[p].row, value |-> v]]
    BY <1>b DEF At
  <1>1. SequenceTypeOK'
    BY <1>a, <1>c, <1>d DEF ReadBack, SequenceInv, SequenceTypeOK, Tx
  <1>2. InFlight'
    BY <1>a, <1>b, <1>c, <1>d DEF ReadBack, SequenceInv, SequenceTypeOK, InFlight
  <1>3. CountOfNext'
    BY <1>a, <1>d DEF ReadBack, SequenceInv, SequenceTypeOK, CountOfNext
  <1>4. (NullRowsPositive /\ IssuedBelow /\ StrictlyMonotonic /\ Covered /\ LastIsCounter)'
    BY DEF ReadBack, SequenceInv, NullRowsPositive, IssuedBelow, StrictlyMonotonic, Covered,
           LastIsCounter
  <1> QED
    BY <1>1, <1>2, <1>3, <1>4 DEF SequenceInv

LEMMA CommitNumberInv ==
  ASSUME SequenceInv, NEW p \in Procs, CommitNumber(p)
  PROVE  SequenceInv'
  <1> USE SequenceAssumption, OneRowKeys
  <1>a. tx[p] \in [step : {"called", "written", "read"}, op : {"next", "range"},
                   key : Keys, count : 1..MaxBlock, row : Nat, value : Nat]
    BY ActiveCall DEF CommitNumber, SequenceInv
  <1> DEFINE k == tx[p].key
             block == [from |-> tx[p].value - tx[p].count + 1, to |-> tx[p].value]
  <1>b. k \in Keys /\ block \in Block
    BY <1>a DEF CommitNumber, SequenceInv, InFlight, Block
  <1>c. issued' = [issued EXCEPT ![k] = Append(@, block)] /\ tx' = [tx EXCEPT ![p] = NoNumber]
    BY DEF CommitNumber
  <1>d. issued[k] \in Seq(Block) /\ Len(issued[k]) \in Nat
    BY <1>b DEF SequenceInv, SequenceTypeOK
  <1>e. /\ Len(issued'[k]) = Len(issued[k]) + 1
        /\ \A i \in 1..Len(issued[k]) : issued'[k][i] = issued[k][i]
        /\ issued'[k][Len(issued[k]) + 1] = block
    BY <1>b, <1>c, <1>d DEF SequenceInv, SequenceTypeOK
  <1>f. \A j \in Keys : j # k => issued'[j] = issued[j] /\ lastValue'[j] = lastValue[j]
    BY <1>b, <1>c DEF CommitNumber, SequenceInv, SequenceTypeOK
  <1>1. SequenceTypeOK'
    <2>1. issued' \in [Keys -> Seq(Block)]
      BY <1>b, <1>c, <1>d DEF SequenceInv, SequenceTypeOK
    <2>2. tx' \in [Procs -> Tx]
      BY <1>c DEF SequenceInv, SequenceTypeOK, Tx, NoNumber
    <2>3. lastValue' \in [Keys -> Nat] /\ holder' \in [Keys -> Procs \cup {NoProc}]
      BY <1>a DEF CommitNumber, SequenceInv, SequenceTypeOK
    <2>4. nullRows' \in [Keys -> SUBSET Nat]
      <3>1. tx[p].row \in Nat /\ nullRows \in [Keys -> SUBSET Nat]
        BY <1>a DEF SequenceInv, SequenceTypeOK
      <3>2. CASE k \in OneRow
        BY <3>1, <3>2 DEF CommitNumber
      <3>3. CASE k \notin OneRow
        <4>1. nullRows' = [nullRows EXCEPT ![k] = nullRows[k] \cup {tx[p].row}]
          BY <3>3 DEF CommitNumber
        <4> QED
          BY <3>1, <4>1, <1>b
      <3> QED
        BY <3>2, <3>3
    <2> QED
      BY <2>1, <2>2, <2>3, <2>4 DEF SequenceTypeOK
  <1>2. InFlight'
    <2> SUFFICES ASSUME NEW q \in Procs, tx'[q].step \in {"written", "read"}
                 PROVE  /\ q # p /\ tx'[q] = tx[q]
                        /\ tx[q].key \in OneRow =>
                             /\ holder'[tx[q].key] = q
                             /\ lastValue'[tx[q].key] = lastValue[tx[q].key]
      BY DEF SequenceInv, InFlight
    <2>1. q # p /\ tx'[q] = tx[q]
      BY <1>c DEF NoNumber, SequenceInv, SequenceTypeOK
    <2>2. tx[q] \in [step : {"called", "written", "read"}, op : {"next", "range"},
                     key : Keys, count : 1..MaxBlock, row : Nat, value : Nat]
      BY <2>1, ActiveCall DEF SequenceInv
    <2>3. ASSUME tx[q].key \in OneRow
          PROVE  holder'[tx[q].key] = q /\ lastValue'[tx[q].key] = lastValue[tx[q].key]
      <3>1. holder[tx[q].key] = q
        BY <2>1, <2>3 DEF SequenceInv, InFlight
      <3>2. k \in OneRow => holder[k] = p
        BY DEF CommitNumber, SequenceInv, InFlight
      <3> QED
        BY <2>1, <2>2, <2>3, <3>1, <3>2 DEF CommitNumber, SequenceInv, SequenceTypeOK
    <2> QED
      BY <2>1, <2>3
  <1>3. CountOfNext'
    BY <1>c DEF SequenceInv, SequenceTypeOK, CountOfNext, NoNumber
  <1>4. NullRowsPositive'
    <2>1. tx[p].row >= 1
      BY <1>a DEF CommitNumber, SequenceInv, InFlight
    <2>2. \A j \in Keys : nullRows'[j] \subseteq nullRows[j] \cup {tx[p].row}
      BY <1>b DEF CommitNumber, SequenceInv, SequenceTypeOK
    <2> QED
      BY <2>1, <2>2 DEF SequenceInv, NullRowsPositive
  <1>5. k \in OneRow => /\ lastValue'[k] = block.to
                        /\ block.from = lastValue[k] + 1
                        /\ lastValue[k] \in Nat
                        /\ lastValue'[k] \in Nat
                        /\ lastValue'[k] > lastValue[k]
    <2> SUFFICES ASSUME k \in OneRow
                 PROVE  /\ lastValue'[k] = block.to
                        /\ block.from = lastValue[k] + 1
                        /\ lastValue[k] \in Nat
                        /\ lastValue'[k] \in Nat
                        /\ lastValue'[k] > lastValue[k]
      OBVIOUS
    <2>1. tx[p].row = lastValue[k] + tx[p].count /\ tx[p].value = tx[p].row
      BY DEF CommitNumber, SequenceInv, InFlight
    <2>2. lastValue'[k] = tx[p].row /\ lastValue[k] \in Nat
      BY <1>b DEF CommitNumber, SequenceInv, SequenceTypeOK
    <2>3. tx[p].count \in Nat /\ tx[p].count >= 1 /\ tx[p].row \in Nat
      BY <1>a
    <2> QED
      BY <2>1, <2>2, <2>3
  <1>6. IssuedBelow'
    <2> SUFFICES ASSUME NEW j \in OneRow, NEW i \in 1..Len(issued'[j])
                 PROVE  issued'[j][i].to <= lastValue'[j]
      BY DEF IssuedBelow, OneRow
    <2>1. CASE j # k
      BY <1>f, <2>1 DEF SequenceInv, IssuedBelow
    <2>2. CASE j = k /\ i = Len(issued[k]) + 1
      BY <1>5, <1>e, <2>2
    <2>3. CASE j = k /\ i # Len(issued[k]) + 1
      <3>1. i \in 1..Len(issued[k])
        BY <1>d, <1>e, <2>3
      <3>2. issued[k][i] \in Block
        BY <1>d, <3>1
      <3>3. issued'[j][i] = issued[k][i] /\ issued[k][i].to <= lastValue[k]
        BY <1>e, <2>3, <3>1 DEF SequenceInv, IssuedBelow
      <3> QED
        BY SMTT(20), <1>5, <2>3, <3>2, <3>3 DEF Block
    <2> QED
      BY <2>1, <2>2, <2>3
  <1>7. StrictlyMonotonic'
    <2> SUFFICES ASSUME NEW j \in OneRow, NEW a \in 1..Len(issued'[j]),
                        NEW b \in 1..Len(issued'[j]), a < b
                 PROVE  issued'[j][a].to < issued'[j][b].from
      BY DEF StrictlyMonotonic, OneRow
    <2>1. CASE j # k
      BY <1>f, <2>1 DEF SequenceInv, StrictlyMonotonic
    <2>2. CASE j = k /\ b = Len(issued[k]) + 1
      <3>1. a \in 1..Len(issued[k])
        BY <1>d, <1>e, <2>2
      <3>2. issued[k][a].to \in Nat /\ issued[k][a].to <= lastValue[k]
        <4>1. issued[k][a] \in Block
          BY <1>d, <3>1
        <4>2. issued[k][a].to <= lastValue[k]
          BY <2>2, <3>1 DEF SequenceInv, IssuedBelow
        <4> QED
          BY <4>1, <4>2 DEF Block
      <3>3. issued'[j][a] = issued[k][a] /\ issued'[j][b] = block
        BY <1>e, <2>2, <3>1
      <3> QED
        BY SMTT(20), <1>5, <2>2, <3>2, <3>3
    <2>3. CASE j = k /\ b # Len(issued[k]) + 1
      <3>1. a \in 1..Len(issued[k]) /\ b \in 1..Len(issued[k])
        BY <1>d, <1>e, <2>3
      <3> QED
        BY <1>e, <2>3, <3>1 DEF SequenceInv, StrictlyMonotonic
    <2> QED
      BY <2>1, <2>2, <2>3
  <1>8. Covered'
    <2> SUFFICES ASSUME NEW j \in OneRow, NEW n \in 1..lastValue'[j]
                 PROVE  \E i \in 1..Len(issued'[j]) :
                          issued'[j][i].from <= n /\ n <= issued'[j][i].to
      BY DEF Covered, OneRow
    <2>1. CASE j # k
      <3>1. issued'[j] = issued[j] /\ lastValue'[j] = lastValue[j]
        BY <1>f, <2>1
      <3>2. \E i \in 1..Len(issued[j]) : issued[j][i].from <= n /\ n <= issued[j][i].to
        BY <3>1 DEF SequenceInv, Covered
      <3> QED
        BY <3>1, <3>2
    <2>2. CASE j = k /\ n <= lastValue[k]
      <3>a. n \in 1..lastValue[k] /\ k \in OneRow
        BY <1>5, <2>2
      <3>1. PICK i \in 1..Len(issued[k]) : issued[k][i].from <= n /\ n <= issued[k][i].to
        BY <3>a DEF SequenceInv, Covered
      <3>2. i \in 1..Len(issued'[k]) /\ issued'[k][i] = issued[k][i]
        BY <1>d, <1>e, <3>1
      <3> QED
        BY <2>2, <3>1, <3>2
    <2>3. CASE j = k /\ ~(n <= lastValue[k])
      <3>1. Len(issued[k]) + 1 \in 1..Len(issued'[k])
        BY <1>d, <1>e
      <3>2. block.from <= n /\ n <= block.to
        BY <1>5, <2>3
      <3> QED
        BY <1>e, <2>3, <3>1, <3>2
    <2> QED
      BY <2>1, <2>2, <2>3
  <1>9. LastIsCounter'
    <2> SUFFICES ASSUME NEW j \in OneRow
                 PROVE  lastValue'[j] = IF issued'[j] = <<>> THEN 0
                                        ELSE issued'[j][Len(issued'[j])].to
      BY DEF LastIsCounter, OneRow
    <2>1. CASE j # k
      BY <1>f, <2>1 DEF SequenceInv, LastIsCounter
    <2>2. CASE j = k
      BY <1>5, <1>d, <1>e, <2>2
    <2> QED
      BY <2>1, <2>2
  <1> QED
    BY <1>1, <1>2, <1>3, <1>4, <1>6, <1>7, <1>8, <1>9 DEF SequenceInv

LEMMA RollBackNumberInv ==
  ASSUME SequenceInv, NEW p \in Procs, RollBackNumber(p)
  PROVE  SequenceInv'
  <1> USE SequenceAssumption, OneRowKeys
  <1>1. SequenceTypeOK'
    BY DEF RollBackNumber, SequenceInv, SequenceTypeOK, Tx, NoNumber
  <1>2. InFlight'
    <2> SUFFICES ASSUME NEW q \in Procs, tx'[q].step \in {"written", "read"}
                 PROVE  /\ tx'[q] = tx[q]
                        /\ tx[q].key \in OneRow => holder'[tx[q].key] = q
      BY DEF SequenceInv, InFlight, RollBackNumber
    <2>1. q # p /\ tx'[q] = tx[q]
      BY DEF RollBackNumber, NoNumber, SequenceInv, SequenceTypeOK
    <2>2. tx[q].key \in OneRow => holder[tx[q].key] = q
      BY <2>1 DEF SequenceInv, InFlight
    <2> QED
      BY <2>1, <2>2 DEF RollBackNumber
  <1>3. CountOfNext'
    BY DEF RollBackNumber, SequenceInv, SequenceTypeOK, CountOfNext, NoNumber
  <1>4. (NullRowsPositive /\ IssuedBelow /\ StrictlyMonotonic /\ Covered /\ LastIsCounter)'
    BY DEF RollBackNumber, SequenceInv, NullRowsPositive, IssuedBelow, StrictlyMonotonic, Covered,
           LastIsCounter
  <1> QED
    BY <1>1, <1>2, <1>3, <1>4 DEF SequenceInv

LEMMA SequenceStepInv == SequenceInv /\ [SequenceNext]_sequenceVars => SequenceInv'
  <1> SUFFICES ASSUME SequenceInv, [SequenceNext]_sequenceVars PROVE SequenceInv'
    OBVIOUS
  <1> USE SequenceAssumption
  <1>1. CASE UNCHANGED sequenceVars
    BY <1>1 DEF sequenceVars, SequenceInv, SequenceTypeOK, InFlight, CountOfNext, NullRowsPositive,
                IssuedBelow, StrictlyMonotonic, Covered, LastIsCounter
  <1>2. ASSUME NEW p \in Procs, Step(p) PROVE SequenceInv'
    <2>1. CASE NextNumber(p)
      BY <2>1, CallEngineInv DEF NextNumber
    <2>2. CASE ReserveRange(p)
      BY <2>2, CallEngineInv DEF ReserveRange
    <2> QED
      BY <1>2, <2>1, <2>2, UpsertRowInv, InsertNullRowInv, ReadBackInv,
         CommitNumberInv, RollBackNumberInv DEF Step
  <1> QED
    BY <1>1, <1>2 DEF SequenceNext

(* A step of the engine is a step of the dispenser on the keys with one    *)
(* row, or leaves what callers were given as it is.                        *)
LEMMA StepRefines ==
  SequenceInv /\ [SequenceNext]_sequenceVars => [Dispenser!Next]_([k \in OneRow |-> issued[k]])
  <1> DEFINE abs == [k \in OneRow |-> issued[k]]
  <1> SUFFICES ASSUME SequenceInv, [SequenceNext]_sequenceVars
               PROVE  Dispenser!Next \/ abs' = abs
    BY DEF OneRow
  <1> USE SequenceAssumption, OneRowKeys
  <1>1. CASE UNCHANGED sequenceVars
    BY <1>1 DEF sequenceVars, OneRow
  <1>2. ASSUME NEW p \in Procs, Step(p) PROVE Dispenser!Next \/ abs' = abs
    <2>1. CASE issued' = issued
      BY <2>1 DEF OneRow
    <2>2. CASE CommitNumber(p) /\ tx[p].key \notin OneRow
      BY <2>2 DEF CommitNumber, SequenceInv, SequenceTypeOK, OneRow
    <2>3. CASE CommitNumber(p) /\ tx[p].key \in OneRow
      <3> DEFINE k == tx[p].key
                 n == tx[p].count
      <3>1. n \in 1..MaxBlock
        BY <2>3, ActiveCall DEF CommitNumber, SequenceInv
      <3>2. /\ tx[p].value = lastValue[k] + n
            /\ lastValue[k] \in Nat
        BY <2>3 DEF CommitNumber, SequenceInv, SequenceTypeOK, InFlight
      <3> DEFINE last(j) == IF abs[j] = <<>> THEN 0 ELSE abs[j][Len(abs[j])].to
                 block(j, m) == [from |-> last(j) + 1, to |-> last(j) + m]
      <3>3. last(k) = lastValue[k]
        BY <2>3 DEF SequenceInv, LastIsCounter
      <3>4. abs' = [abs EXCEPT ![k] = Append(@, block(k, n))]
        <4>1. tx[p].value - n + 1 = lastValue[k] + 1
          BY <3>1, <3>2
        <4>2. issued' = [issued EXCEPT ![k] = Append(@, block(k, n))]
          BY <2>3, <3>2, <3>3, <4>1 DEF CommitNumber
        <4> HIDE DEF block
        <4> QED
          BY <2>3, <4>2 DEF SequenceInv, SequenceTypeOK, OneRow
      <3>5. \E j \in OneRow, m \in 1..MaxBlock :
               abs' = [abs EXCEPT ![j] = Append(@, block(j, m))]
        <4> HIDE DEF abs, block, k, n
        <4> QED
          BY <2>3, <3>1, <3>4 DEF k
      <3> QED
        BY <3>5 DEF Dispenser!Next, Dispenser!Issue, Dispenser!Last
    <2> QED
      BY <1>2, <2>1, <2>2, <2>3 DEF Step, NextNumber, ReserveRange, CallEngine, UpsertRow,
         InsertNullRow, ReadBack, RollBackNumber
  <1> QED
    BY <1>1, <1>2 DEF SequenceNext

LEMMA CoveredNoGaps == SequenceInv => NoGaps
  BY DEF SequenceInv, Covered, NoGaps

LEMMA SequenceSpecInv == SequenceSpec => []SequenceInv
  BY SequenceInitInv, SequenceStepInv, PTL DEF SequenceSpec

-----------------------------------------------------------------------------
(* Every variable of the engine keeps its type, for any callers and keys. *)
THEOREM SequenceTypeCorrect == SequenceSpec => []SequenceTypeOK
  <1>1. SequenceInv => SequenceTypeOK
    BY DEF SequenceInv
  <1> QED
    BY <1>1, SequenceSpecInv, PTL

(* nextNumber and reserveRange never return a number twice under a key     *)
(* with one row, for any number of concurrent callers.                     *)
THEOREM NumbersUnique == SequenceSpec => []StrictlyMonotonic
  <1>1. SequenceInv => StrictlyMonotonic
    BY DEF SequenceInv
  <1> QED
    BY <1>1, SequenceSpecInv, PTL

(* The engine implements the atomic number dispenser, for any number of    *)
(* concurrent callers: no caller can tell the three statements of the      *)
(* transaction from one step.                                              *)
THEOREM DispenserImplemented == SequenceSpec => ImplementsDispenser
  <1>1. SequenceInit => Dispenser!Init
    BY OneRowKeys DEF SequenceInit, Dispenser!Init
  <1> QED
    BY <1>1, SequenceSpecInv, StepRefines, PTL DEF SequenceSpec, ImplementsDispenser, Dispenser!Spec

(* Under such a key the numbers returned leave no hole below the counter,  *)
(* whatever calls roll back.                                               *)
THEOREM NumbersWithoutGaps == SequenceSpec => []NoGaps
  BY CoveredNoGaps, SequenceSpecInv, PTL

-----------------------------------------------------------------------------
(***************************************************************************)
(* The Posting Engine                                                      *)
(***************************************************************************)

(* The entry a transaction has inserted is the one it was asked for, under *)
(* an id that no committed entry has and above the entry it names as last. *)
OwnEntry ==
  \A p \in Posters : ptx[p].step = "inserted" =>
    \E e \in Entry :
      /\ ptx[p].own = {e}
      /\ e.pd = ptx[p].pd /\ e.code = ptx[p].code
      /\ e.prev = ptx[p].last /\ e.prev < e.id
      /\ e.reverses = ptx[p].target /\ e.reversedBy = 0
      /\ e.id <= inserted
      /\ \A f \in journal : f.id # e.id

OwnIdsDiffer ==
  \A p, q \in Posters :
    p # q /\ ptx[p].step = "inserted" /\ ptx[q].step = "inserted" =>
      \A e \in ptx[p].own, f \in ptx[q].own : e.id # f.id

JournalIds ==
  /\ \A e \in journal : e.id <= inserted
  /\ \A e, f \in journal : e.id = f.id => e = f

(* A transaction that reverses an entry is in the period of that entry.    *)
TargetInPeriod ==
  \A p \in Posters : ptx[p].step # "idle" =>
    \/ ptx[p].target = 0
    \/ \E e \in journal : e.id = ptx[p].target /\ e.pd = ptx[p].pd

(* The entry read as the last one is committed. *)
LastCommitted ==
  \A p \in Posters : ptx[p].step \in {"hashed", "inserted"} =>
    ptx[p].last = 0 \/ \E e \in journal : e.id = ptx[p].last

IInv ==
  /\ TypeOK
  /\ JournalIds
  /\ OwnEntry
  /\ OwnIdsDiffer
  /\ TargetInPeriod
  /\ LastCommitted
  /\ ChainGrounded

(* What keeps the reversals apart: with NULLs distinct, a number is drawn  *)
(* once per code, and all reversals have one code.                         *)
CodeOnce ==
  /\ \A e, f \in journal : e.code = f.code => e = f
  /\ \A p \in Posters : ptx[p].step = "inserted" =>
       /\ \A e \in journal : e.code # ptx[p].code
       /\ \A q \in Posters \ {p} : ptx[q].step = "inserted" => ptx[q].code # ptx[p].code

ReversalCodes ==
  /\ \A e \in journal : e.reverses # 0 => e.code = ReversalCode
  /\ \A p \in Posters : ptx[p].step # "idle" /\ ptx[p].target # 0 =>
       ptx[p].code = ReversalCode

(* An entry and its mirror name each other, and both are in the journal.   *)
Mirrors ==
  /\ \A e, f \in journal : f.reverses = e.id <=> e.reversedBy = f.id
  /\ \A e \in journal :
       /\ e.reverses = 0 \/ \E f \in journal : f.id = e.reverses
       /\ e.reversedBy = 0 \/ \E f \in journal : f.id = e.reversedBy

RInv == IInv /\ CodeOnce /\ ReversalCodes /\ Mirrors

-----------------------------------------------------------------------------
(* A nonempty set of numbers up to a bound has a largest one. *)
LEMMA Largest ==
  ASSUME NEW N \in Nat, NEW S \in SUBSET (1..N), S # {}
  PROVE  \E m \in S : \A n \in S : n <= m
  <1> DEFINE T == {N - n : n \in S}
             R == OpToRel(<, Nat)
  <1>1. T \subseteq Nat /\ T # {}
    <2>1. \A n \in S : n \in Int /\ N - n \in Nat
      OBVIOUS
    <2> QED
      BY <2>1
  <1>2. PICK x \in T : \A y \in T : <<y, x>> \notin R
    <2> HIDE DEF T, R
    <2>1. IsWellFoundedOn(R, Nat)
      BY NatLessThanWellFounded DEF R
    <2> QED
      BY <1>1, <2>1, WFMin
  <1>3. \A y \in T : ~(y < x)
    BY <1>1, <1>2 DEF OpToRel
  <1>4. PICK m \in S : x = N - m
    OBVIOUS
  <1>5. ASSUME NEW n \in S PROVE n <= m
    <2>1. ~(N - n < N - m)
      BY <1>3, <1>4
    <2>2. m \in Int /\ n \in Int
      OBVIOUS
    <2> QED
      BY <2>1, <2>2
  <1> QED
    BY <1>5

(* LastEntry is the id of a committed entry, or 0 if there is none. *)
LEMMA LastEntryFact ==
  ASSUME TypeOK
  PROVE  \/ LastEntry = 0
         \/ \E e \in journal : LastEntry = e.id
  <1>1. CASE journal = {}
    BY <1>1 DEF LastEntry
  <1>2. CASE journal # {}
    <2> DEFINE S == {e.id : e \in journal}
    <2>1. S \in SUBSET (1..MaxEntries) /\ S # {}
      BY <1>2 DEF TypeOK, Entry
    <2>2. PICK m \in S : \A n \in S : n <= m
      BY <2>1, Largest, PostingAssumption
    <2>3. \E e \in journal : \A f \in journal : f.id <= e.id
      BY <2>2
    <2> QED
      BY <1>2, <2>3 DEF LastEntry
  <1> QED
    BY <1>1, <1>2

(* The id that Commit takes is that of the entry inserted. *)
LEMMA ChosenOwn == \A e : (CHOOSE x \in {e} : TRUE) = e
  OBVIOUS

LEMMA InitInv == Init => IInv /\ CodeOnce /\ ReversalCodes /\ Mirrors
  <1> SUFFICES ASSUME Init PROVE IInv /\ CodeOnce /\ ReversalCodes /\ Mirrors
    OBVIOUS
  <1> USE PostingAssumption
  <1>1. PeriodTypeOK
    BY DEF Init, PeriodInit, PeriodTypeOK, Status, Call, NoCall
  <1>2. TypeOK
    BY <1>1 DEF Init, TypeOK, Entry
  <1>3. ChainGrounded
    BY DEF Init, ChainGrounded
  <1> QED
    BY <1>2, <1>3 DEF Init, Idle, IInv, JournalIds, OwnEntry, OwnIdsDiffer, TargetInPeriod,
       LastCommitted, CodeOnce, ReversalCodes, Mirrors

(* The closing workflow keeps the types of its variables. *)
LEMMA PeriodTypeInv == PeriodTypeOK /\ PeriodNext => PeriodTypeOK'
  <1> SUFFICES ASSUME PeriodTypeOK, PeriodNext PROVE PeriodTypeOK'
    OBVIOUS
  <1> USE PeriodAssumption DEF PeriodTypeOK, Status, Call, NoCall
  <1>1. ASSUME NEW u \in Users, NEW pd \in Periods,
               StartClose(u, pd) \/ Reopen(u, pd) \/ \E n \in Steps : Close(u, pd, n)
        PROVE  PeriodTypeOK'
    BY <1>1 DEF StartClose, Reopen, Close, Enter
  <1>2. ASSUME NEW u \in Users, CreatePeriod(u) PROVE PeriodTypeOK'
    BY <1>2 DEF CreatePeriod, Leave
  <1>3. ASSUME NEW u \in Users, FinishClose(u) PROVE PeriodTypeOK'
    BY <1>3 DEF FinishClose, Leave
  <1>4. ASSUME NEW u \in Users, FinishReopen(u) PROVE PeriodTypeOK'
    BY <1>4 DEF FinishReopen, Leave
  <1>5. ASSUME NEW u \in Users, DropCall(u) PROVE PeriodTypeOK'
    BY <1>5 DEF DropCall, Leave
  <1>6. ASSUME NEW pd \in Periods, Expire(pd) PROVE PeriodTypeOK'
    BY <1>6 DEF Expire
  <1> QED
    BY <1>1, <1>2, <1>3, <1>4, <1>5, <1>6 DEF PeriodNext

-----------------------------------------------------------------------------
(* A step that changes nothing but the transaction of p, and inserts       *)
(* nothing, keeps the invariant if the new transaction keeps its part.     *)
LEMMA TxStepInv ==
  ASSUME IInv, NEW p \in Posters, NEW t \in {Idle} \cup Active,
         ptx' = [ptx EXCEPT ![p] = t],
         UNCHANGED <<periodVars, journal, inserted>>,
         t.step # "inserted",
         t.step # "idle" =>
           t.target = 0 \/ \E e \in journal : e.id = t.target /\ e.pd = t.pd,
         t.step = "hashed" => t.last = 0 \/ \E e \in journal : e.id = t.last
  PROVE  IInv'
  <1>1. \A q \in Posters : ptx'[q] = IF q = p THEN t ELSE ptx[q]
    BY DEF IInv, TypeOK
  <1>2. TypeOK'
    BY DEF IInv, TypeOK, periodVars, PeriodTypeOK
  <1>3. OwnEntry'
    BY <1>1 DEF IInv, OwnEntry
  <1>4. OwnIdsDiffer'
    BY <1>1 DEF IInv, OwnIdsDiffer
  <1>5. TargetInPeriod'
    BY <1>1 DEF IInv, TargetInPeriod
  <1>6. LastCommitted'
    BY <1>1 DEF IInv, LastCommitted
  <1>7. JournalIds' /\ ChainGrounded'
    BY DEF IInv, JournalIds, ChainGrounded
  <1> QED
    BY <1>2, <1>3, <1>4, <1>5, <1>6, <1>7 DEF IInv

(* A transaction that is not idle is a full record. *)
LEMMA ActiveTx ==
  ASSUME TypeOK, NEW p \in Posters, ptx[p].step # "idle"
  PROVE  ptx[p] \in Active
  BY DEF TypeOK, Idle

LEMMA BeginInv ==
  ASSUME IInv, NEW p \in Posters, NEW code \in Codes \cup {ReversalCode},
         NEW pd \in Periods, NEW target \in 0..MaxEntries, Begin(p, code, pd, target),
         target = 0 \/ \E e \in journal : e.id = target /\ e.pd = pd
  PROVE  IInv'
  <1> DEFINE t == [step |-> "begun", code |-> code, pd |-> pd, target |-> target,
                   last |-> 0, own |-> {}]
  <1>1. t \in Active
    BY PostingAssumption DEF Active
  <1>2. ptx' = [ptx EXCEPT ![p] = t] /\ UNCHANGED <<periodVars, journal, inserted>>
    BY DEF Begin
  <1>3. t.step = "begun" /\ t.target = target /\ t.pd = pd
    OBVIOUS
  <1> HIDE DEF t
  <1> QED
    BY <1>1, <1>2, <1>3, TxStepInv

LEMMA DiscardInv ==
  ASSUME IInv, NEW p \in Posters, Discard(p)
  PROVE  IInv'
  <1>1. Idle.step = "idle"
    BY DEF Idle
  <1> QED
    BY <1>1, TxStepInv DEF Discard

LEMMA CheckPeriodInv ==
  ASSUME IInv, NEW p \in Posters, CheckPeriod(p)
  PROVE  IInv'
  <1> DEFINE t == [ptx[p] EXCEPT !.step = "checked"]
  <1>1. ptx[p] \in Active
    BY ActiveTx DEF IInv, CheckPeriod
  <1>2. t \in Active /\ t.step = "checked" /\ t.target = ptx[p].target /\ t.pd = ptx[p].pd
    BY <1>1 DEF Active
  <1>3. ptx' = [ptx EXCEPT ![p] = t] /\ UNCHANGED <<periodVars, journal, inserted>>
    BY DEF CheckPeriod
  <1>4. t.target = 0 \/ \E e \in journal : e.id = t.target /\ e.pd = t.pd
    BY <1>2 DEF IInv, TargetInPeriod, CheckPeriod
  <1> HIDE DEF t
  <1> QED
    BY <1>2, <1>3, <1>4, TxStepInv

LEMMA ReadLastHashInv ==
  ASSUME IInv, NEW p \in Posters, ReadLastHash(p)
  PROVE  IInv'
  <1> DEFINE t == [ptx[p] EXCEPT !.step = "hashed", !.last = LastEntry]
  <1>1. ptx[p] \in Active
    BY ActiveTx DEF IInv, ReadLastHash
  <1>2. LastEntry = 0 \/ \E e \in journal : e.id = LastEntry
    BY LastEntryFact DEF IInv
  <1>3. LastEntry \in 0..MaxEntries
    BY <1>2, PostingAssumption DEF IInv, TypeOK, Entry
  <1>4. /\ t \in Active /\ t.step = "hashed" /\ t.target = ptx[p].target
        /\ t.pd = ptx[p].pd /\ t.last = LastEntry
    BY <1>1, <1>3 DEF Active
  <1>5. ptx' = [ptx EXCEPT ![p] = t] /\ UNCHANGED <<periodVars, journal, inserted>>
    BY DEF ReadLastHash
  <1>6. t.target = 0 \/ \E e \in journal : e.id = t.target /\ e.pd = t.pd
    BY <1>4 DEF IInv, TargetInPeriod, ReadLastHash
  <1> HIDE DEF t
  <1> QED
    BY <1>2, <1>4, <1>5, <1>6, TxStepInv

LEMMA InsertEntryInv ==
  ASSUME IInv, NEW p \in Posters, InsertEntry(p)
  PROVE  IInv'
  <1> USE PostingAssumption
  <1> DEFINE t == ptx[p]
             e == [id |-> inserted + 1, code |-> t.code, pd |-> t.pd, prev |-> t.last,
                   reverses |-> t.target, reversedBy |-> 0]
  <1>1. t \in Active /\ t.step = "hashed"
    BY ActiveTx DEF IInv, InsertEntry
  <1>2. inserted \in Nat /\ inserted < MaxEntries /\ inserted' = inserted + 1
    BY DEF IInv, TypeOK, InsertEntry
  <1>3. e \in Entry
    BY <1>1, <1>2 DEF Entry, Active
  <1>4. /\ UNCHANGED <<periodVars, journal>>
        /\ ptx' = [ptx EXCEPT ![p].step = "inserted", ![p].own = {e}]
    BY DEF InsertEntry
  <1>5. /\ ptx'[p] \in Active
        /\ ptx'[p].step = "inserted" /\ ptx'[p].own = {e} /\ ptx'[p].pd = t.pd
        /\ ptx'[p].code = t.code /\ ptx'[p].target = t.target /\ ptx'[p].last = t.last
    BY <1>1, <1>3, <1>4 DEF Active, IInv, TypeOK
  <1>6. \A q \in Posters \ {p} : ptx'[q] = ptx[q]
    BY <1>4 DEF IInv, TypeOK
  <1>7. \A f \in journal : f.id \in Nat /\ f.id <= inserted
    BY DEF IInv, TypeOK, JournalIds, Entry
  <1>8. /\ e.id = inserted + 1 /\ e.code = t.code /\ e.pd = t.pd /\ e.prev = t.last
        /\ e.reverses = t.target /\ e.reversedBy = 0
    OBVIOUS
  <1>9. e.prev < e.id /\ \A f \in journal : f.id # e.id
    BY <1>1, <1>2, <1>7, <1>8 DEF IInv, LastCommitted
  <1> HIDE DEF e
  <1>10. TypeOK'
    <2>1. PeriodTypeOK'
      BY <1>4 DEF IInv, TypeOK, PeriodTypeOK, periodVars
    <2>2. ptx' \in [Posters -> {Idle} \cup Active]
      BY <1>4, <1>5, <1>6 DEF IInv, TypeOK
    <2> QED
      BY <2>1, <2>2, <1>2, <1>4 DEF IInv, TypeOK
  <1>11. OwnEntry'
    <2> SUFFICES ASSUME NEW q \in Posters, ptx'[q].step = "inserted"
                 PROVE  \E f \in Entry :
                          /\ ptx'[q].own = {f}
                          /\ f.pd = ptx'[q].pd /\ f.code = ptx'[q].code
                          /\ f.prev = ptx'[q].last /\ f.prev < f.id
                          /\ f.reverses = ptx'[q].target /\ f.reversedBy = 0
                          /\ f.id <= inserted'
                          /\ \A g \in journal' : g.id # f.id
      BY DEF OwnEntry
    <2>1. CASE q = p
      <3>1. e.id <= inserted'
        BY <1>2, <1>8
      <3>2. \A g \in journal' : g.id # e.id
        BY <1>4, <1>9
      <3>3. /\ ptx'[q].own = {e}
            /\ e.pd = ptx'[q].pd /\ e.code = ptx'[q].code
            /\ e.prev = ptx'[q].last /\ e.reverses = ptx'[q].target
        BY <2>1, <1>5, <1>8
      <3> QED
        BY <3>1, <3>2, <3>3, <1>3, <1>8, <1>9
    <2>2. CASE q # p
      <3>1. PICK f \in Entry :
               /\ ptx[q].own = {f}
               /\ f.pd = ptx[q].pd /\ f.code = ptx[q].code
               /\ f.prev = ptx[q].last /\ f.prev < f.id
               /\ f.reverses = ptx[q].target /\ f.reversedBy = 0
               /\ f.id <= inserted
               /\ \A g \in journal : g.id # f.id
        BY <2>2, <1>6 DEF IInv, OwnEntry
      <3>2. f.id <= inserted'
        BY <3>1, <1>2 DEF Entry
      <3> QED
        BY <3>1, <3>2, <2>2, <1>4, <1>6
    <2> QED
      BY <2>1, <2>2
  <1>12. OwnIdsDiffer'
    <2>1. \A q \in Posters \ {p} : ptx[q].step = "inserted" =>
             \A f \in ptx[q].own : f.id # e.id
      BY <1>2, <1>8 DEF IInv, OwnEntry, Entry
    <2> SUFFICES ASSUME NEW q \in Posters, NEW r \in Posters, q # r,
                        ptx'[q].step = "inserted", ptx'[r].step = "inserted",
                        NEW f \in ptx'[q].own, NEW g \in ptx'[r].own
                 PROVE  f.id # g.id
      BY DEF OwnIdsDiffer
    <2>2. CASE q = p
      BY <2>1, <2>2, <1>5, <1>6
    <2>3. CASE r = p
      BY <2>1, <2>3, <1>5, <1>6
    <2>4. CASE q # p /\ r # p
      BY <2>4, <1>6 DEF IInv, OwnIdsDiffer
    <2> QED
      BY <2>2, <2>3, <2>4
  <1>13. TargetInPeriod' /\ LastCommitted'
    <2>1. \A q \in Posters :
            /\ ptx'[q].target = ptx[q].target /\ ptx'[q].pd = ptx[q].pd
            /\ ptx'[q].last = ptx[q].last
            /\ ptx'[q].step # "idle" => ptx[q].step # "idle"
            /\ ptx'[q].step \in {"hashed", "inserted"} => ptx[q].step \in {"hashed", "inserted"}
      BY <1>1, <1>5, <1>6
    <2>2. journal' = journal
      BY <1>4
    <2> QED
      BY <2>1, <2>2 DEF IInv, TargetInPeriod, LastCommitted
  <1>14. JournalIds'
    BY <1>2, <1>4, <1>7 DEF IInv, JournalIds
  <1>15. ChainGrounded'
    BY <1>4 DEF IInv, ChainGrounded
  <1> QED
    BY <1>10, <1>11, <1>12, <1>13, <1>14, <1>15 DEF IInv

-----------------------------------------------------------------------------
(* The entry f after the commit of a transaction that reverses target with *)
(* the entry id.                                                           *)
Mark(f, target, id) == IF f.id = target THEN [f EXCEPT !.reversedBy = id] ELSE f

LEMMA MarkKeeps ==
  ASSUME NEW f \in Entry, NEW target, NEW id \in 0..MaxEntries
  PROVE  /\ Mark(f, target, id) \in Entry
         /\ Mark(f, target, id).id = f.id
         /\ Mark(f, target, id).pd = f.pd
         /\ Mark(f, target, id).code = f.code
         /\ Mark(f, target, id).prev = f.prev
         /\ Mark(f, target, id).reverses = f.reverses
         /\ f.id = target => Mark(f, target, id).reversedBy = id
         /\ f.id # target => Mark(f, target, id) = f
  BY DEF Mark, Entry

(* What a commit does: the journal is marked and the new entry n added.    *)
CommitsEntry(p, n) ==
  /\ n \in Entry
  /\ ptx[p].own = {n}
  /\ n.pd = ptx[p].pd /\ n.code = ptx[p].code
  /\ n.prev = ptx[p].last /\ n.prev < n.id
  /\ n.reverses = ptx[p].target /\ n.reversedBy = 0
  /\ n.id <= inserted
  /\ \A f \in journal : f.id # n.id
  /\ journal' = {n} \cup {Mark(f, ptx[p].target, n.id) : f \in journal}
  /\ \A q \in Posters : ptx'[q] = IF q = p THEN Idle ELSE ptx[q]
  /\ UNCHANGED <<periodVars, inserted>>

LEMMA CommitFact ==
  ASSUME IInv, NEW p \in Posters, Commit(p)
  PROVE  \E n \in Entry : CommitsEntry(p, n)
  <1>1. PICK n \in Entry :
          /\ ptx[p].own = {n}
          /\ n.pd = ptx[p].pd /\ n.code = ptx[p].code
          /\ n.prev = ptx[p].last /\ n.prev < n.id
          /\ n.reverses = ptx[p].target /\ n.reversedBy = 0
          /\ n.id <= inserted
          /\ \A f \in journal : f.id # n.id
    BY DEF IInv, OwnEntry, Commit
  <1>2. (CHOOSE e \in ptx[p].own : TRUE) = n
    BY <1>1, ChosenOwn
  <1>3. journal' = {n} \cup {Mark(f, ptx[p].target, n.id) : f \in journal}
    BY <1>1, <1>2 DEF Commit, Mark
  <1>4. \A q \in Posters : ptx'[q] = IF q = p THEN Idle ELSE ptx[q]
    BY DEF Commit, IInv, TypeOK
  <1>5. UNCHANGED <<periodVars, inserted>>
    BY DEF Commit
  <1> QED
    BY <1>1, <1>3, <1>4, <1>5 DEF CommitsEntry

(* Every entry is still there after a commit, and nothing but n is new.    *)
LEMMA CommitJournal ==
  ASSUME IInv, NEW p \in Posters, NEW n \in Entry, CommitsEntry(p, n)
  PROVE  /\ \A f \in journal : \E g \in journal' :
              g.id = f.id /\ g.pd = f.pd /\ g.code = f.code /\ g.reverses = f.reverses
         /\ \A g \in journal' : g = n \/ \E f \in journal :
              /\ g = Mark(f, ptx[p].target, n.id) /\ g \in Entry
              /\ g.id = f.id /\ g.pd = f.pd /\ g.code = f.code /\ g.prev = f.prev
              /\ g.reverses = f.reverses
         /\ n \in journal'
  <1>1. n.id \in 0..MaxEntries
    BY PostingAssumption DEF Entry
  <1>2. \A f \in journal : f \in Entry
    BY DEF IInv, TypeOK
  <1> QED
    BY <1>1, <1>2, MarkKeeps DEF CommitsEntry

LEMMA CommitInv ==
  ASSUME IInv, NEW p \in Posters, Commit(p)
  PROVE  IInv'
  <1> USE PostingAssumption
  <1>1. PICK n \in Entry : CommitsEntry(p, n)
    BY CommitFact
  <1>2. /\ \A f \in journal : \E g \in journal' :
              g.id = f.id /\ g.pd = f.pd /\ g.code = f.code /\ g.reverses = f.reverses
        /\ \A g \in journal' : g = n \/ \E f \in journal :
              /\ g = Mark(f, ptx[p].target, n.id) /\ g \in Entry
              /\ g.id = f.id /\ g.pd = f.pd /\ g.code = f.code /\ g.prev = f.prev
              /\ g.reverses = f.reverses
        /\ n \in journal'
    BY <1>1, CommitJournal
  <1>3. /\ \A q \in Posters : ptx'[q] = IF q = p THEN Idle ELSE ptx[q]
        /\ UNCHANGED <<periodVars, inserted>>
    BY <1>1 DEF CommitsEntry
  <1>4. Idle.step = "idle"
    BY DEF Idle
  <1>5. ptx[p].step = "inserted"
    BY DEF Commit
  <1>6. JournalIds'
    <2>1. n.id <= inserted' /\ \A f \in journal : f.id <= inserted' /\ f.id # n.id
      BY <1>1, <1>3 DEF CommitsEntry, IInv, JournalIds
    <2>2. \A e, f \in journal : e.id = f.id => e = f
      BY DEF IInv, JournalIds
    <2> QED
      BY <1>2, <2>1, <2>2 DEF JournalIds
  <1>7. TypeOK'
    <2>1. PeriodTypeOK'
      BY <1>3 DEF IInv, TypeOK, PeriodTypeOK, periodVars
    <2>2. journal' \subseteq Entry
      BY <1>2
    <2>3. inserted' \in 0..MaxEntries
      BY <1>3 DEF IInv, TypeOK
    <2>4. ptx' \in [Posters -> {Idle} \cup Active]
      BY DEF Commit, IInv, TypeOK
    <2> QED
      BY <2>1, <2>2, <2>3, <2>4, <1>6 DEF TypeOK, JournalIds
  <1>8. OwnEntry'
    <2> SUFFICES ASSUME NEW q \in Posters, ptx'[q].step = "inserted"
                 PROVE  \E f \in Entry :
                          /\ ptx'[q].own = {f}
                          /\ f.pd = ptx'[q].pd /\ f.code = ptx'[q].code
                          /\ f.prev = ptx'[q].last /\ f.prev < f.id
                          /\ f.reverses = ptx'[q].target /\ f.reversedBy = 0
                          /\ f.id <= inserted'
                          /\ \A g \in journal' : g.id # f.id
      BY DEF OwnEntry
    <2>1. q # p /\ ptx'[q] = ptx[q]
      BY <1>3, <1>4
    <2>2. PICK f \in Entry :
             /\ ptx[q].own = {f}
             /\ f.pd = ptx[q].pd /\ f.code = ptx[q].code
             /\ f.prev = ptx[q].last /\ f.prev < f.id
             /\ f.reverses = ptx[q].target /\ f.reversedBy = 0
             /\ f.id <= inserted
             /\ \A g \in journal : g.id # f.id
      BY <2>1 DEF IInv, OwnEntry
    <2>3. n.id # f.id
      BY <1>1, <1>5, <2>1, <2>2 DEF IInv, OwnIdsDiffer, CommitsEntry
    <2>4. \A g \in journal' : g.id # f.id
      BY <1>2, <2>2, <2>3
    <2> QED
      BY <1>3, <2>1, <2>2, <2>4
  <1>9. OwnIdsDiffer'
    BY <1>3, <1>4 DEF IInv, OwnIdsDiffer
  <1>10. TargetInPeriod' /\ LastCommitted'
    <2>1. ASSUME NEW q \in Posters, ptx'[q].step # "idle"
          PROVE  ptx'[q] = ptx[q]
      BY <2>1, <1>3, <1>4
    <2>2. TargetInPeriod'
      BY <1>2, <2>1 DEF IInv, TargetInPeriod
    <2>3. LastCommitted'
      BY <1>2, <2>1 DEF IInv, LastCommitted
    <2> QED
      BY <2>2, <2>3
  <1>11. ChainGrounded'
    <2> SUFFICES ASSUME NEW g \in journal'
                 PROVE  g.prev = 0 \/ \E h \in journal' : h.id = g.prev /\ h.id < g.id
      BY DEF ChainGrounded
    <2>1. CASE g = n
      <3>1. n.prev = 0 \/ \E f \in journal : f.id = n.prev
        BY <1>1, <1>5 DEF IInv, LastCommitted, CommitsEntry
      <3> QED
        BY <1>1, <1>2, <2>1, <3>1 DEF CommitsEntry
    <2>2. CASE g # n
      <3>1. PICK f \in journal : g.id = f.id /\ g.prev = f.prev
        BY <1>2, <2>2
      <3>2. f.prev = 0 \/ \E h \in journal : h.id = f.prev /\ h.id < f.id
        BY DEF IInv, ChainGrounded
      <3> QED
        BY <1>2, <3>1, <3>2
    <2> QED
      BY <2>1, <2>2
  <1> QED
    BY <1>6, <1>7, <1>8, <1>9, <1>10, <1>11 DEF IInv

LEMMA PeriodStepInv ==
  ASSUME IInv, PeriodNext, UNCHANGED <<journal, inserted, ptx>>
  PROVE  IInv'
  <1>1. TypeOK'
    BY PeriodTypeInv DEF IInv, TypeOK
  <1> QED
    BY <1>1 DEF IInv, JournalIds, OwnEntry, OwnIdsDiffer, TargetInPeriod, LastCommitted,
       ChainGrounded

LEMMA StepInv == IInv /\ [Next]_vars => IInv'
  <1> SUFFICES ASSUME IInv, [Next]_vars PROVE IInv'
    OBVIOUS
  <1>1. CASE UNCHANGED vars
    BY <1>1 DEF vars, periodVars, IInv, TypeOK, PeriodTypeOK, JournalIds, OwnEntry,
       OwnIdsDiffer, TargetInPeriod, LastCommitted, ChainGrounded
  <1>2. CASE PeriodNext /\ UNCHANGED <<journal, inserted, ptx>>
    BY <1>2, PeriodStepInv
  <1>3. ASSUME NEW p \in Posters, PostingStep(p) PROVE IInv'
    <2>1. CASE Post(p)
      <3>1. PICK code \in Codes, pd \in Periods : Begin(p, code, pd, 0)
        BY <2>1 DEF Post
      <3> QED
        BY <3>1, BeginInv, PostingAssumption
    <2>2. CASE Reverse(p)
      <3>1. PICK e \in journal : Begin(p, ReversalCode, e.pd, e.id)
        BY <2>2 DEF Reverse
      <3>2. e.pd \in Periods /\ e.id \in 0..MaxEntries
        BY PostingAssumption DEF IInv, TypeOK, Entry
      <3> QED
        BY <3>1, <3>2, BeginInv
    <2>3. CASE PeriodNotOpen(p) \/ NumberCollides(p) \/ Rollback(p)
      BY <2>3, DiscardInv DEF PeriodNotOpen, NumberCollides, Rollback
    <2> QED
      BY <1>3, <2>1, <2>2, <2>3, CheckPeriodInv, ReadLastHashInv, InsertEntryInv, CommitInv
         DEF PostingStep
  <1> QED
    BY <1>1, <1>2, <1>3 DEF Next

LEMMA SpecInv == Spec => []IInv
  BY InitInv, StepInv, PTL DEF Spec

-----------------------------------------------------------------------------
(* A step of posting other than an insertion and a commit leaves the       *)
(* reversals apart.                                                        *)
LEMMA TxStepReversals ==
  ASSUME IInv, CodeOnce, ReversalCodes, Mirrors,
         NEW p \in Posters, NEW t \in {Idle} \cup Active,
         ptx' = [ptx EXCEPT ![p] = t], journal' = journal,
         t.step # "inserted",
         t.step # "idle" /\ t.target # 0 => t.code = ReversalCode
  PROVE  CodeOnce' /\ ReversalCodes' /\ Mirrors'
  <1>1. \A q \in Posters : ptx'[q] = IF q = p THEN t ELSE ptx[q]
    BY DEF IInv, TypeOK
  <1>2. CodeOnce'
    BY <1>1 DEF CodeOnce
  <1>3. ReversalCodes'
    BY <1>1 DEF ReversalCodes
  <1> QED
    BY <1>2, <1>3 DEF Mirrors

LEMMA InsertEntryReversals ==
  ASSUME NullsDistinct, IInv, CodeOnce, ReversalCodes, Mirrors,
         NEW p \in Posters, InsertEntry(p)
  PROVE  CodeOnce' /\ ReversalCodes' /\ Mirrors'
  <1>1. ptx[p] \in Active /\ ptx[p].step = "hashed"
    BY ActiveTx DEF IInv, InsertEntry
  <1>2. \A q \in Posters \ {p} : ptx'[q] = ptx[q]
    BY DEF IInv, TypeOK, InsertEntry
  <1>3. ptx'[p].code = ptx[p].code /\ ptx'[p].target = ptx[p].target
    BY <1>1 DEF IInv, TypeOK, InsertEntry, Active
  <1>4. journal' = journal
    BY DEF InsertEntry
  <1>5. /\ \A e \in journal : e.code # ptx[p].code
        /\ \A q \in Posters \ {p} : ptx[q].step = "inserted" => ptx[q].code # ptx[p].code
    BY DEF InsertEntry, NumberTaken, NumberPending
  <1>6. CodeOnce'
    <2>1. \A q \in Posters : ptx'[q].step = "inserted" =>
            /\ \A e \in journal : e.code # ptx'[q].code
            /\ \A r \in Posters \ {q} :
                 ptx'[r].step = "inserted" => ptx'[r].code # ptx'[q].code
      <3> SUFFICES ASSUME NEW q \in Posters, ptx'[q].step = "inserted"
                   PROVE  /\ \A e \in journal : e.code # ptx'[q].code
                          /\ \A r \in Posters \ {q} :
                               ptx'[r].step = "inserted" => ptx'[r].code # ptx'[q].code
        OBVIOUS
      <3>1. CASE q = p
        BY <3>1, <1>2, <1>3, <1>5
      <3>2. CASE q # p
        <4>1. ptx'[q] = ptx[q]
          BY <3>2, <1>2
        <4>2. /\ \A e \in journal : e.code # ptx[q].code
              /\ \A r \in Posters \ {q} :
                   ptx[r].step = "inserted" => ptx[r].code # ptx[q].code
          BY <4>1 DEF CodeOnce
        <4> QED
          BY <3>2, <4>1, <4>2, <1>2, <1>3, <1>5
      <3> QED
        BY <3>1, <3>2
    <2> QED
      BY <2>1, <1>4 DEF CodeOnce
  <1>7. ReversalCodes'
    BY <1>1, <1>2, <1>3, <1>4 DEF ReversalCodes
  <1> QED
    BY <1>4, <1>6, <1>7 DEF Mirrors

LEMMA CommitReversals ==
  ASSUME NullsDistinct, IInv, CodeOnce, ReversalCodes, Mirrors,
         NEW p \in Posters, Commit(p)
  PROVE  CodeOnce' /\ ReversalCodes' /\ Mirrors'
  <1> USE PostingAssumption
  <1>1. PICK n \in Entry : CommitsEntry(p, n)
    BY CommitFact
  <1> DEFINE target == ptx[p].target
  <1>2. /\ \A f \in journal : \E g \in journal' :
              g.id = f.id /\ g.pd = f.pd /\ g.code = f.code /\ g.reverses = f.reverses
        /\ \A g \in journal' : g = n \/ \E f \in journal :
              /\ g = Mark(f, target, n.id) /\ g \in Entry
              /\ g.id = f.id /\ g.pd = f.pd /\ g.code = f.code /\ g.prev = f.prev
              /\ g.reverses = f.reverses
        /\ n \in journal'
    BY <1>1, CommitJournal
  <1>3. \A q \in Posters : ptx'[q] = IF q = p THEN Idle ELSE ptx[q]
    BY <1>1 DEF CommitsEntry
  <1>4. Idle.step = "idle"
    BY DEF Idle
  <1>5. ptx[p].step = "inserted"
    BY DEF Commit
  <1>6. /\ n.code = ptx[p].code /\ n.reverses = target /\ n.reversedBy = 0
        /\ n.id \in 1..MaxEntries
        /\ \A f \in journal : f.id # n.id
    BY <1>1 DEF CommitsEntry, Entry
  <1>7. /\ \A f \in journal : f.code # n.code
        /\ target # 0 => n.code = ReversalCode
    BY <1>5, <1>6 DEF CodeOnce, ReversalCodes
  <1>8. CodeOnce'
    <2>1. \A e, f \in journal' : e.code = f.code => e = f
      BY <1>2, <1>7 DEF CodeOnce
    <2>2. ASSUME NEW q \in Posters, ptx'[q].step = "inserted"
          PROVE  /\ \A e \in journal' : e.code # ptx'[q].code
                 /\ \A r \in Posters \ {q} :
                      ptx'[r].step = "inserted" => ptx'[r].code # ptx'[q].code
      <3>1. q # p /\ ptx'[q] = ptx[q]
        BY <2>2, <1>3, <1>4
      <3>2. n.code # ptx[q].code
        BY <3>1, <2>2, <1>5, <1>6 DEF CodeOnce
      <3>3. \A e \in journal : e.code # ptx[q].code
        BY <3>1, <2>2 DEF CodeOnce
      <3>4. \A r \in Posters \ {q} : ptx'[r].step = "inserted" => ptx'[r].code # ptx'[q].code
        BY <3>1, <2>2, <1>3, <1>4 DEF CodeOnce
      <3> QED
        BY <3>1, <3>2, <3>3, <3>4, <1>2
    <2> QED
      BY <2>1, <2>2 DEF CodeOnce
  <1>9. ReversalCodes'
    BY <1>2, <1>3, <1>4, <1>6, <1>7 DEF ReversalCodes
  <1>10. \A f \in journal : f \in Entry /\ f.id # 0
    BY DEF IInv, TypeOK, Entry
  <1>11. target = 0 \/ \E f \in journal : f.id = target
    BY <1>5 DEF IInv, TargetInPeriod
  <1>12. \A f \in journal : target # 0 => f.reverses # target
    BY <1>6, <1>7 DEF ReversalCodes
  <1>13. \A f \in journal :
           /\ f.reverses # n.id /\ f.reversedBy # n.id
           /\ f.id = target => Mark(f, target, n.id).reversedBy = n.id
           /\ f.id # target => Mark(f, target, n.id) = f
    BY <1>6, <1>10, MarkKeeps DEF Mirrors
  <1>14. Mirrors'
    <2>1. ASSUME NEW e \in journal', NEW f \in journal'
          PROVE  f.reverses = e.id <=> e.reversedBy = f.id
      <3>1. CASE e = n /\ f = n
        BY <3>1, <1>6, <1>11
      <3>2. CASE e = n /\ f # n
        BY <3>2, <1>2, <1>6, <1>10, <1>13
      <3>3. CASE e # n
        <4>1. PICK d \in journal : e = Mark(d, target, n.id) /\ e.id = d.id
          BY <3>3, <1>2
        <4>2. CASE f = n
          BY <4>1, <4>2, <1>6, <1>10, <1>13
        <4>3. CASE f # n
          <5>1. PICK c \in journal : f.id = c.id /\ f.reverses = c.reverses
            BY <4>3, <1>2
          <5>2. c.reverses = d.id <=> d.reversedBy = c.id
            BY DEF Mirrors
          <5>3. CASE d.id = target
            BY <5>1, <5>3, <4>1, <1>6, <1>10, <1>12, <1>13
          <5>4. CASE d.id # target
            BY <5>1, <5>2, <5>4, <4>1, <1>13
          <5> QED
            BY <5>3, <5>4
        <4> QED
          BY <4>2, <4>3
      <3> QED
        BY <3>1, <3>2, <3>3
    <2>2. ASSUME NEW e \in journal'
          PROVE  /\ e.reverses = 0 \/ \E f \in journal' : f.id = e.reverses
                 /\ e.reversedBy = 0 \/ \E f \in journal' : f.id = e.reversedBy
      <3>1. CASE e = n
        BY <3>1, <1>2, <1>6, <1>11
      <3>2. CASE e # n
        <4>1. PICK d \in journal :
                e = Mark(d, target, n.id) /\ e.id = d.id /\ e.reverses = d.reverses
          BY <3>2, <1>2
        <4>2. /\ d.reverses = 0 \/ \E f \in journal : f.id = d.reverses
              /\ d.reversedBy = 0 \/ \E f \in journal : f.id = d.reversedBy
          BY DEF Mirrors
        <4> QED
          BY <4>1, <4>2, <1>2, <1>13
      <3> QED
        BY <3>1, <3>2
    <2> QED
      BY <2>1, <2>2 DEF Mirrors
  <1> QED
    BY <1>8, <1>9, <1>14

LEMMA StepReversals ==
  ASSUME NullsDistinct
  PROVE  RInv /\ [Next]_vars => RInv'
  <1> SUFFICES ASSUME RInv, [Next]_vars PROVE CodeOnce' /\ ReversalCodes' /\ Mirrors'
    BY StepInv DEF RInv
  <1> USE DEF RInv
  <1>1. CASE UNCHANGED <<journal, ptx>>
    BY <1>1 DEF CodeOnce, ReversalCodes, Mirrors
  <1>2. ASSUME NEW p \in Posters, PostingStep(p)
        PROVE  CodeOnce' /\ ReversalCodes' /\ Mirrors'
    <2>1. ASSUME NEW code \in Codes \cup {ReversalCode}, NEW pd \in Periods,
                 NEW target \in 0..MaxEntries, Begin(p, code, pd, target),
                 target # 0 => code = ReversalCode
          PROVE  CodeOnce' /\ ReversalCodes' /\ Mirrors'
      <3> DEFINE t == [step |-> "begun", code |-> code, pd |-> pd, target |-> target,
                       last |-> 0, own |-> {}]
      <3>1. t \in Active /\ t.step = "begun" /\ (t.target # 0 => t.code = ReversalCode)
        BY <2>1, PostingAssumption DEF Active
      <3>2. ptx' = [ptx EXCEPT ![p] = t] /\ journal' = journal
        BY <2>1 DEF Begin
      <3> HIDE DEF t
      <3> QED
        BY <3>1, <3>2, TxStepReversals
    <2>2. CASE Post(p)
      <3>1. PICK code \in Codes, pd \in Periods : Begin(p, code, pd, 0)
        BY <2>2 DEF Post
      <3> QED
        BY <3>1, <2>1, PostingAssumption
    <2>3. CASE Reverse(p)
      <3>1. PICK e \in journal : Begin(p, ReversalCode, e.pd, e.id)
        BY <2>3 DEF Reverse
      <3>2. e.pd \in Periods /\ e.id \in 0..MaxEntries
        BY PostingAssumption DEF IInv, TypeOK, Entry
      <3> QED
        BY <3>1, <3>2, <2>1
    <2>4. CASE PeriodNotOpen(p) \/ NumberCollides(p) \/ Rollback(p)
      <3>1. ptx' = [ptx EXCEPT ![p] = Idle] /\ journal' = journal
        BY <2>4 DEF PeriodNotOpen, NumberCollides, Rollback, Discard
      <3>2. Idle.step = "idle"
        BY DEF Idle
      <3> QED
        BY <3>1, <3>2, TxStepReversals
    <2>5. CASE CheckPeriod(p)
      <3> DEFINE t == [ptx[p] EXCEPT !.step = "checked"]
      <3>1. ptx[p] \in Active
        BY <2>5, ActiveTx DEF IInv, CheckPeriod
      <3>2. t \in Active /\ t.step = "checked" /\ t.target = ptx[p].target /\ t.code = ptx[p].code
        BY <3>1 DEF Active
      <3>3. ptx' = [ptx EXCEPT ![p] = t] /\ journal' = journal /\ ptx[p].step = "begun"
        BY <2>5 DEF CheckPeriod
      <3>4. t.target # 0 => t.code = ReversalCode
        BY <3>2, <3>3 DEF ReversalCodes
      <3> HIDE DEF t
      <3> QED
        BY <3>2, <3>3, <3>4, TxStepReversals
    <2>6. CASE ReadLastHash(p)
      <3> DEFINE t == [ptx[p] EXCEPT !.step = "hashed", !.last = LastEntry]
      <3>1. ptx[p] \in Active
        BY <2>6, ActiveTx DEF IInv, ReadLastHash
      <3>2. LastEntry \in 0..MaxEntries
        BY LastEntryFact, PostingAssumption DEF IInv, TypeOK, Entry
      <3>3. t \in Active /\ t.step = "hashed" /\ t.target = ptx[p].target /\ t.code = ptx[p].code
        BY <3>1, <3>2 DEF Active
      <3>4. ptx' = [ptx EXCEPT ![p] = t] /\ journal' = journal /\ ptx[p].step = "checked"
        BY <2>6 DEF ReadLastHash
      <3>5. t.target # 0 => t.code = ReversalCode
        BY <3>3, <3>4 DEF ReversalCodes
      <3> HIDE DEF t
      <3> QED
        BY <3>3, <3>4, <3>5, TxStepReversals
    <2> QED
      BY <1>2, <2>2, <2>3, <2>4, <2>5, <2>6, InsertEntryReversals, CommitReversals
         DEF PostingStep
  <1> QED
    BY <1>1, <1>2 DEF Next, vars

LEMMA ReversalsOnce == RInv => ReversedOnce
  <1> SUFFICES ASSUME RInv, NEW e \in journal
               PROVE  {f.id : f \in {g \in journal : g.reverses = e.id}} =
                        IF e.reversedBy = 0 THEN {} ELSE {e.reversedBy}
    BY DEF ReversedOnce
  <1>1. \A f \in journal : f.id # 0
    BY DEF RInv, IInv, TypeOK, Entry
  <1> QED
    BY <1>1 DEF RInv, Mirrors

-----------------------------------------------------------------------------
(* No step changes the entries of a period that is sealed, or opens it.    *)
LEMMA SealedStep ==
  ASSUME IInv, [Next]_vars, NEW pd \in Periods, Sealed(pd)
  PROVE  Sealed(pd)' /\ EntriesOf(pd)' = EntriesOf(pd)
  <1>1. CASE UNCHANGED vars
    BY <1>1 DEF vars, periodVars, Sealed, EntriesOf
  <1>2. CASE PeriodNext /\ UNCHANGED <<journal, inserted, ptx>>
    <2>1. /\ period'[pd] = "hard_closed"
          /\ \A u \in Users : call'[u].op \in {"close", "reopen"} => call'[u].pd # pd
      <3> USE DEF Sealed, IInv, TypeOK, PeriodTypeOK, NoCall
      <3>1. ASSUME NEW u \in Users, NEW d \in Periods,
                   StartClose(u, d) \/ Reopen(u, d) \/ \E n \in Steps : Close(u, d, n)
            PROVE  <2>1
        BY <3>1 DEF StartClose, Reopen, Close, Enter
      <3>2. ASSUME NEW u \in Users,
                   CreatePeriod(u) \/ FinishClose(u) \/ FinishReopen(u) \/ DropCall(u)
            PROVE  <2>1
        BY <3>2 DEF CreatePeriod, FinishClose, FinishReopen, DropCall, Leave
      <3>3. ASSUME NEW d \in Periods, Expire(d) PROVE <2>1
        BY <3>3 DEF Expire
      <3> QED
        BY <1>2, <3>1, <3>2, <3>3 DEF PeriodNext
    <2> QED
      BY <1>2, <2>1 DEF Sealed, EntriesOf
  <1>3. ASSUME NEW p \in Posters, PostingStep(p)
        PROVE  Sealed(pd)' /\ EntriesOf(pd)' = EntriesOf(pd)
    <2>1. UNCHANGED periodVars
      BY <1>3 DEF PostingStep, Post, Reverse, Begin, CheckPeriod, PeriodNotOpen, ReadLastHash,
         InsertEntry, NumberCollides, Commit, Rollback, Discard
    <2>2. \A q \in Posters :
            ptx'[q].step \in {"checked", "hashed", "inserted"} => ptx'[q].pd # pd
      <3> USE DEF Sealed, IInv, TypeOK, Idle
      <3>1. CASE Post(p) \/ Reverse(p)
        BY <3>1 DEF Post, Reverse, Begin
      <3>2. CASE CheckPeriod(p)
        BY <3>2, ActiveTx DEF CheckPeriod, Active
      <3>3. CASE ReadLastHash(p)
        BY <3>3, ActiveTx DEF ReadLastHash, Active
      <3>4. CASE InsertEntry(p)
        BY <3>4, ActiveTx DEF InsertEntry, Active
      <3>5. CASE PeriodNotOpen(p) \/ NumberCollides(p) \/ Rollback(p) \/ Commit(p)
        BY <3>5 DEF PeriodNotOpen, NumberCollides, Rollback, Discard, Commit
      <3> QED
        BY <1>3, <3>1, <3>2, <3>3, <3>4, <3>5 DEF PostingStep
    <2>3. EntriesOf(pd)' = EntriesOf(pd)
      <3>1. CASE journal' = journal
        BY <3>1 DEF EntriesOf
      <3>2. CASE Commit(p)
        <4>1. PICK n \in Entry : CommitsEntry(p, n)
          BY <3>2, CommitFact
        <4>2. n.pd # pd /\ ptx[p].pd # pd
          BY <3>2, <4>1 DEF Commit, CommitsEntry, Sealed
        <4>3. \A f \in journal : f.pd = pd => f.id # ptx[p].target
          <5>1. \A f \in journal : f.id # 0
            BY DEF IInv, TypeOK, Entry
          <5>2. ptx[p].target = 0 \/ \E e \in journal : e.id = ptx[p].target /\ e.pd # pd
            BY <3>2, <4>2 DEF Commit, IInv, TargetInPeriod
          <5> QED
            BY <5>1, <5>2 DEF IInv, JournalIds
        <4>4. \A f \in journal :
                /\ Mark(f, ptx[p].target, n.id).pd = f.pd
                /\ f.pd = pd => Mark(f, ptx[p].target, n.id) = f
          BY <4>3, MarkKeeps, PostingAssumption DEF IInv, TypeOK, Entry
        <4>5. journal' = {n} \cup {Mark(f, ptx[p].target, n.id) : f \in journal}
          BY <4>1 DEF CommitsEntry
        <4> QED
          BY <4>2, <4>4, <4>5 DEF EntriesOf
      <3> QED
        BY <1>3, <3>1, <3>2 DEF PostingStep, Post, Reverse, Begin, CheckPeriod, PeriodNotOpen,
           ReadLastHash, InsertEntry, NumberCollides, Rollback, Discard
    <2> QED
      BY <2>1, <2>2, <2>3 DEF Sealed, periodVars
  <1> QED
    BY <1>1, <1>2, <1>3 DEF Next

-----------------------------------------------------------------------------
(* The engine and the closing workflow keep the types of their variables,  *)
(* and no two entries of the journal have one id.                          *)
THEOREM TypeCorrect == Spec => []TypeOK
  <1>1. IInv => TypeOK
    BY DEF IInv
  <1> QED
    BY <1>1, SpecInv, PTL

(* post never leaves an entry whose previousHash is that of an entry       *)
(* rolled back or of a later one, however many postings overlap.           *)
THEOREM ChainStaysGrounded == Spec => []ChainGrounded
  <1>1. IInv => ChainGrounded
    BY DEF IInv
  <1> QED
    BY <1>1, SpecInv, PTL

(* As built, with the NULL branches of the number sequence distinct, no    *)
(* overlap of reverse calls reverses an entry twice.                       *)
THEOREM ReversedAtMostOnce ==
  ASSUME NullsDistinct
  PROVE  Spec => []ReversedOnce
  <1>1. Init => RInv
    BY InitInv DEF RInv
  <1>2. RInv /\ [Next]_vars => RInv'
    BY StepReversals
  <1> QED
    BY <1>1, <1>2, ReversalsOnce, PTL DEF Spec

(* Once a hard close is over and the calls that had read the period before *)
(* it too, nothing opens the period, adds an entry to it or marks one.     *)
THEOREM HardCloseSeals == Spec => PeriodSealed
  <1>1. IInv /\ [Next]_vars =>
          [\A pd \in Periods :
             Sealed(pd) => Sealed(pd)' /\ EntriesOf(pd)' = EntriesOf(pd)]_vars
    BY SealedStep
  <1> QED
    BY <1>1, SpecInv, PTL DEF Spec, PeriodSealed
=============================================================================
