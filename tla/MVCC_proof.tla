----------------------------- MODULE MVCC_proof -----------------------------
(***************************************************************************)
(* Proofs about MVCC for any records, transactions and numbers of versions.*)
(***************************************************************************)
EXTENDS MVCC

\* Identifiers fall along each chain, were given out before, and belong to one
\* record.
IdsFall ==
    \A r \in RecordIds : \A i, j \in 1 .. Len(chain[r]) :
        i < j => chain[r][i].version_id > chain[r][j].version_id

IdsGiven ==
    \A r \in RecordIds : \A i \in 1 .. Len(chain[r]) : chain[r][i].version_id < next_version_id

IdsApart ==
    \A r, q \in RecordIds : \A i \in 1 .. Len(chain[r]), j \in 1 .. Len(chain[q]) :
        chain[r][i].version_id = chain[q][j].version_id => r = q

CountsAgree == \A r \in RecordIds : version_count[r] = Len(chain[r])

VInv == MvccTypeOK /\ IdsFall /\ IdsGiven /\ IdsApart /\ CountsAgree

\* Chains are sequences of versions.
LEMMA ChainIs ==
    ASSUME MvccTypeOK, NEW r \in RecordIds
    PROVE  /\ chain[r] \in Seq(Version) /\ Len(chain[r]) \in Nat
           /\ DOMAIN chain[r] = 1 .. Len(chain[r])
           /\ \A i \in 1 .. Len(chain[r]) :
                 /\ chain[r][i] \in Version
                 /\ chain[r][i].version_id \in 1 .. MAX_VERSION_ID /\ chain[r][i].txn_id \in Txns
                 /\ chain[r][i].status \in VersionStatus
<1>1. chain[r] \in Seq(Version)
  BY DEF MvccTypeOK
<1>2. Len(chain[r]) \in Nat /\ DOMAIN chain[r] = 1 .. Len(chain[r])
  BY <1>1, LenProperties
<1>3. \A i \in 1 .. Len(chain[r]) : chain[r][i] \in Version
  BY <1>1, ElementOfSeq
<1> QED
  BY <1>1, <1>2, <1>3 DEF Version

\* The records in use are few: nothing but a new one is added, if there is room.
LEMMA RecordsFew ==
    ASSUME MvccTypeOK, NEW r \in RecordIds, mvcc_manager_get_or_create_record(r)
    PROVE  records' \in Seq(RecordIds) /\ Len(records') <= MAX_RECORDS
<1>1. records \in Seq(RecordIds) /\ Len(records) \in Nat /\ Len(records) <= MAX_RECORDS /\ MAX_RECORDS \in Nat
  BY MvccConstants DEF MvccTypeOK
<1>2. CASE r \in Range(records)
  BY <1>1, <1>2 DEF mvcc_manager_get_or_create_record
<1>3. CASE r \notin Range(records)
  <2>1. records' = Append(records, r) /\ Len(records) < MAX_RECORDS
    BY <1>3 DEF mvcc_manager_get_or_create_record
  <2>2. records' \in Seq(RecordIds) /\ Len(records') = Len(records) + 1
    BY <1>1, <2>1, AppendProperties
  <2> QED
    BY <1>1, <2>1, <2>2
<1> QED
  BY <1>2, <1>3

-----------------------------------------------------------------------------
(* Creating a version                                                      *)

LEMMA CreateKeeps ==
    ASSUME VInv, NEW r \in RecordIds, NEW t \in Txns, mvcc_manager_create_version(r, t)
    PROVE  /\ VInv'
           /\ \A q \in RecordIds : \A i \in 1 .. Len(chain[q]) :
                 \E j \in 1 .. Len(chain'[q]) : chain'[q][j].version_id = chain[q][i].version_id
<1> DEFINE new == [version_id |-> next_version_id, txn_id |-> t, status |-> "ACTIVE"]
           longer == <<new>> \o chain[r]
<1>1. MvccTypeOK /\ next_version_id \in Nat /\ MAX_VERSION_ID \in Nat
  BY MvccConstants DEF VInv, MvccTypeOK
<1>2. /\ mvcc_manager_get_or_create_record(r)
      /\ next_version_id <= MAX_VERSION_ID
      /\ chain' = [chain EXCEPT ![r] = longer]
      /\ version_count' = [version_count EXCEPT ![r] = @ + 1]
      /\ next_version_id' = next_version_id + 1
      /\ read_set' = read_set /\ committed' = committed /\ given_up' = given_up
  BY DEF mvcc_manager_create_version, historyVars
<1>3. new \in Version /\ new.version_id = next_version_id
  BY <1>1, <1>2 DEF Version, VersionStatus, MvccTypeOK
<1> HIDE DEF new
<1>4. chain[r] \in Seq(Version) /\ Len(chain[r]) \in Nat
  BY <1>1, ChainIs
<1>5. <<new>> \in Seq(Version) /\ Len(<<new>>) = 1 /\ <<new>>[1] = new
  BY <1>3
<1>6. /\ longer \in Seq(Version) /\ Len(longer) = 1 + Len(chain[r])
      /\ \A i \in 1 .. 1 + Len(chain[r]) : longer[i] = IF i <= 1 THEN <<new>>[i] ELSE chain[r][i - 1]
  BY <1>4, <1>5, ConcatProperties
<1> HIDE DEF longer
<1>7. /\ longer[1] = new
      /\ \A i \in 2 .. Len(longer) : i - 1 \in 1 .. Len(chain[r]) /\ longer[i] = chain[r][i - 1]
      /\ \A i \in 1 .. Len(chain[r]) : i + 1 \in 1 .. Len(longer) /\ longer[i + 1] = chain[r][i]
      /\ \A i \in 1 .. Len(longer) : i = 1 \/ i \in 2 .. Len(longer)
  <2>1. longer[1] = new
    BY <1>4, <1>5, <1>6
  <2>2. \A i \in 2 .. Len(longer) : i - 1 \in 1 .. Len(chain[r]) /\ longer[i] = chain[r][i - 1]
    BY <1>4, <1>6
  <2>3. ASSUME NEW i \in 1 .. Len(chain[r]) PROVE i + 1 \in 1 .. Len(longer) /\ longer[i + 1] = chain[r][i]
    <3>1. i + 1 \in 1 .. 1 + Len(chain[r]) /\ ~ i + 1 <= 1 /\ (i + 1) - 1 = i
      BY <1>4
    <3> QED
      BY <1>6, <3>1
  <2>4. \A i \in 1 .. Len(longer) : i = 1 \/ i \in 2 .. Len(longer)
    BY <1>4, <1>6
  <2> QED
    BY <2>1, <2>2, <2>3, <2>4
<1>8. chain'[r] = longer /\ \A q \in RecordIds : q # r => chain'[q] = chain[q]
  BY <1>1, <1>2 DEF MvccTypeOK
<1>9. chain' \in [RecordIds -> Seq(Version)]
  BY <1>1, <1>2, <1>6 DEF MvccTypeOK
<1>10. version_count' \in [RecordIds -> Nat] /\ CountsAgree'
  <2>1. version_count'[r] = Len(longer) /\ \A q \in RecordIds : q # r => version_count'[q] = version_count[q]
    BY <1>1, <1>2, <1>4, <1>6 DEF VInv, CountsAgree, MvccTypeOK
  <2> QED
    BY <1>1, <1>2, <1>8, <2>1 DEF VInv, CountsAgree, MvccTypeOK
<1>11. MvccTypeOK'
  BY <1>1, <1>2, <1>9, <1>10, RecordsFew DEF MvccTypeOK
<1>12. \A q \in RecordIds : \A i \in 1 .. Len(chain'[q]) :
          \/ q = r /\ i = 1 /\ chain'[q][i].version_id = next_version_id
          \/ /\ chain'[q][i].version_id < next_version_id
             /\ \E j \in 1 .. Len(chain[q]) :
                   chain[q][j].version_id = chain'[q][i].version_id /\ j = IF q = r THEN i - 1 ELSE i
  <2> SUFFICES ASSUME NEW q \in RecordIds, NEW i \in 1 .. Len(chain'[q]),
                      ~ (q = r /\ i = 1)
               PROVE  /\ chain'[q][i].version_id < next_version_id
                      /\ \E j \in 1 .. Len(chain[q]) :
                            chain[q][j].version_id = chain'[q][i].version_id
                               /\ j = IF q = r THEN i - 1 ELSE i
    BY <1>3, <1>7, <1>8
  <2>1. CASE q = r
    BY <1>7, <1>8, <2>1 DEF VInv, IdsGiven
  <2>2. CASE q # r
    BY <1>8, <2>2 DEF VInv, IdsGiven
  <2> QED
    BY <2>1, <2>2
<1>13. IdsGiven'
  <2> SUFFICES ASSUME NEW q \in RecordIds, NEW i \in 1 .. Len(chain'[q])
               PROVE  chain'[q][i].version_id < next_version_id + 1
    BY <1>2 DEF IdsGiven
  <2>1. chain'[q][i].version_id \in Nat
    <3>1. chain'[q] \in Seq(Version)
      BY <1>9
    <3>2. chain'[q][i] \in Version
      BY <3>1, ElementOfSeq
    <3> QED
      BY <1>1, <3>2 DEF Version
  <2> QED
    BY <1>1, <1>12, <2>1
<1>14. IdsFall'
  <2> SUFFICES ASSUME NEW q \in RecordIds, NEW i \in 1 .. Len(chain'[q]), NEW j \in 1 .. Len(chain'[q]), i < j
               PROVE  chain'[q][i].version_id > chain'[q][j].version_id
    BY DEF IdsFall
  <2>1. CASE q = r /\ i = 1
    BY <1>1, <1>12, <2>1
  <2>2. CASE q = r /\ i # 1
    <3>1. i \in 2 .. Len(longer) /\ j \in 2 .. Len(longer)
      BY <1>7, <1>8, <2>2
    <3>2. /\ i - 1 \in 1 .. Len(chain[r]) /\ j - 1 \in 1 .. Len(chain[r]) /\ i - 1 < j - 1
          /\ chain'[q][i] = chain[r][i - 1] /\ chain'[q][j] = chain[r][j - 1]
      BY <1>7, <1>8, <2>2, <3>1
    <3> QED
      BY <3>2 DEF VInv, IdsFall
  <2>3. CASE q # r
    BY <1>8, <2>3 DEF VInv, IdsFall
  <2> QED
    BY <2>1, <2>2, <2>3
<1>15. IdsApart'
  <2> SUFFICES ASSUME NEW q \in RecordIds, NEW p \in RecordIds,
                      NEW i \in 1 .. Len(chain'[q]), NEW j \in 1 .. Len(chain'[p]),
                      chain'[q][i].version_id = chain'[p][j].version_id
               PROVE  q = p
    BY DEF IdsApart
  <2>1. CASE (q = r /\ i = 1) \/ (p = r /\ j = 1)
    BY <1>1, <1>12, <2>1
  <2>2. CASE ~ (q = r /\ i = 1) /\ ~ (p = r /\ j = 1)
    <3>1. PICK k \in 1 .. Len(chain[q]) : chain[q][k].version_id = chain'[q][i].version_id
      BY <1>12, <2>2
    <3>2. PICK m \in 1 .. Len(chain[p]) : chain[p][m].version_id = chain'[p][j].version_id
      BY <1>12, <2>2
    <3> QED
      BY <3>1, <3>2 DEF VInv, IdsApart
  <2> QED
    BY <2>1, <2>2
<1>16. \A q \in RecordIds : \A i \in 1 .. Len(chain[q]) :
          \E j \in 1 .. Len(chain'[q]) : chain'[q][j].version_id = chain[q][i].version_id
  <2> SUFFICES ASSUME NEW q \in RecordIds, NEW i \in 1 .. Len(chain[q])
               PROVE  \E j \in 1 .. Len(chain'[q]) : chain'[q][j].version_id = chain[q][i].version_id
    OBVIOUS
  <2>1. CASE q = r
    <3>1. i + 1 \in 1 .. Len(chain'[q]) /\ chain'[q][i + 1] = chain[q][i]
      BY <1>7, <1>8, <2>1
    <3> QED
      BY <3>1
  <2>2. CASE q # r
    BY <1>8, <2>2
  <2> QED
    BY <2>1, <2>2
<1> QED
  BY <1>10, <1>11, <1>13, <1>14, <1>15, <1>16 DEF VInv

-----------------------------------------------------------------------------
(* Committing and aborting                                                 *)

LEMMA DecideKeeps ==
    ASSUME VInv, NEW id, NEW status \in VersionStatus, Decide(id, status)
    PROVE  /\ VInv'
           /\ \A q \in RecordIds : \A i \in 1 .. Len(chain[q]) :
                 \E j \in 1 .. Len(chain'[q]) : chain'[q][j].version_id = chain[q][i].version_id
<1> DEFINE new(r, i) == IF chain[r][i].version_id = id THEN [chain[r][i] EXCEPT !.status = status]
                                                       ELSE chain[r][i]
<1>1. MvccTypeOK
  BY DEF VInv
<1>2. /\ chain' = [r \in RecordIds |-> [i \in DOMAIN chain[r] |-> new(r, i)]]
      /\ UNCHANGED <<records, version_count, next_version_id, read_set, given_up>>
  BY DEF Decide
<1>3. ASSUME NEW r \in RecordIds
      PROVE  /\ chain'[r] \in Seq(Version) /\ Len(chain'[r]) = Len(chain[r])
             /\ \A i \in 1 .. Len(chain[r]) : chain'[r][i].version_id = chain[r][i].version_id
  <2>1. /\ Len(chain[r]) \in Nat /\ DOMAIN chain[r] = 1 .. Len(chain[r])
        /\ \A i \in 1 .. Len(chain[r]) : chain[r][i] \in Version
    BY <1>1, ChainIs
  <2>2. \A i \in 1 .. Len(chain[r]) : new(r, i) \in Version /\ new(r, i).version_id = chain[r][i].version_id
    <3> SUFFICES ASSUME NEW i \in 1 .. Len(chain[r])
                 PROVE  new(r, i) \in Version /\ new(r, i).version_id = chain[r][i].version_id
      OBVIOUS
    <3>1. chain[r][i] \in Version
      BY <2>1
    <3>2. CASE chain[r][i].version_id = id
      <4>1. new(r, i) = [chain[r][i] EXCEPT !.status = status]
        BY <3>2
      <4> QED
        BY <3>1, <4>1 DEF Version
    <3>3. CASE chain[r][i].version_id # id
      BY <3>1, <3>3
    <3> QED
      BY <3>2, <3>3
  <2> HIDE DEF new
  <2>3. chain'[r] = [i \in 1 .. Len(chain[r]) |-> new(r, i)]
    BY <1>2, <2>1
  <2>4. chain'[r] \in Seq(Version)
    BY <2>1, <2>2, <2>3, SeqDef
  <2>5. Len(chain'[r]) = Len(chain[r])
    BY <2>1, <2>3, <2>4, LenProperties
  <2> QED
    BY <2>2, <2>3, <2>4, <2>5
<1>4. chain' \in [RecordIds -> Seq(Version)]
  BY <1>2, <1>3
<1>5. MvccTypeOK'
  <2>1. \A r \in RecordIds : id \in Ids(r) => id \in 1 .. MAX_VERSION_ID
    BY <1>1, ChainIs DEF Ids
  <2>2. committed \in [RecordIds -> SUBSET (1 .. MAX_VERSION_ID)]
    BY <1>1 DEF MvccTypeOK
  <2>3. committed' \in [RecordIds -> SUBSET (1 .. MAX_VERSION_ID)]
    BY <2>1, <2>2 DEF Decide
  <2> QED
    BY <1>1, <1>2, <1>4, <2>3 DEF MvccTypeOK
<1>6. IdsFall'
  BY <1>3 DEF VInv, IdsFall
<1>7. IdsGiven'
  BY <1>2, <1>3 DEF VInv, IdsGiven
<1>8. IdsApart'
  BY <1>3 DEF VInv, IdsApart
<1>9. CountsAgree'
  BY <1>2, <1>3 DEF VInv, CountsAgree
<1> QED
  BY <1>3, <1>5, <1>6, <1>7, <1>8, <1>9 DEF VInv

-----------------------------------------------------------------------------
(* Collecting                                                              *)

\* What is left of a chain: its k-th version was at position at[k].
LEMMA CollectLeaves ==
    ASSUME VInv, NEW m, mvcc_manager_garbage_collect(m), NEW r \in RecordIds
    PROVE  /\ chain'[r] \in Seq(Version) /\ Len(chain'[r]) \in Nat
           /\ version_count'[r] = Len(chain'[r])
           /\ \E at : Picks(at, chain'[r], chain[r], DOMAIN chain[r] \ Collected(r, m), Len(chain[r]))
<1> DEFINE I == DOMAIN chain[r] \ Collected(r, m)
           C == Collected(r, m)
<1>1. chain[r] \in Seq(Version) /\ Len(chain[r]) \in Nat /\ DOMAIN chain[r] = 1 .. Len(chain[r])
  BY ChainIs DEF VInv
<1>2. chain'[r] = Selection(chain[r], I) /\ version_count'[r] = version_count[r] - Cardinality(C)
  BY DEF mvcc_manager_garbage_collect
<1>3. /\ Selection(chain[r], I) \in Seq(Version)
      /\ \E at : Picks(at, Selection(chain[r], I), chain[r], I, Len(chain[r]))
  BY <1>1, SelectionIs
<1>4. C \subseteq 1 .. Len(chain[r])
  BY <1>1 DEF Collected
<1> HIDE DEF I, C
<1>5. PICK at : Picks(at, chain'[r], chain[r], I, Len(chain[r]))
  BY <1>2, <1>3
<1>6. chain'[r] \in Seq(Version)
  BY <1>2, <1>3
<1>7. Len(chain'[r]) = Cardinality(I \cap (1 .. Len(chain[r])))
  BY <1>1, <1>5, <1>6, PicksCount
<1>8. I \cap (1 .. Len(chain[r])) = (1 .. Len(chain[r])) \ C
  BY <1>1 DEF I, C
<1>9. /\ IsFiniteSet(1 .. Len(chain[r])) /\ Cardinality(1 .. Len(chain[r])) = Len(chain[r])
      /\ (1 .. Len(chain[r])) \cap C = C
  <2>1. IsFiniteSet(1 .. Len(chain[r])) /\ Cardinality(1 .. Len(chain[r])) = Len(chain[r])
    BY <1>1, FS_Interval
  <2> QED
    BY <1>4, <2>1
<1>10. Cardinality((1 .. Len(chain[r])) \ C) = Len(chain[r]) - Cardinality(C)
  <2> DEFINE U == 1 .. Len(chain[r])
  <2>1. IsFiniteSet(U) /\ Cardinality(U) = Len(chain[r]) /\ U \cap C = C
    BY <1>9
  <2> HIDE DEF U
  <2>2. Cardinality(U \ C) = Cardinality(U) - Cardinality(U \cap C)
    BY <2>1, FS_Difference, ZenonT(30)
  <2>3. Cardinality(U \ C) = Len(chain[r]) - Cardinality(C)
    BY <2>1, <2>2
  <2> QED
    BY <2>3 DEF U
<1>11. version_count[r] = Len(chain[r])
  BY DEF VInv, CountsAgree
<1>12. Len(chain'[r]) \in Nat
  BY <1>6, LenProperties
<1> QED
  BY <1>2, <1>5, <1>6, <1>7, <1>8, <1>10, <1>11, <1>12 DEF I, C

LEMMA CollectKeeps ==
    ASSUME VInv, NEW m, mvcc_manager_garbage_collect(m)
    PROVE  VInv'
<1>1. MvccTypeOK
  BY DEF VInv
<1>2. UNCHANGED <<records, next_version_id, read_set, committed>>
  BY DEF mvcc_manager_garbage_collect
<1>3. \A r \in RecordIds : Len(chain[r]) \in Nat /\ \A i \in 1 .. Len(chain[r]) : chain[r][i].version_id \in Nat
  BY <1>1, ChainIs
<1>4. ASSUME NEW r \in RecordIds
      PROVE  /\ \A i \in 1 .. Len(chain'[r]) : \E k \in 1 .. Len(chain[r]) : chain'[r][i] = chain[r][k]
             /\ \A i, j \in 1 .. Len(chain'[r]) :
                   i < j => chain'[r][i].version_id > chain'[r][j].version_id
  <2>1. PICK at : Picks(at, chain'[r], chain[r], DOMAIN chain[r] \ Collected(r, m), Len(chain[r]))
    BY CollectLeaves
  <2>2. \A i \in 1 .. Len(chain'[r]) : at[i] \in 1 .. Len(chain[r]) /\ chain'[r][i] = chain[r][at[i]]
    BY <2>1 DEF Picks
  <2>3. \A i, j \in 1 .. Len(chain'[r]) : i < j => at[i] < at[j]
    BY <2>1 DEF Picks
  <2> QED
    BY <2>2, <2>3 DEF VInv, IdsFall
<1>5. IdsFall'
  BY <1>4 DEF IdsFall
<1>6. IdsGiven'
  BY <1>2, <1>4 DEF VInv, IdsGiven
<1>7. IdsApart'
  <2> SUFFICES ASSUME NEW r \in RecordIds, NEW q \in RecordIds,
                      NEW i \in 1 .. Len(chain'[r]), NEW j \in 1 .. Len(chain'[q]),
                      chain'[r][i].version_id = chain'[q][j].version_id
               PROVE  r = q
    BY DEF IdsApart
  <2>1. PICK k \in 1 .. Len(chain[r]) : chain'[r][i] = chain[r][k]
    BY <1>4
  <2>2. PICK l \in 1 .. Len(chain[q]) : chain'[q][j] = chain[q][l]
    BY <1>4
  <2> QED
    BY <2>1, <2>2 DEF VInv, IdsApart
<1>8. CountsAgree'
  BY CollectLeaves DEF CountsAgree
<1>9. MvccTypeOK'
  <2>1. /\ chain' = [r \in RecordIds |-> chain'[r]]
        /\ version_count' = [r \in RecordIds |-> version_count'[r]]
    BY DEF mvcc_manager_garbage_collect
  <2>2. \A r \in RecordIds : chain'[r] \in Seq(Version) /\ version_count'[r] \in Nat
    BY CollectLeaves
  <2>3. chain' \in [RecordIds -> Seq(Version)] /\ version_count' \in [RecordIds -> Nat]
    BY <2>1, <2>2
  <2>4. given_up' \subseteq 1 .. MAX_VERSION_ID
    <3>1. \A r \in RecordIds : \A i \in CommittedAt(r) : chain[r][i].version_id \in 1 .. MAX_VERSION_ID
      BY <1>1, ChainIs DEF CommittedAt
    <3> DEFINE old(r) == {chain[r][i].version_id : i \in {j \in CommittedAt(r) : OlderThanActive(chain[r][j])}}
    <3>2. \A r \in RecordIds : old(r) \subseteq 1 .. MAX_VERSION_ID
      BY <3>1
    <3>3. given_up' = given_up \cup UNION {old(r) : r \in RecordIds}
      BY DEF mvcc_manager_garbage_collect
    <3>4. given_up \subseteq 1 .. MAX_VERSION_ID
      BY <1>1 DEF MvccTypeOK
    <3> HIDE DEF old
    <3> QED
      BY <3>2, <3>3, <3>4
  <2> QED
    BY <1>1, <1>2, <2>3, <2>4 DEF MvccTypeOK
<1> QED
  BY <1>5, <1>6, <1>7, <1>8, <1>9 DEF VInv

\* A version that is not collected is still there.
LEMMA CollectSpares ==
    ASSUME VInv, NEW m, mvcc_manager_garbage_collect(m),
           NEW r \in RecordIds, NEW i \in 1 .. Len(chain[r]), ~ IsCollected(chain[r][i], m)
    PROVE  \E j \in 1 .. Len(chain'[r]) : chain'[r][j].version_id = chain[r][i].version_id
<1>1. DOMAIN chain[r] = 1 .. Len(chain[r])
  BY ChainIs DEF VInv
<1>2. i \in DOMAIN chain[r] \ Collected(r, m)
  BY <1>1 DEF Collected
<1>3. PICK at : Picks(at, chain'[r], chain[r], DOMAIN chain[r] \ Collected(r, m), Len(chain[r]))
  BY CollectLeaves
<1>4. PICK j \in 1 .. Len(chain'[r]) : at[j] = i
  BY <1>2, <1>3 DEF Picks
<1> QED
  BY <1>3, <1>4 DEF Picks

-----------------------------------------------------------------------------
(* The theorems                                                            *)

LEMMA MinIs ==
    ASSUME NEW T, T \subseteq Nat, T # {}
    PROVE  Min(T) \in T /\ \A n \in T : Min(T) <= n
BY Least DEF Min

\* A read set holds identifiers, and getting or releasing one changes nothing else.
LEMMA ReadSetKeeps ==
    ASSUME VInv, NEW t \in Txns, mvcc_manager_get_read_set(t) \/ Release(t)
    PROVE  VInv' /\ UNCHANGED <<records, chain, version_count, next_version_id, historyVars>>
<1>1. UNCHANGED <<records, chain, version_count, next_version_id, historyVars>>
  BY DEF mvcc_manager_get_read_set, Release
<1>2. read_set \in [Txns -> SUBSET (1 .. MAX_VERSION_ID)] /\ records \in Seq(RecordIds)
  BY DEF VInv, MvccTypeOK
<1>3. ASSUME NEW p \in CommittedPlaces
      PROVE  chain[records[p[1]]][p[2]].version_id \in 1 .. MAX_VERSION_ID
  <2>1. PICK k \in DOMAIN records : p \in {k} \X CommittedAt(records[k])
    BY DEF CommittedPlaces
  <2>2. records[k] \in RecordIds
    BY <1>2, <2>1
  <2>3. p[1] = k /\ p[2] \in CommittedAt(records[k])
    BY <2>1
  <2>4. p[2] \in 1 .. Len(chain[records[k]])
    BY <2>2, <2>3, ChainIs DEF CommittedAt, VInv
  <2> QED
    BY <2>2, <2>3, <2>4, ChainIs DEF VInv
<1>4. read_set' \in [Txns -> SUBSET (1 .. MAX_VERSION_ID)]
  <2>1. CASE mvcc_manager_get_read_set(t)
    <3> DEFINE found == {chain[records[p[1]]][p[2]].version_id :
                 p \in {q \in CommittedPlaces :
                          Cardinality({o \in CommittedPlaces : FoundBefore(o, q)}) < MAX_VERSIONS}}
    <3>1. found \subseteq 1 .. MAX_VERSION_ID
      BY <1>3
    <3>2. read_set' = [read_set EXCEPT ![t] = found]
      BY <2>1 DEF mvcc_manager_get_read_set
    <3> HIDE DEF found
    <3> QED
      BY <1>2, <3>1, <3>2
  <2>2. CASE Release(t)
    BY <1>2, <2>2 DEF Release
  <2> QED
    BY <2>1, <2>2
<1> QED
  BY <1>1, <1>4 DEF VInv, MvccTypeOK, IdsFall, IdsGiven, IdsApart, CountsAgree, historyVars

LEMMA Inductive == MvccSpec => []VInv
<1>1. MvccInit => VInv
  <2> SUFFICES ASSUME MvccInit PROVE VInv
    OBVIOUS
  <2>1. \A r \in RecordIds : chain[r] = << >> /\ << >> \in Seq(Version) /\ Len(<< >>) = 0
    BY DEF MvccInit
  <2>2. MvccTypeOK
    <3>1. records \in Seq(RecordIds) /\ Len(records) <= MAX_RECORDS
      BY MvccConstants DEF MvccInit
    <3> QED
      BY <2>1, <3>1, MvccConstants DEF MvccInit, MvccTypeOK
  <2>3. IdsFall /\ IdsGiven /\ IdsApart /\ CountsAgree
    BY <2>1 DEF MvccInit, IdsFall, IdsGiven, IdsApart, CountsAgree
  <2> QED
    BY <2>2, <2>3 DEF VInv
<1>2. VInv /\ [MvccNext]_mvccVars => VInv'
  <2> SUFFICES ASSUME VInv, [MvccNext]_mvccVars PROVE VInv'
    OBVIOUS
  <2>1. ASSUME NEW r \in RecordIds, NEW t \in Txns, mvcc_manager_create_version(r, t) PROVE VInv'
    BY <2>1, CreateKeeps
  <2>2. ASSUME NEW id, mvcc_manager_commit_version(id) \/ mvcc_manager_abort_version(id) PROVE VInv'
    <3>1. {"COMMITTED", "ABORTED"} \subseteq VersionStatus
      BY DEF VersionStatus
    <3> QED
      BY <2>2, <3>1, DecideKeeps DEF mvcc_manager_commit_version, mvcc_manager_abort_version
  <2>3. ASSUME NEW t \in Txns, mvcc_manager_get_read_set(t) \/ Release(t) PROVE VInv'
    BY <2>3, ReadSetKeeps
  <2>4. CASE mvcc_manager_garbage_collect(MinActive)
    BY <2>4, CollectKeeps
  <2>5. CASE UNCHANGED mvccVars
    BY <2>5 DEF VInv, MvccTypeOK, IdsFall, IdsGiven, IdsApart, CountsAgree, mvccVars, historyVars
  <2> QED
    BY <2>1, <2>2, <2>3, <2>4, <2>5 DEF MvccNext
<1> QED
  BY <1>1, <1>2, PTL DEF MvccSpec

\* The variables keep their types, and each record's version_count is the length
\* of its chain whatever was collected (mvcc.c:53-234).
THEOREM TypeCorrect == MvccSpec => [](MvccTypeOK /\ CountsAgree)
<1>1. VInv => MvccTypeOK /\ CountsAgree
  BY DEF VInv
<1> QED
  BY <1>1, Inductive, PTL

\* The bound the collector is given is not above any active transaction.
LEMMA MinActiveIs ==
    /\ MinActive \in Nat
    /\ \A t \in Txns : Active(t) => MinActive <= t
<1> DEFINE T == {MAX_TXN + 1} \cup {s \in Txns : Active(s)}
<1>1. T \subseteq Nat /\ T # {}
  BY MvccConstants DEF Txns
<1> HIDE DEF T
<1>2. Min(T) \in Nat /\ \A n \in T : Min(T) <= n
  BY <1>1, MinIs
<1> QED
  BY <1>2 DEF MinActive, T

-----------------------------------------------------------------------------
(* What a read finds, against all that was committed                       *)

\* A version in a chain is committed exactly if the history says so.
HistoryIsKnown ==
    \A r \in RecordIds :
        /\ \A i \in 1 .. Len(chain[r]) :
              chain[r][i].status = "COMMITTED" <=> chain[r][i].version_id \in committed[r]
        /\ \A id \in committed[r] : id < next_version_id

\* What was committed and is gone was given up.
FreedWereGivenUp ==
    \A r \in RecordIds : \A id \in committed[r] :
        id \in given_up \/ \E i \in 1 .. Len(chain[r]) : chain[r][i].version_id = id

HInv == VInv /\ HistoryIsKnown /\ FreedWereGivenUp

LEMMA CreateKnown ==
    ASSUME HInv, NEW r \in RecordIds, NEW t \in Txns, mvcc_manager_create_version(r, t)
    PROVE  HInv'
<1>1. VInv /\ MvccTypeOK
  BY DEF HInv, VInv
<1>2. /\ VInv'
      /\ \A q \in RecordIds : \A i \in 1 .. Len(chain[q]) :
            \E j \in 1 .. Len(chain'[q]) : chain'[q][j].version_id = chain[q][i].version_id
  BY <1>1, CreateKeeps
<1> DEFINE new == [version_id |-> next_version_id, txn_id |-> t, status |-> "ACTIVE"]
<1>3. /\ chain' = [chain EXCEPT ![r] = <<new>> \o @]
      /\ next_version_id' = next_version_id + 1 /\ committed' = committed /\ given_up' = given_up
  BY DEF mvcc_manager_create_version, historyVars
<1>4. /\ next_version_id \in Nat
      /\ \A q \in RecordIds : \A id \in committed[q] : id \in Nat /\ id < next_version_id
  <2>1. next_version_id \in Nat /\ \A q \in RecordIds : committed[q] \subseteq Nat
    BY <1>1, MvccConstants DEF MvccTypeOK
  <2> QED
    BY <2>1 DEF HInv, HistoryIsKnown
<1>5. ASSUME NEW q \in RecordIds, NEW i \in 1 .. Len(chain'[q])
      PROVE  chain'[q][i].status = "COMMITTED" <=> chain'[q][i].version_id \in committed[q]
  <2>1. CASE q # r
    <3>1. chain'[q] = chain[q]
      BY <1>1, <1>3, <2>1 DEF MvccTypeOK
    <3> QED
      BY <3>1 DEF HInv, HistoryIsKnown
  <2>2. CASE q = r
    <3> HIDE DEF new
    <3>1. chain'[r] = <<new>> \o chain[r] /\ chain[r] \in Seq(Version) /\ Len(chain[r]) \in Nat
      BY <1>1, <1>3, ChainIs DEF MvccTypeOK
    <3>2. new \in Version
      BY <1>1 DEF new, Version, VersionStatus, MvccTypeOK, mvcc_manager_create_version
    <3>3. <<new>> \in Seq(Version) /\ Len(<<new>>) = 1 /\ <<new>>[1] = new
      BY <3>2
    <3>4. /\ Len(chain'[r]) = 1 + Len(chain[r])
          /\ chain'[r][i] = IF i <= 1 THEN <<new>>[i] ELSE chain[r][i - 1]
      BY <2>2, <3>1, <3>3, ConcatProperties
    <3>5. CASE i = 1
      <4>1. chain'[q][i] = new
        BY <2>2, <3>3, <3>4, <3>5
      <4>2. new.status # "COMMITTED" /\ new.version_id = next_version_id
        BY DEF new
      <4> QED
        BY <1>4, <4>1, <4>2
    <3>6. CASE i # 1
      <4>1. i - 1 \in 1 .. Len(chain[r]) /\ chain'[q][i] = chain[r][i - 1]
        BY <2>2, <3>1, <3>4, <3>6
      <4> QED
        BY <2>2, <4>1 DEF HInv, HistoryIsKnown
    <3> QED
      BY <3>5, <3>6
  <2> QED
    BY <2>1, <2>2
<1>6. HistoryIsKnown'
  <2>1. committed' = committed
    BY <1>3
  <2>2. \A q \in RecordIds : \A id \in committed'[q] : id < next_version_id'
    BY <1>3, <1>4
  <2>3. \A q \in RecordIds : \A i \in 1 .. Len(chain'[q]) :
           chain'[q][i].status = "COMMITTED" <=> chain'[q][i].version_id \in committed'[q]
    BY <1>5, <2>1
  <2> QED
    BY <2>2, <2>3 DEF HistoryIsKnown
<1>7. FreedWereGivenUp'
  <2> SUFFICES ASSUME NEW q \in RecordIds, NEW id \in committed[q], id \notin given_up
               PROVE  \E j \in 1 .. Len(chain'[q]) : chain'[q][j].version_id = id
    BY <1>3 DEF FreedWereGivenUp
  <2>1. PICK i \in 1 .. Len(chain[q]) : chain[q][i].version_id = id
    BY DEF HInv, FreedWereGivenUp
  <2> QED
    BY <1>2, <2>1
<1> QED
  BY <1>2, <1>6, <1>7 DEF HInv

LEMMA DecideKnown ==
    ASSUME HInv, NEW id, NEW status \in {"COMMITTED", "ABORTED"}, Decide(id, status)
    PROVE  HInv'
<1>1. VInv /\ MvccTypeOK /\ status \in VersionStatus
  BY DEF HInv, VInv, VersionStatus
<1>2. VInv'
  BY <1>1, DecideKeeps
<1>3. /\ chain' = [r \in RecordIds |->
                     [i \in DOMAIN chain[r] |->
                        IF chain[r][i].version_id = id THEN [chain[r][i] EXCEPT !.status = status]
                                                       ELSE chain[r][i]]]
      /\ next_version_id' = next_version_id /\ given_up' = given_up
  BY DEF Decide
<1>4. \A r \in RecordIds :
         committed'[r] = IF id \notin Ids(r) THEN committed[r]
                         ELSE IF status = "COMMITTED" THEN committed[r] \cup {id}
                         ELSE committed[r] \ {id}
  BY DEF Decide
<1>5. ASSUME NEW r \in RecordIds
      PROVE  /\ Len(chain[r]) \in Nat /\ DOMAIN chain[r] = 1 .. Len(chain[r])
             /\ Len(chain'[r]) = Len(chain[r])
             /\ \A i \in 1 .. Len(chain[r]) :
                   /\ chain'[r][i].version_id = chain[r][i].version_id
                   /\ chain'[r][i].status = IF chain[r][i].version_id = id THEN status ELSE chain[r][i].status
  <2>1. /\ Len(chain[r]) \in Nat /\ DOMAIN chain[r] = 1 .. Len(chain[r])
        /\ \A i \in 1 .. Len(chain[r]) : chain[r][i] \in Version
    BY <1>1, ChainIs
  <2>2. chain'[r] = [i \in 1 .. Len(chain[r]) |->
                        IF chain[r][i].version_id = id THEN [chain[r][i] EXCEPT !.status = status]
                                                       ELSE chain[r][i]]
    BY <1>3, <2>1
  <2>3. chain'[r] \in Seq(Version)
    BY <1>2 DEF VInv, MvccTypeOK
  <2>4. Len(chain'[r]) = Len(chain[r])
    BY <2>1, <2>2, <2>3, LenProperties
  <2>5. ASSUME NEW i \in 1 .. Len(chain[r])
        PROVE  /\ chain'[r][i].version_id = chain[r][i].version_id
               /\ chain'[r][i].status = IF chain[r][i].version_id = id THEN status ELSE chain[r][i].status
    <3>1. chain[r][i] \in Version
      BY <2>1
    <3>2. CASE chain[r][i].version_id = id
      <4>1. chain'[r][i] = [chain[r][i] EXCEPT !.status = status]
        BY <2>2, <3>2
      <4> QED
        BY <3>1, <3>2, <4>1 DEF Version
    <3>3. CASE chain[r][i].version_id # id
      BY <2>2, <3>3
    <3> QED
      BY <3>2, <3>3
  <2> QED
    BY <2>1, <2>4, <2>5
<1>6. ASSUME NEW r \in RecordIds PROVE id \in Ids(r) <=> \E i \in 1 .. Len(chain[r]) : chain[r][i].version_id = id
  BY <1>5 DEF Ids
<1>7. HistoryIsKnown'
  <2> SUFFICES ASSUME NEW r \in RecordIds
               PROVE  /\ \A i \in 1 .. Len(chain'[r]) :
                            chain'[r][i].status = "COMMITTED" <=> chain'[r][i].version_id \in committed'[r]
                      /\ \A n \in committed'[r] : n < next_version_id'
    BY DEF HistoryIsKnown
  <2>1. ASSUME NEW i \in 1 .. Len(chain[r])
        PROVE  chain'[r][i].status = "COMMITTED" <=> chain[r][i].version_id \in committed'[r]
    <3>1. chain[r][i].status = "COMMITTED" <=> chain[r][i].version_id \in committed[r]
      BY DEF HInv, HistoryIsKnown
    <3>2. CASE chain[r][i].version_id = id
      <4>1. id \in Ids(r) /\ chain'[r][i].status = status
        BY <1>5, <1>6, <3>2
      <4> QED
        BY <1>4, <3>2, <4>1
    <3>3. CASE chain[r][i].version_id # id
      <4>1. chain'[r][i].status = chain[r][i].status
        BY <1>5, <3>3
      <4> QED
        BY <1>4, <3>1, <3>3, <4>1
    <3> QED
      BY <3>2, <3>3
  <2>2. \A n \in committed'[r] : n < next_version_id'
    <3>1. \A n \in committed[r] : n < next_version_id
      BY DEF HInv, HistoryIsKnown
    <3>2. id \in Ids(r) => id < next_version_id
      BY <1>1, <1>6 DEF VInv, IdsGiven
    <3> QED
      BY <1>3, <1>4, <3>1, <3>2
  <2> QED
    BY <1>5, <2>1, <2>2
<1>8. FreedWereGivenUp'
  <2> SUFFICES ASSUME NEW r \in RecordIds, NEW n \in committed'[r], n \notin given_up
               PROVE  \E i \in 1 .. Len(chain'[r]) : chain'[r][i].version_id = n
    BY <1>3 DEF FreedWereGivenUp
  <2>1. \E i \in 1 .. Len(chain[r]) : chain[r][i].version_id = n
    <3>1. n \in committed[r] \/ (n = id /\ id \in Ids(r))
      <4>1. CASE id \notin Ids(r)
        BY <1>4, <4>1
      <4>2. CASE id \in Ids(r) /\ status = "COMMITTED"
        <5>1. committed'[r] = committed[r] \cup {id}
          BY <1>4, <4>2
        <5> QED
          BY <4>2, <5>1
      <4>3. CASE id \in Ids(r) /\ status # "COMMITTED"
        BY <1>4, <4>3
      <4> QED
        BY <4>1, <4>2, <4>3
    <3> QED
      BY <1>6, <3>1 DEF HInv, FreedWereGivenUp
  <2> QED
    BY <1>5, <2>1
<1> QED
  BY <1>2, <1>7, <1>8 DEF HInv

LEMMA CollectKnown ==
    ASSUME HInv, mvcc_manager_garbage_collect(MinActive)
    PROVE  HInv'
<1>1. VInv /\ MvccTypeOK
  BY DEF HInv, VInv
<1>2. VInv'
  BY <1>1, CollectKeeps
<1>3. /\ next_version_id' = next_version_id /\ committed' = committed
      /\ given_up \subseteq given_up'
      /\ \A r \in RecordIds : \A i \in CommittedAt(r) :
            OlderThanActive(chain[r][i]) => chain[r][i].version_id \in given_up'
  BY DEF mvcc_manager_garbage_collect
<1>4. HistoryIsKnown'
  <2> SUFFICES ASSUME NEW r \in RecordIds, NEW i \in 1 .. Len(chain'[r])
               PROVE  chain'[r][i].status = "COMMITTED" <=> chain'[r][i].version_id \in committed[r]
    BY <1>3 DEF HInv, HistoryIsKnown
  <2>1. PICK at : Picks(at, chain'[r], chain[r], DOMAIN chain[r] \ Collected(r, MinActive), Len(chain[r]))
    BY <1>1, CollectLeaves
  <2>2. at[i] \in 1 .. Len(chain[r]) /\ chain'[r][i] = chain[r][at[i]]
    BY <2>1 DEF Picks
  <2> QED
    BY <2>2 DEF HInv, HistoryIsKnown
<1>5. FreedWereGivenUp'
  <2> SUFFICES ASSUME NEW r \in RecordIds, NEW id \in committed[r], id \notin given_up'
               PROVE  \E j \in 1 .. Len(chain'[r]) : chain'[r][j].version_id = id
    BY <1>3 DEF FreedWereGivenUp
  <2>1. PICK i \in 1 .. Len(chain[r]) : chain[r][i].version_id = id
    BY <1>3 DEF HInv, FreedWereGivenUp
  <2>2. chain[r][i].status = "COMMITTED" /\ i \in CommittedAt(r)
    BY <1>1, <2>1, ChainIs DEF HInv, HistoryIsKnown, CommittedAt
  <2>3. PICK t \in Txns : Active(t) /\ ~ chain[r][i].txn_id < t
    BY <1>3, <2>1, <2>2 DEF OlderThanActive
  <2>4. chain[r][i].txn_id \in Nat /\ t \in Nat
    BY <1>1, ChainIs DEF Txns
  <2>5. ~ IsCollected(chain[r][i], MinActive)
    BY <2>2, <2>3, <2>4, MinActiveIs DEF IsCollected
  <2> QED
    BY <1>1, <2>1, <2>5, CollectSpares
<1> QED
  BY <1>2, <1>4, <1>5 DEF HInv

LEMMA HistoryHolds == MvccSpec => []HInv
<1>1. MvccInit /\ VInv => HInv
  BY DEF MvccInit, HInv, HistoryIsKnown, FreedWereGivenUp
<1>2. HInv /\ [MvccNext]_mvccVars => HInv'
  <2> SUFFICES ASSUME HInv, [MvccNext]_mvccVars PROVE HInv'
    OBVIOUS
  <2>1. ASSUME NEW r \in RecordIds, NEW t \in Txns, mvcc_manager_create_version(r, t) PROVE HInv'
    BY <2>1, CreateKnown
  <2>2. ASSUME NEW id, mvcc_manager_commit_version(id) \/ mvcc_manager_abort_version(id) PROVE HInv'
    BY <2>2, DecideKnown DEF mvcc_manager_commit_version, mvcc_manager_abort_version
  <2>3. ASSUME NEW t \in Txns, mvcc_manager_get_read_set(t) \/ Release(t) PROVE HInv'
    <3>1. VInv' /\ UNCHANGED <<records, chain, version_count, next_version_id, historyVars>>
      BY <2>3, ReadSetKeeps DEF HInv
    <3> QED
      BY <3>1 DEF HInv, HistoryIsKnown, FreedWereGivenUp, historyVars
  <2>4. CASE mvcc_manager_garbage_collect(MinActive)
    BY <2>4, CollectKnown
  <2>5. CASE UNCHANGED mvccVars
    <3>1. VInv'
      BY <2>5 DEF HInv, VInv, MvccTypeOK, IdsFall, IdsGiven, IdsApart, CountsAgree, mvccVars, historyVars
    <3>2. UNCHANGED <<chain, next_version_id, committed, given_up>>
      BY <2>5 DEF mvccVars, historyVars
    <3> QED
      BY <3>1, <3>2 DEF HInv, HistoryIsKnown, FreedWereGivenUp
  <2> QED
    BY <2>1, <2>2, <2>3, <2>4, <2>5 DEF MvccNext
<1> QED
  BY <1>1, <1>2, Inductive, PTL DEF MvccSpec

\* A read, which takes the first committed version it meets, finds the newest of all
\* that were ever committed for its record, but for those that the collector met when
\* their transactions were older than every active one; and no version is in two
\* chains (mvcc_manager_read_version, mvcc.c:96-114, mvcc_manager_garbage_collect).
THEOREM NewestIsRead == MvccSpec => []ReadReturnsNewest
<1>1. HInv => ReadReturnsNewest
  <2> SUFFICES ASSUME HInv PROVE ReadReturnsNewest
    OBVIOUS
  <2>1. ASSUME NEW r \in RecordIds, NEW q \in RecordIds, r # q PROVE Ids(r) \cap Ids(q) = {}
    <3>1. DOMAIN chain[r] = 1 .. Len(chain[r]) /\ DOMAIN chain[q] = 1 .. Len(chain[q])
      BY ChainIs DEF HInv, VInv
    <3> QED
      BY <2>1, <3>1 DEF Ids, HInv, VInv, IdsApart
  <2>2. ASSUME NEW r \in RecordIds
        PROVE  /\ mvcc_manager_read_version(r) \in committed[r] \cup {0}
               /\ \A id \in committed[r] : id > mvcc_manager_read_version(r) => id \in given_up
    <3>1. /\ CommittedAt(r) \subseteq 1 .. Len(chain[r]) /\ CommittedAt(r) \subseteq Nat
          /\ \A i \in 1 .. Len(chain[r]) : chain[r][i].version_id \in Nat
      BY ChainIs DEF HInv, VInv, CommittedAt
    <3>2. \A id \in committed[r] :
             id \in given_up \/ \E i \in CommittedAt(r) : chain[r][i].version_id = id
      <4> SUFFICES ASSUME NEW id \in committed[r], id \notin given_up
                   PROVE  \E i \in CommittedAt(r) : chain[r][i].version_id = id
        OBVIOUS
      <4>1. PICK i \in 1 .. Len(chain[r]) : chain[r][i].version_id = id
        BY DEF HInv, FreedWereGivenUp
      <4>2. DOMAIN chain[r] = 1 .. Len(chain[r])
        BY ChainIs DEF HInv, VInv
      <4> QED
        BY <4>1, <4>2 DEF HInv, HistoryIsKnown, CommittedAt
    <3>3. CASE CommittedAt(r) = {}
      BY <3>2, <3>3 DEF mvcc_manager_read_version
    <3>4. CASE CommittedAt(r) # {}
      <4> DEFINE first == Min(CommittedAt(r))
      <4>1. first \in CommittedAt(r) /\ \A i \in CommittedAt(r) : first <= i
        BY <3>1, <3>4, MinIs
      <4>2. mvcc_manager_read_version(r) = chain[r][first].version_id
        BY <3>4 DEF mvcc_manager_read_version
      <4> HIDE DEF first
      <4>3. ASSUME NEW i \in CommittedAt(r) PROVE ~ chain[r][i].version_id > chain[r][first].version_id
        <5>1. CASE first = i
          BY <3>1, <5>1
        <5>2. CASE first < i
          BY <3>1, <4>1, <5>2 DEF HInv, VInv, IdsFall
        <5> QED
          BY <3>1, <4>1, <5>1, <5>2
      <4>4. chain[r][first].version_id \in committed[r]
        BY <3>1, <4>1 DEF HInv, HistoryIsKnown, CommittedAt
      <4> QED
        BY <3>2, <4>2, <4>3, <4>4
    <3> QED
      BY <3>3, <3>4
  <2> QED
    BY <2>1, <2>2 DEF ReadReturnsNewest
<1> QED
  BY <1>1, HistoryHolds, PTL

\* No step takes a version from a transaction that has one to decide, but an
\* aborted one: what the collector is told keeps it from the others
\* (mvcc_manager_garbage_collect, mvcc.c:202-234).
THEOREM WritersAreSpared == MvccSpec => WritersKeepTheirVersions
<1>1. VInv /\ [MvccNext]_mvccVars =>
         [\A t \in Txns : Undecided(t) =>
            \A r \in RecordIds : \A i \in DOMAIN chain[r] :
               chain[r][i].txn_id = t /\ chain[r][i].status # "ABORTED"
                  => chain[r][i].version_id \in Ids(r)']_mvccVars
  <2> SUFFICES ASSUME VInv, MvccNext, NEW t \in Txns, Undecided(t),
                      NEW r \in RecordIds, NEW i \in DOMAIN chain[r],
                      chain[r][i].txn_id = t, chain[r][i].status # "ABORTED"
               PROVE  chain[r][i].version_id \in Ids(r)'
    OBVIOUS
  <2>1. i \in 1 .. Len(chain[r])
    BY ChainIs DEF VInv
  <2>2. ASSUME VInv', \E j \in 1 .. Len(chain'[r]) : chain'[r][j].version_id = chain[r][i].version_id
        PROVE  chain[r][i].version_id \in Ids(r)'
    <3>1. chain'[r] \in Seq(Version)
      BY <2>2 DEF VInv, MvccTypeOK
    <3>2. DOMAIN chain'[r] = 1 .. Len(chain'[r])
      BY <3>1, LenProperties
    <3> QED
      BY <2>2, <3>2 DEF Ids
  <2>3. ASSUME NEW q \in RecordIds, NEW s \in Txns, mvcc_manager_create_version(q, s)
        PROVE  chain[r][i].version_id \in Ids(r)'
    BY <2>1, <2>2, <2>3, CreateKeeps
  <2>4. ASSUME NEW id, mvcc_manager_commit_version(id) \/ mvcc_manager_abort_version(id)
        PROVE  chain[r][i].version_id \in Ids(r)'
    <3>1. {"COMMITTED", "ABORTED"} \subseteq VersionStatus
      BY DEF VersionStatus
    <3> QED
      BY <2>1, <2>2, <2>4, <3>1, DecideKeeps DEF mvcc_manager_commit_version, mvcc_manager_abort_version
  <2>5. CASE UNCHANGED chain
    BY <2>5 DEF Ids
  <2>6. CASE mvcc_manager_garbage_collect(MinActive)
    <3>3. MinActive \in Nat /\ MinActive <= t
      BY MinActiveIs DEF Active
    <3>4. ~ IsCollected(chain[r][i], MinActive)
      BY <3>3 DEF IsCollected, Txns
    <3> QED
      BY <2>1, <2>2, <2>6, <3>4, CollectKeeps, CollectSpares
  <2> QED
    BY <2>3, <2>4, <2>5, <2>6 DEF MvccNext, mvcc_manager_get_read_set, Release
<1> QED
  BY <1>1, Inductive, PTL DEF MvccSpec, WritersKeepTheirVersions
=============================================================================
