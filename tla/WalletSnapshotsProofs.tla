----------------------- MODULE WalletSnapshotsProofs -----------------------
(***************************************************************************)
(* The stored snapshot is whole and saved in one step, for any tokens,      *)
(* portfolios and TTL and any finite number of overlapping requests.        *)
(***************************************************************************)
EXTENDS WalletSnapshots, FiniteSetTheorems, SequenceTheorems, TLAPS

-----------------------------------------------------------------------------
Pending == {r \in Request : pc[r] \in {"readFresh", "fetch"}}

\* There is a time left for every request that may still fetch.
RoomOK == clock + Cardinality(Pending) <= MaxTime

\* A portfolio has been fetched and is not yet committed.
Saves == {"delete", "deleteWaits", "insert", "saveMeta", "commit"}
Saving(r) == pc[r] \in Saves

InTransaction(r) == pc[r] \in {"insert", "saveMeta", "commit"}

\* The time of a fetch is its own: neither a row nor another save has it.
TimesOK ==
  /\ meta # None => meta <= clock
  /\ \A x \in rows : x.at <= clock
  /\ \A r \in Request : \A x \in seen[r] : x.at <= clock
  /\ \A r \in Request : Saving(r) =>
       /\ fetched[r] <= clock /\ fetched[r] # meta
       /\ \A x \in rows : x.at # fetched[r]
       /\ \A q \in Request : \A x \in seen[q] : x.at # fetched[r]
       /\ \A q \in Request \ {r} : Saving(q) => fetched[q] # fetched[r]

Elements(s) == {s[i] : i \in DOMAIN s}

\* What is inserted and what is left to insert make up the portfolio.
SaveOK(r) ==
  /\ Saving(r) => answered[fetched[r]] = KeysOf(inserted[r]) \cup Elements(tokens[r])
  /\ \A x \in inserted[r] : x.at = fetched[r]
  /\ pc[r] = "insert" => tokens[r] # <<>>
  /\ pc[r] \in {"saveMeta", "commit"} => tokens[r] = <<>>
  /\ ~InTransaction(r) => deleted[r] = {} /\ inserted[r] = {}

SavesOK == \A r \in Request : SaveOK(r)

\* Of the rows of one fetch a transaction deletes all or none, and finds
\* all or none of those still there.
Whole(some) == \A x \in some \cap rows, y \in rows : x.at = y.at => y \in some

\* What the locks are for: no row is deleted twice, no key inserted twice.
LocksOK ==
  \A r \in Request :
    /\ deleted[r] \subseteq rows
    /\ Whole(deleted[r]) /\ Whole(seen[r])
    /\ \A x \in inserted[r], y \in rows \ deleted[r] : x.key # y.key
    /\ \A q \in Request \ {r} :
         /\ deleted[r] \cap deleted[q] = {}
         /\ \A x \in inserted[r], y \in inserted[q] : x.key # y.key

\* The committed rows: whole fetches, and one row for each token.
RowsOK ==
  /\ \A x, y \in rows : x.key = y.key => x = y
  /\ \A x \in rows : RowsOf(x.at) \subseteq rows
  /\ IF meta = None THEN rows = {} ELSE RowsOf(meta) \subseteq rows

SnapshotOK == TimesOK /\ SavesOK /\ LocksOK /\ RowsOK

\* A portfolio that is not empty is its first token and the others.
LEMMA ElementsOfTail ==
  ASSUME NEW s \in Seq(Token), s # <<>>
  PROVE  /\ Head(s) \in Token /\ Tail(s) \in Seq(Token)
         /\ Elements(s) = {Head(s)} \cup Elements(Tail(s))
<1>1. /\ Head(s) = s[1] /\ Len(s) \in Nat \ {0} /\ DOMAIN s = 1..Len(s)
      /\ DOMAIN Tail(s) = 1..(Len(s) - 1)
      /\ \A i \in 1..(Len(s) - 1) : Tail(s)[i] = s[i + 1]
      /\ Head(s) \in Token /\ Tail(s) \in Seq(Token)
  BY HeadTailProperties, EmptySeq, LenProperties
<1>2. ASSUME NEW i \in DOMAIN s PROVE s[i] \in {Head(s)} \cup Elements(Tail(s))
  <2>1. CASE i = 1
    BY <1>1, <2>1
  <2>2. CASE i # 1
    <3>1. i - 1 \in DOMAIN Tail(s) /\ Tail(s)[i - 1] = s[i]
      BY <1>1, <2>2
    <3>2. QED
      BY <3>1 DEF Elements
  <2>3. QED
    BY <2>1, <2>2
<1>3. ASSUME NEW i \in DOMAIN Tail(s) PROVE Tail(s)[i] \in Elements(s)
  <2>1. i + 1 \in DOMAIN s /\ s[i + 1] = Tail(s)[i]
    BY <1>1
  <2>2. QED
    BY <2>1 DEF Elements
<1>4. Head(s) \in Elements(s)
  BY <1>1 DEF Elements
<1>5. QED
  BY <1>1, <1>2, <1>3, <1>4 DEF Elements

-----------------------------------------------------------------------------
\* Every step keeps the types.
LEMMA TypeStep == TypeOK /\ SavesOK /\ [Next]_vars => TypeOK'
<1> SUFFICES ASSUME TypeOK, SavesOK, [Next]_vars PROVE TypeOK'
  OBVIOUS
<1> USE SnapshotAssumption DEF GoTo, held, Calls
<1>1. ASSUME NEW r \in Request, NEW route \in Routes, Begin(r, route) PROVE TypeOK'
  BY <1>1 DEF Begin, TypeOK
<1>2. ASSUME NEW r \in Request, ReadFresh(r) PROVE TypeOK'
  BY <1>2 DEF ReadFresh, TypeOK
<1>3. ASSUME NEW r \in Request, ReadLatest(r) PROVE TypeOK'
  BY <1>3 DEF ReadLatest, TypeOK
<1>4. ASSUME NEW r \in Request, ReadRows(r) PROVE TypeOK'
  BY <1>4 DEF ReadRows, TypeOK
<1>5. ASSUME NEW r \in Request, Fetch(r) PROVE TypeOK'
  <2>1. PICK portfolio \in Portfolios :
          /\ tokens' = [tokens EXCEPT ![r] = portfolio]
          /\ answered' = [answered EXCEPT ![clock'] = {portfolio[i] : i \in DOMAIN portfolio}]
    BY <1>5 DEF Fetch
  <2>2. portfolio \in Seq(Token) /\ {portfolio[i] : i \in DOMAIN portfolio} \subseteq Token
    BY ElementOfSeq, LenProperties
  <2>3. tokens' \in [Request -> Seq(Token)] /\ answered' \in [0..MaxTime -> SUBSET Token]
    BY <2>1, <2>2 DEF TypeOK
  <2>4. QED
    BY <1>5, <2>3 DEF Fetch, TypeOK
<1>6. ASSUME NEW r \in Request, DeleteWaits(r) PROVE TypeOK'
  BY <1>6 DEF DeleteWaits, TypeOK
<1>7. ASSUME NEW r \in Request, Delete(r) PROVE TypeOK'
  BY <1>7 DEF Delete, InsertNext, TypeOK
<1>8. ASSUME NEW r \in Request, Insert(r) PROVE TypeOK'
  <2>1. tokens[r] \in Seq(Token) /\ tokens[r] # <<>>
    BY <1>8 DEF Insert, TypeOK, SavesOK, SaveOK
  <2>2. NewRow(r) \in Row /\ Tail(tokens[r]) \in Seq(Token)
    BY <2>1, ElementsOfTail DEF NewRow, Row, TypeOK
  <2>3. QED
    BY <1>8, <2>2 DEF Insert, InsertNext, TypeOK
<1>9. ASSUME NEW r \in Request, SaveMeta(r) PROVE TypeOK'
  BY <1>9 DEF SaveMeta, TypeOK
<1>10. ASSUME NEW r \in Request, Commit(r) PROVE TypeOK'
  BY <1>10 DEF Commit, Apply, TypeOK
<1>11. ASSUME NEW r \in Request, CommitUnconfirmed(r) PROVE TypeOK'
  BY <1>11, EmptySeq DEF CommitUnconfirmed, Apply, Forget, TypeOK
<1>12. ASSUME NEW r \in Request, Fail(r) PROVE TypeOK'
  BY <1>12, EmptySeq DEF Fail, Rollback, Forget, TypeOK
<1>13. ASSUME NEW r \in Request, Return(r) PROVE TypeOK'
  BY <1>13, EmptySeq DEF Return, Forget, TypeOK
<1>14. CASE Tick
  BY <1>14 DEF Tick, TypeOK
<1>15. CASE UNCHANGED vars
  BY <1>15 DEF vars, TypeOK
<1>16. QED
  BY <1>1, <1>2, <1>3, <1>4, <1>5, <1>6, <1>7, <1>8, <1>9, <1>10, <1>11, <1>12, <1>13, <1>14, <1>15
     DEF Next, Step, InsertFails, BreakDeadlock

\* Every step leaves a time for whoever may still fetch.
LEMMA RoomStep == TypeOK /\ RoomOK /\ [Next]_vars => RoomOK'
<1> SUFFICES ASSUME TypeOK, RoomOK, [Next]_vars PROVE RoomOK'
  OBVIOUS
<1> USE DEF GoTo, held, Calls
<1>0. /\ IsFiniteSet(Pending) /\ Cardinality(Pending) \in Nat
      /\ clock \in Nat /\ MaxTime \in Nat /\ pc \in [Request -> Calls \cup {"idle", "answer"}]
  BY FS_Subset, FS_CardinalityType, SnapshotAssumption DEF Pending, TypeOK
<1>1. ASSUME clock' = clock, Pending' \subseteq Pending PROVE RoomOK'
  <2>1. IsFiniteSet(Pending') /\ Cardinality(Pending') <= Cardinality(Pending)
    BY <1>0, <1>1, FS_Subset
  <2>2. Cardinality(Pending') \in Nat
    BY <2>1, FS_CardinalityType
  <2>3. QED
    BY <1>0, <1>1, <2>1, <2>2 DEF RoomOK
<1>2. ASSUME NEW r \in Request, NEW route \in Routes, Begin(r, route) PROVE RoomOK'
  <2>1. CASE route = "tokens"
    <3>1. clock + Cardinality(Pending) < MaxTime /\ clock' = clock
      BY <1>2, <2>1 DEF Begin, RoomForFetch, Pending
    <3>2. Pending' = Pending \cup {r}
      BY <1>0, <1>2, <2>1 DEF Begin, Pending
    <3>3. Cardinality(Pending \cup {r}) =
            IF r \in Pending THEN Cardinality(Pending) ELSE Cardinality(Pending) + 1
      BY <1>0, FS_AddElement
    <3>4. QED
      BY <1>0, <3>1, <3>2, <3>3 DEF RoomOK
  <2>2. CASE route # "tokens"
    BY <1>0, <1>1, <1>2, <2>2 DEF Begin, Pending
  <2>3. QED
    BY <2>1, <2>2
<1>3. ASSUME NEW r \in Request, Fetch(r) PROVE RoomOK'
  <2>1. r \in Pending /\ Pending' = Pending \ {r} /\ clock' = clock + 1
    BY <1>0, <1>3 DEF Fetch, Pending
  <2>2. Cardinality(Pending') \in Nat /\ Cardinality(Pending') = Cardinality(Pending) - 1
    BY <1>0, <2>1, FS_RemoveElement, FS_CardinalityType
  <2>3. QED
    BY <1>0, <2>1, <2>2 DEF RoomOK
<1>4. CASE Tick
  <2>1. clock' = clock + 1 /\ Pending' = Pending /\ clock + Cardinality(Pending) < MaxTime
    BY <1>4 DEF Tick, RoomForFetch, Pending
  <2>2. QED
    BY <1>0, <2>1 DEF RoomOK
<1>5. CASE UNCHANGED vars
  BY <1>1, <1>5 DEF vars, Pending
<1>6. ASSUME NEW r \in Request,
             ReadFresh(r) \/ ReadLatest(r) \/ ReadRows(r) \/ DeleteWaits(r) \/ Delete(r)
               \/ Insert(r) \/ SaveMeta(r) \/ Commit(r) \/ CommitUnconfirmed(r) \/ Fail(r)
               \/ Return(r)
      PROVE  RoomOK'
  BY <1>0, <1>1, <1>6
     DEF Pending, ReadFresh, ReadLatest, ReadRows, DeleteWaits, Delete, Insert, InsertNext,
         SaveMeta, Commit, CommitUnconfirmed, Fail, Return
<1>7. QED
  BY <1>2, <1>3, <1>4, <1>5, <1>6 DEF Next, Step, InsertFails, BreakDeadlock

-----------------------------------------------------------------------------
\* A step that only lets requests begin, end or give up disturbs no save.
LEMMA QuietStep ==
  ASSUME TypeOK, TypeOK', SnapshotOK, clock' >= clock, UNCHANGED <<rows, meta, answered>>,
         \A r \in Request :
           \/ /\ pc'[r] \notin Saves
              /\ deleted'[r] = {} /\ inserted'[r] = {} /\ seen'[r] \in {seen[r], {}}
           \/ /\ pc'[r] = pc[r] /\ fetched'[r] = fetched[r] /\ tokens'[r] = tokens[r]
              /\ deleted'[r] = deleted[r] /\ inserted'[r] = inserted[r] /\ seen'[r] = seen[r]
  PROVE  SnapshotOK'
<1>1. TimesOK'
  <2>1. /\ clock \in Nat /\ clock' \in Nat /\ meta \in Nat \cup {None}
        /\ \A x \in Row : x.at \in Nat
        /\ rows \subseteq Row /\ \A r \in Request : seen[r] \subseteq Row /\ fetched[r] \in Nat
    BY DEF TypeOK, Row
  <2>2. \A r \in Request : /\ seen'[r] \subseteq seen[r]
                           /\ pc'[r] \in Saves => pc[r] \in Saves /\ fetched'[r] = fetched[r]
    OBVIOUS
  <2>3. meta' # None => meta' <= clock'
    BY <2>1, SnapshotAssumption DEF SnapshotOK, TimesOK
  <2>4. \A x \in rows' : x.at <= clock'
    BY <2>1 DEF SnapshotOK, TimesOK
  <2>5. \A r \in Request : \A x \in seen'[r] : x.at <= clock'
    BY <2>1, <2>2 DEF SnapshotOK, TimesOK
  <2>6. ASSUME NEW r \in Request, pc'[r] \in Saves
        PROVE  /\ fetched'[r] <= clock' /\ fetched'[r] # meta'
               /\ \A x \in rows' : x.at # fetched'[r]
               /\ \A q \in Request : \A x \in seen'[q] : x.at # fetched'[r]
               /\ \A q \in Request \ {r} : pc'[q] \in Saves => fetched'[q] # fetched'[r]
    BY <2>1, <2>2, <2>6 DEF SnapshotOK, TimesOK, Saving
  <2>7. QED
    BY <2>3, <2>4, <2>5, <2>6 DEF TimesOK, Saving
<1>2. SavesOK'
  BY DEF SnapshotOK, SavesOK, SaveOK, Saving, Saves, InTransaction, KeysOf
<1>3. LocksOK'
  BY DEF SnapshotOK, LocksOK, Whole
<1>4. RowsOK'
  BY DEF SnapshotOK, RowsOK, RowsOf
<1>5. QED
  BY <1>1, <1>2, <1>3, <1>4 DEF SnapshotOK

\* A fetch takes a time that no row and no other save has.
LEMMA FetchStep ==
  ASSUME TypeOK, TypeOK', RoomOK, SnapshotOK, NEW r \in Request, Fetch(r)
  PROVE  SnapshotOK'
<1>0. /\ clock \in Nat /\ clock' = clock + 1 /\ clock' \in 0..MaxTime
      /\ rows' = rows /\ meta' = meta /\ seen' = seen
      /\ deleted' = deleted /\ inserted' = inserted
      /\ pc[r] = "fetch" /\ pc'[r] = "delete" /\ fetched'[r] = clock'
      /\ \A q \in Request \ {r} : /\ pc'[q] = pc[q] /\ fetched'[q] = fetched[q]
                                  /\ tokens'[q] = tokens[q]
  <2>1. clock < MaxTime
    <3>1. r \in Pending /\ IsFiniteSet(Pending) /\ Pending # {}
      BY FS_Subset, SnapshotAssumption DEF Pending, Fetch
    <3>2. Cardinality(Pending) \in Nat \ {0}
      BY <3>1, FS_CardinalityType, FS_EmptySet
    <3>3. QED
      BY <3>2, SnapshotAssumption DEF RoomOK, TypeOK
  <2>2. QED
    BY <2>1, SnapshotAssumption DEF Fetch, GoTo, held, TypeOK
<1>1. /\ answered'[clock'] = Elements(tokens'[r])
      /\ \A t \in 0..MaxTime : t # clock' => answered'[t] = answered[t]
  BY <1>0 DEF Fetch, TypeOK, Elements
<1>2. /\ \A x \in Row : x.at \in Nat
      /\ rows \subseteq Row /\ meta \in Nat \cup {None} /\ None \notin Nat
      /\ \A q \in Request : seen[q] \subseteq Row /\ fetched[q] \in Nat
  BY SnapshotAssumption DEF TypeOK, Row
<1>3. TimesOK'
  <2>1. ASSUME NEW q \in Request, pc'[q] \in Saves
        PROVE  /\ fetched'[q] <= clock' /\ fetched'[q] # meta'
               /\ \A x \in rows' : x.at # fetched'[q]
               /\ \A p \in Request : \A x \in seen'[p] : x.at # fetched'[q]
               /\ \A p \in Request \ {q} : pc'[p] \in Saves => fetched'[p] # fetched'[q]
    <3>1. CASE q = r
      BY <1>0, <1>2, <3>1 DEF SnapshotOK, TimesOK, Saving
    <3>2. CASE q # r
      BY <1>0, <1>2, <2>1, <3>2 DEF SnapshotOK, TimesOK, Saving
    <3>3. QED
      BY <3>1, <3>2
  <2>2. meta' # None => meta' <= clock'
    BY <1>0, <1>2 DEF SnapshotOK, TimesOK
  <2>3. \A x \in rows' : x.at <= clock'
    BY <1>0, <1>2 DEF SnapshotOK, TimesOK
  <2>4. \A q \in Request : \A x \in seen'[q] : x.at <= clock'
    BY <1>0, <1>2 DEF SnapshotOK, TimesOK
  <2>5. QED
    BY <2>1, <2>2, <2>3, <2>4 DEF TimesOK, Saving
<1>4. SavesOK'
  <2> SUFFICES ASSUME NEW q \in Request PROVE SaveOK(q)'
    BY DEF SavesOK
  <2>1. SaveOK(q)
    BY DEF SnapshotOK, SavesOK
  <2>2. CASE q = r
    BY <1>0, <1>1, <2>1, <2>2 DEF SaveOK, Saving, Saves, InTransaction, KeysOf
  <2>3. CASE q # r
    <3>1. Saving(q) => fetched[q] \in 0..MaxTime /\ fetched[q] # clock'
      BY <1>0, <1>2, SnapshotAssumption DEF SnapshotOK, TimesOK
    <3>2. QED
      BY <1>0, <1>1, <2>1, <2>3, <3>1 DEF SaveOK, Saving, InTransaction, KeysOf
  <2>4. QED
    BY <2>2, <2>3
<1>5. LocksOK'
  BY <1>0 DEF SnapshotOK, LocksOK, Whole
<1>6. RowsOK'
  <2>1. \A t \in Nat : t <= clock => answered'[t] = answered[t]
    BY <1>0, <1>1, SnapshotAssumption
  <2>2. \A t \in Nat : t <= clock => {[key |-> k, at |-> t] : k \in answered'[t]} = RowsOf(t)
    BY <2>1 DEF RowsOf
  <2>3. QED
    BY <1>0, <1>2, <2>2 DEF SnapshotOK, TimesOK, RowsOK, RowsOf
<1>7. QED
  BY <1>3, <1>4, <1>5, <1>6 DEF SnapshotOK

\* A DELETE that has to wait remembers what it found: whole fetches.
LEMMA DeleteWaitsStep ==
  ASSUME TypeOK, SnapshotOK, NEW r \in Request, DeleteWaits(r)
  PROVE  SnapshotOK'
<1>0. /\ UNCHANGED <<clock, rows, meta, fetched, tokens, deleted, inserted, answered>>
      /\ pc[r] = "delete" /\ pc'[r] = "deleteWaits" /\ seen'[r] = rows
      /\ \A q \in Request \ {r} : pc'[q] = pc[q] /\ seen'[q] = seen[q]
  BY DEF DeleteWaits, GoTo, held, TypeOK
<1>1. TimesOK'
  <2>1. \A q \in Request : (pc'[q] \in Saves <=> pc[q] \in Saves) /\ seen'[q] \in {seen[q], rows}
    BY <1>0 DEF Saves
  <2>2. QED
    BY <1>0, <2>1 DEF SnapshotOK, TimesOK, Saving
<1>2. SavesOK'
  BY <1>0 DEF SnapshotOK, SavesOK, SaveOK, Saving, Saves, InTransaction, KeysOf
<1>3. LocksOK'
  <2>1. \A q \in Request : seen'[q] \in {seen[q], rows}
    BY <1>0
  <2>2. QED
    BY <1>0, <2>1 DEF SnapshotOK, LocksOK, Whole
<1>4. RowsOK'
  BY <1>0 DEF SnapshotOK, RowsOK, RowsOf
<1>5. QED
  BY <1>1, <1>2, <1>3, <1>4 DEF SnapshotOK

\* A DELETE removes no row that another transaction has removed.
LEMMA DeleteStep ==
  ASSUME TypeOK, SnapshotOK, NEW r \in Request, Delete(r)
  PROVE  SnapshotOK'
<1>0. /\ UNCHANGED <<clock, rows, meta, fetched, tokens, inserted, answered>>
      /\ pc[r] \in {"delete", "deleteWaits"} /\ pc'[r] \in {"insert", "saveMeta"}
      /\ pc'[r] = "saveMeta" <=> tokens[r] = <<>>
      /\ seen'[r] = {} /\ Blockers(r) = {}
      /\ deleted'[r] = IF pc[r] = "delete" THEN rows ELSE seen[r] \cap rows
      /\ \A q \in Request \ {r} : /\ pc'[q] = pc[q] /\ seen'[q] = seen[q]
                                  /\ deleted'[q] = deleted[q]
  BY DEF Delete, InsertNext, GoTo, TypeOK
<1>1. inserted[r] = {}
  BY <1>0 DEF SnapshotOK, SavesOK, SaveOK, InTransaction
<1>2. TimesOK'
  <2>1. \A q \in Request : (pc'[q] \in Saves <=> pc[q] \in Saves) /\ seen'[q] \in {seen[q], {}}
    BY <1>0 DEF Saves
  <2>2. QED
    BY <1>0, <2>1 DEF SnapshotOK, TimesOK, Saving
<1>3. SavesOK'
  BY <1>0, <1>1 DEF SnapshotOK, SavesOK, SaveOK, Saving, Saves, InTransaction, KeysOf
<1>4. LocksOK'
  <2>1. \A q \in Request \ {r} : deleted'[r] \cap deleted[q] = {}
    BY <1>0 DEF Blockers
  <2>2. deleted'[r] \subseteq rows /\ Whole(deleted'[r])
    BY <1>0 DEF SnapshotOK, LocksOK, Whole
  <2>3. QED
    BY <1>0, <1>1, <2>1, <2>2 DEF SnapshotOK, LocksOK, Whole
<1>5. RowsOK'
  BY <1>0 DEF SnapshotOK, RowsOK, RowsOf
<1>6. QED
  BY <1>2, <1>3, <1>4, <1>5 DEF SnapshotOK

\* An INSERT writes a key that nobody else has written.
LEMMA InsertStep ==
  ASSUME TypeOK, TypeOK', SnapshotOK, NEW r \in Request, Insert(r)
  PROVE  SnapshotOK'
<1>0. /\ UNCHANGED <<clock, rows, meta, fetched, seen, deleted, answered>>
      /\ pc[r] = "insert" /\ pc'[r] \in {"insert", "saveMeta"}
      /\ pc'[r] = "saveMeta" <=> tokens'[r] = <<>>
      /\ tokens'[r] = Tail(tokens[r]) /\ inserted'[r] = inserted[r] \cup {NewRow(r)}
      /\ Blockers(r) = {} /\ ~Clashes(r)
      /\ \A q \in Request \ {r} : /\ pc'[q] = pc[q] /\ tokens'[q] = tokens[q]
                                  /\ inserted'[q] = inserted[q]
  BY DEF Insert, InsertNext, GoTo, TypeOK
<1>1. /\ NewRow(r).key = Head(tokens[r]) /\ NewRow(r).at = fetched[r]
      /\ Elements(tokens[r]) = {NewRow(r).key} \cup Elements(tokens'[r])
  <2>1. tokens[r] \in Seq(Token) /\ tokens[r] # <<>>
    BY <1>0 DEF SnapshotOK, SavesOK, SaveOK, TypeOK
  <2>2. Elements(tokens[r]) = {Head(tokens[r])} \cup Elements(Tail(tokens[r]))
    BY <2>1, ElementsOfTail
  <2>3. QED
    BY <1>0, <2>2 DEF NewRow
<1>2. TimesOK'
  <2>1. \A q \in Request : pc'[q] \in Saves <=> pc[q] \in Saves
    BY <1>0 DEF Saves
  <2>2. QED
    BY <1>0, <2>1 DEF SnapshotOK, TimesOK, Saving
<1>3. SavesOK'
  <2>1. KeysOf(inserted'[r]) = KeysOf(inserted[r]) \cup {NewRow(r).key}
    BY <1>0 DEF KeysOf
  <2>2. SaveOK(r)'
    BY <1>0, <1>1, <2>1 DEF SnapshotOK, SavesOK, SaveOK, Saving, Saves, InTransaction
  <2>3. \A q \in Request \ {r} : SaveOK(q)'
    BY <1>0 DEF SnapshotOK, SavesOK, SaveOK, Saving, InTransaction
  <2>4. QED
    BY <2>2, <2>3 DEF SavesOK
<1>4. LocksOK'
  <2>1. \A y \in (rows \ deleted[r]) \cup inserted[r] : NewRow(r).key # y.key
    BY <1>0 DEF Clashes, KeysOf
  <2>2. \A q \in Request \ {r} : \A y \in inserted[q] : NewRow(r).key # y.key
    BY <1>0 DEF Blockers, KeysOf
  <2>3. QED
    BY <1>0, <2>1, <2>2 DEF SnapshotOK, LocksOK, Whole
<1>5. RowsOK'
  BY <1>0 DEF SnapshotOK, RowsOK, RowsOf
<1>6. QED
  BY <1>2, <1>3, <1>4, <1>5 DEF SnapshotOK

\* The upsert is seen by nobody before the commit.
LEMMA SaveMetaStep ==
  ASSUME TypeOK, SnapshotOK, NEW r \in Request, SaveMeta(r)
  PROVE  SnapshotOK'
<1>0. /\ UNCHANGED <<clock, rows, meta, fetched, tokens, seen, deleted, inserted, answered>>
      /\ pc[r] = "saveMeta" /\ pc'[r] = "commit" /\ \A q \in Request \ {r} : pc'[q] = pc[q]
  BY DEF SaveMeta, GoTo, held, TypeOK
<1>1. TimesOK'
  <2>1. \A q \in Request : pc'[q] \in Saves <=> pc[q] \in Saves
    BY <1>0 DEF Saves
  <2>2. QED
    BY <1>0, <2>1 DEF SnapshotOK, TimesOK, Saving
<1>2. SavesOK'
  BY <1>0 DEF SnapshotOK, SavesOK, SaveOK, Saving, Saves, InTransaction, KeysOf
<1>3. LocksOK'
  BY <1>0 DEF SnapshotOK, LocksOK, Whole
<1>4. RowsOK'
  BY <1>0 DEF SnapshotOK, RowsOK, RowsOf
<1>5. QED
  BY <1>1, <1>2, <1>3, <1>4 DEF SnapshotOK

\* What a transaction about to commit has inserted is the portfolio it fetched.
LEMMA WholePortfolio ==
  ASSUME TypeOK, SnapshotOK, NEW r \in Request, pc[r] = "commit"
  PROVE  inserted[r] = RowsOf(fetched[r])
<1>1. inserted[r] \subseteq Row /\ \A x \in Row : x = [key |-> x.key, at |-> x.at]
  BY DEF TypeOK, Row
<1>2. \A x \in inserted[r] : x.at = fetched[r]
  BY DEF SnapshotOK, SavesOK, SaveOK
<1>3. answered[fetched[r]] = KeysOf(inserted[r])
  <2>1. Elements(<<>>) = {}
    BY EmptySeq DEF Elements
  <2> QED
    BY <2>1 DEF SnapshotOK, SavesOK, SaveOK, Saving, Saves
<1> QED
  BY <1>1, <1>2, <1>3 DEF RowsOf, KeysOf

\* A commit replaces whole fetches by a whole fetch, confirmed or not.
LEMMA CommitStep ==
  ASSUME TypeOK, TypeOK', SnapshotOK, NEW r \in Request, Commit(r) \/ CommitUnconfirmed(r)
  PROVE  SnapshotOK'
<1>0. /\ UNCHANGED <<clock, answered>>
      /\ pc[r] = "commit" /\ pc'[r] \notin Saves
      /\ rows' = (rows \ deleted[r]) \cup inserted[r] /\ meta' = fetched[r]
      /\ deleted'[r] = {} /\ inserted'[r] = {} /\ seen'[r] \in {seen[r], {}}
      /\ \A q \in Request \ {r} :
           /\ pc'[q] = pc[q] /\ fetched'[q] = fetched[q] /\ tokens'[q] = tokens[q]
           /\ seen'[q] = seen[q] /\ deleted'[q] = deleted[q] /\ inserted'[q] = inserted[q]
  BY DEF Commit, CommitUnconfirmed, Apply, Forget, GoTo, Saves, TypeOK
<1>1. /\ rows \subseteq Row /\ inserted[r] \subseteq Row
      /\ clock \in Nat /\ fetched[r] \in Nat /\ None \notin Nat
      /\ \A x \in Row : x = [key |-> x.key, at |-> x.at]
  BY SnapshotAssumption DEF TypeOK, Row
<1>2. /\ \A x \in inserted[r] : x.at = fetched[r]
      /\ \A x \in rows : x.at # fetched[r]
      /\ \A q \in Request : \A x \in seen[q] : x.at # fetched[r]
      /\ \A q \in Request \ {r} : Saving(q) => fetched[q] # fetched[r]
      /\ fetched[r] <= clock
  BY <1>0 DEF SnapshotOK, TimesOK, SavesOK, SaveOK, Saving, Saves
<1>3. inserted[r] = RowsOf(fetched[r])
  BY <1>0, WholePortfolio
<1>4. TimesOK'
  <2>1. meta' <= clock' /\ \A x \in rows' : x.at <= clock'
    BY <1>0, <1>2 DEF SnapshotOK, TimesOK
  <2>2. \A q \in Request : /\ seen'[q] \subseteq seen[q]
                           /\ pc'[q] \in Saves => q # r /\ pc[q] \in Saves
    BY <1>0
  <2>3. \A q \in Request : \A x \in seen'[q] : x.at <= clock'
    BY <1>0, <2>2 DEF SnapshotOK, TimesOK
  <2>4. ASSUME NEW q \in Request, pc'[q] \in Saves
        PROVE  /\ fetched'[q] <= clock' /\ fetched'[q] # meta'
               /\ \A x \in rows' : x.at # fetched'[q]
               /\ \A p \in Request : \A x \in seen'[p] : x.at # fetched'[q]
               /\ \A p \in Request \ {q} : pc'[p] \in Saves => fetched'[p] # fetched'[q]
    BY <1>0, <1>2, <2>2, <2>4 DEF SnapshotOK, TimesOK, Saving
  <2>5. QED
    BY <2>1, <2>3, <2>4 DEF TimesOK, Saving
<1>5. SavesOK'
  BY <1>0 DEF SnapshotOK, SavesOK, SaveOK, Saving, Saves, InTransaction, KeysOf
<1>6. LocksOK'
  <2>1. ASSUME NEW q \in Request \ {r}
        PROVE  /\ deleted'[q] \subseteq rows'
               /\ Whole(deleted[q])' /\ Whole(seen[q])'
               /\ \A x \in inserted'[q], y \in rows' \ deleted'[q] : x.key # y.key
               /\ \A p \in Request \ {q} :
                    /\ deleted'[q] \cap deleted'[p] = {}
                    /\ \A x \in inserted'[q], y \in inserted'[p] : x.key # y.key
    <3>1. deleted[q] \cap deleted[r] = {} /\ deleted[q] \subseteq rows
      BY DEF SnapshotOK, LocksOK
    <3>2. \A x \in inserted[q], y \in inserted[r] : x.key # y.key
      BY DEF SnapshotOK, LocksOK
    <3>3. \A x \in inserted[q], y \in rows' \ deleted[q] : x.key # y.key
      BY <1>0, <3>2 DEF SnapshotOK, LocksOK
    <3>4. /\ \A x \in deleted[q] \cap rows', y \in rows' : x.at = y.at => y \in deleted[q]
          /\ \A x \in seen[q] \cap rows', y \in rows' : x.at = y.at => y \in seen[q]
      BY <1>0, <1>2, <3>1 DEF SnapshotOK, LocksOK, Whole
    <3>5. \A p \in Request \ {q} :
            /\ deleted'[q] \cap deleted'[p] = {}
            /\ \A x \in inserted'[q], y \in inserted'[p] : x.key # y.key
      BY <1>0 DEF SnapshotOK, LocksOK
    <3>6. QED
      BY <1>0, <3>1, <3>3, <3>4, <3>5 DEF Whole
  <2>2. Whole(seen[r])'
    BY <1>0, <1>2 DEF SnapshotOK, LocksOK, Whole
  <2>3. QED
    BY <1>0, <2>1, <2>2 DEF LocksOK, Whole
<1>7. RowsOK'
  <2>1. \A x, y \in rows' : x.key = y.key => x = y
    <3>1. \A x \in inserted[r], y \in rows \ deleted[r] : x.key # y.key
      BY DEF SnapshotOK, LocksOK
    <3>2. \A x, y \in inserted[r] : x.key = y.key => x = y
      BY <1>1, <1>2
    <3>3. QED
      BY <1>0, <3>1, <3>2 DEF SnapshotOK, RowsOK
  <2>2. ASSUME NEW x \in rows' PROVE RowsOf(x.at) \subseteq rows'
    <3>1. CASE x \in inserted[r]
      BY <1>0, <1>2, <1>3, <3>1
    <3>2. CASE x \in rows \ deleted[r]
      <4>1. RowsOf(x.at) \subseteq rows
        BY <3>2 DEF SnapshotOK, RowsOK
      <4>2. \A y \in RowsOf(x.at) : y.at = x.at
        BY DEF RowsOf
      <4>3. \A y \in deleted[r] : y.at # x.at
        BY <3>2 DEF SnapshotOK, LocksOK, Whole
      <4>4. QED
        BY <1>0, <4>1, <4>2, <4>3
    <3>3. QED
      BY <1>0, <3>1, <3>2
  <2>3. RowsOf(fetched[r]) \subseteq rows' /\ meta' # None
    BY <1>0, <1>1, <1>3
  <2>4. QED
    BY <1>0, <2>1, <2>2, <2>3 DEF RowsOK, RowsOf
<1>8. QED
  BY <1>4, <1>5, <1>6, <1>7 DEF SnapshotOK

\* Every step keeps the snapshot whole.
LEMMA SnapshotStep == TypeOK /\ TypeOK' /\ RoomOK /\ SnapshotOK /\ [Next]_vars => SnapshotOK'
<1> SUFFICES ASSUME TypeOK, TypeOK', RoomOK, SnapshotOK, [Next]_vars PROVE SnapshotOK'
  OBVIOUS
<1>0. /\ clock \in Nat
      /\ \A r \in Request : ~InTransaction(r) => deleted[r] = {} /\ inserted[r] = {}
  BY DEF SnapshotOK, SavesOK, SaveOK, TypeOK
<1>1. ASSUME NEW r \in Request,
             \/ \E route \in Routes : Begin(r, route)
             \/ ReadFresh(r) \/ ReadLatest(r) \/ ReadRows(r) \/ Fail(r) \/ Return(r)
      PROVE  SnapshotOK'
  <2> DEFINE Over == /\ pc'[r] \notin Saves
                     /\ deleted'[r] = {} /\ inserted'[r] = {} /\ seen'[r] \in {seen[r], {}}
             Others == \A q \in Request \ {r} :
                         /\ pc'[q] = pc[q] /\ fetched'[q] = fetched[q] /\ tokens'[q] = tokens[q]
                         /\ deleted'[q] = deleted[q] /\ inserted'[q] = inserted[q]
                         /\ seen'[q] = seen[q]
  <2>1. UNCHANGED <<clock, rows, meta, answered>>
    BY <1>1 DEF Begin, ReadFresh, ReadLatest, ReadRows, Fail, Return
  <2>2. ASSUME NEW route \in Routes, Begin(r, route) PROVE Over /\ Others
    BY <1>0, <2>2 DEF Begin, GoTo, held, Saves, InTransaction, TypeOK
  <2>3. ASSUME ReadFresh(r) \/ ReadLatest(r) \/ ReadRows(r) PROVE Over /\ Others
    BY <1>0, <2>3 DEF ReadFresh, ReadLatest, ReadRows, GoTo, held, Saves, InTransaction, TypeOK
  <2>4. ASSUME Fail(r) PROVE Over /\ Others
    BY <2>4 DEF Fail, Rollback, Forget, GoTo, Saves, TypeOK
  <2>5. ASSUME Return(r) PROVE Over /\ Others
    BY <1>0, <2>5 DEF Return, Forget, GoTo, held, Saves, InTransaction, TypeOK
  <2>6. Over /\ Others
    BY <1>1, <2>2, <2>3, <2>4, <2>5
  <2>7. QED
    BY <1>0, <2>1, <2>6, QuietStep
<1>2. ASSUME Tick \/ UNCHANGED vars PROVE SnapshotOK'
  BY <1>0, <1>2, QuietStep DEF Tick, vars, held
<1>3. QED
  BY <1>1, <1>2, FetchStep, DeleteWaitsStep, DeleteStep, InsertStep, SaveMetaStep, CommitStep
     DEF Next, Step, InsertFails, BreakDeadlock

-----------------------------------------------------------------------------
\* The invariant holds of every state that can be reached.
LEMMA Invariant == Spec => [](TypeOK /\ RoomOK /\ SnapshotOK)
<1>1. Init => TypeOK /\ RoomOK /\ SnapshotOK
  <2> SUFFICES ASSUME Init PROVE TypeOK /\ RoomOK /\ SnapshotOK
    OBVIOUS
  <2>1. TypeOK
    BY SnapshotAssumption, EmptySeq DEF Init, TypeOK, Calls
  <2>2. RoomOK
    <3>1. Pending = {}
      BY DEF Init, Pending
    <3>2. QED
      BY <3>1, FS_EmptySet, SnapshotAssumption DEF Init, RoomOK
  <2>3. SnapshotOK
    BY DEF Init, SnapshotOK, TimesOK, SavesOK, SaveOK, LocksOK, RowsOK, Whole, Saving, Saves,
       InTransaction
  <2>4. QED
    BY <2>1, <2>2, <2>3
<1>2. TypeOK /\ RoomOK /\ SnapshotOK /\ [Next]_vars => (TypeOK /\ RoomOK /\ SnapshotOK)'
  BY TypeStep, RoomStep, SnapshotStep DEF SnapshotOK
<1>3. QED
  BY <1>1, <1>2, PTL DEF Spec

\* Every reachable state is well-formed: what is read, fetched, stored and
\* answered are rows with a fetch time.
THEOREM TypeCorrect == Spec => []TypeOK
<1>1. QED
  BY Invariant, PTL

\* The committed rows hold the whole portfolio their fetch time names, and rows
\* of another fetch only where the two have no token in common.
THEOREM SnapshotWhole == Spec => []SnapshotIsWhole
<1>1. TypeOK /\ SnapshotOK => SnapshotIsWhole
  <2> SUFFICES ASSUME TypeOK, SnapshotOK PROVE SnapshotIsWhole
    OBVIOUS
  <2>1. ASSUME NEW x \in rows, meta # None, x.at # meta,
               NEW k \in answered[x.at] \cap answered[meta]
        PROVE  FALSE
    <3>1. [key |-> k, at |-> x.at] \in rows /\ [key |-> k, at |-> meta] \in rows
      BY <2>1 DEF SnapshotOK, RowsOK, RowsOf
    <3>2. [key |-> k, at |-> x.at] = [key |-> k, at |-> meta]
      BY <3>1 DEF SnapshotOK, RowsOK
    <3>3. QED
      BY <2>1, <3>2
  <2>2. QED
    BY <2>1 DEF SnapshotIsWhole, SnapshotOK, RowsOK
<1>2. QED
  BY <1>1, Invariant, PTL
-----------------------------------------------------------------------------
\* A commit is a save of PortfolioTable: what the transaction deleted are the rows of
\* some fetches, and none it left has a token of the new one.
LEMMA CommitSaves ==
  ASSUME TypeOK, SnapshotOK, NEW r \in Request, Commit(r) \/ CommitUnconfirmed(r)
  PROVE  Table!Next
<1> DEFINE t == fetched[r]
           gone == {x.at : x \in deleted[r]}
<1>0. /\ UNCHANGED <<clock, answered>> /\ pc[r] = "commit"
      /\ rows' = (rows \ deleted[r]) \cup inserted[r] /\ meta' = t
  BY DEF Commit, CommitUnconfirmed, Apply
<1>1. /\ t \in Nat /\ clock \in Nat /\ t <= clock /\ t # meta
      /\ \A x \in rows : x.at # t
  BY <1>0 DEF SnapshotOK, TimesOK, Saving, Saves, TypeOK
<1>2. gone \subseteq 0..clock
  <2> SUFFICES ASSUME NEW x \in deleted[r] PROVE x.at \in 0..clock
    OBVIOUS
  <2>1. x \in rows /\ x \in Row
    BY DEF SnapshotOK, LocksOK, TypeOK
  <2>2. x.at <= clock /\ x.at \in Nat
    BY <2>1 DEF SnapshotOK, TimesOK, Row
  <2> QED
    BY <1>1, <2>2
<1>3. {x \in rows : x.at \notin gone} = rows \ deleted[r]
  BY DEF SnapshotOK, LocksOK, Whole
<1>4. inserted[r] = Table!Portfolio(t)
  BY <1>0, WholePortfolio DEF RowsOf, Table!Portfolio
<1>5. \A x \in rows \ deleted[r] : x.key \notin answered[t]
  <2> SUFFICES ASSUME NEW x \in rows \ deleted[r], x.key \in answered[t] PROVE FALSE
    OBVIOUS
  <2>1. [key |-> x.key, at |-> t] \in inserted[r]
    BY <1>4 DEF Table!Portfolio
  <2> QED
    BY <2>1 DEF SnapshotOK, LocksOK
<1> HIDE DEF t, gone
<1>6. Table!Save(t, gone)
  BY <1>0, <1>1, <1>3, <1>4, <1>5 DEF Table!Save
<1> QED
  BY <1>1, <1>2, <1>6 DEF Table!Next

\* A step of a request, a save's statements included, is a step of PortfolioTable, or none.
LEMMA StepIsAtomic == TypeOK /\ SnapshotOK /\ [Next]_vars => [Table!Next]_Table!vars
<1> SUFFICES ASSUME TypeOK, SnapshotOK, [Next]_vars PROVE Table!Next \/ UNCHANGED Table!vars
  OBVIOUS
<1>1. ASSUME NEW r \in Request, Fetch(r) PROVE Table!Next
  <2>1. PICK portfolio \in Portfolios :
          answered' = [answered EXCEPT ![clock'] = {portfolio[i] : i \in DOMAIN portfolio}]
    BY <1>1 DEF Fetch
  <2>2. {portfolio[i] : i \in DOMAIN portfolio} \in SUBSET Token
    <3>1. portfolio \in Seq(Token)
      BY SnapshotAssumption
    <3> QED
      BY <3>1
  <2>3. Table!Fetch
    BY <1>1, <2>1, <2>2 DEF Fetch, Table!Fetch
  <2> QED
    BY <2>3 DEF Table!Next
<1>2. ASSUME NEW r \in Request, Commit(r) \/ CommitUnconfirmed(r) PROVE Table!Next
  BY <1>2, CommitSaves
<1>3. CASE Tick
  BY <1>3 DEF Tick, Table!Tick, Table!Next
<1>4. ASSUME NEW r \in Request,
             \/ \E route \in Routes : Begin(r, route)
             \/ ReadFresh(r) \/ ReadLatest(r) \/ ReadRows(r)
             \/ DeleteWaits(r) \/ Delete(r) \/ Insert(r) \/ SaveMeta(r) \/ Return(r) \/ Fail(r)
      PROVE  UNCHANGED Table!vars
  <2>1. UNCHANGED <<clock, answered, rows, meta>>
    BY <1>4 DEF Begin, ReadFresh, ReadLatest, ReadRows, DeleteWaits, Delete, Insert, SaveMeta,
                Return, Fail
  <2> QED
    BY <2>1 DEF Table!vars
<1>5. CASE UNCHANGED vars
  BY <1>5 DEF vars, Table!vars
<1> QED
  BY <1>1, <1>2, <1>3, <1>4, <1>5 DEF Next, Step, InsertFails, BreakDeadlock

\* SaveTokens implements PortfolioTable: whatever its statements overlap with at READ
\* COMMITTED, the tables change by whole portfolios, in one step and with their fetch time.
THEOREM SavesRefine == Spec => SavesAreAtomic
<1>1. Init => Table!Init
  BY DEF Init, Table!Init
<1> QED
  BY <1>1, Invariant, StepIsAtomic, PTL DEF Spec, SavesAreAtomic, Table!Spec
=============================================================================
