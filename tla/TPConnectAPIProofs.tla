------------------------- MODULE TPConnectAPIProofs -------------------------
(***************************************************************************)
(* What a fetch of the store's table returns, for any collections and ids. *)
(***************************************************************************)
EXTENDS TPConnectAPI, FiniteSetTheorems, TLAPS

USE DEF Keys

-----------------------------------------------------------------------------
\* The batches fetched from a table are batches.
LEMMA FetchType ==
  ASSUME NEW table \in Table
  PROVE  fetchPendingEvents(table) \subseteq Batch
<1>1. ASSUME NEW c \in Collections
      PROVE  CollectionBatches(table, c) \subseteq Seq(Event)
  <2> DEFINE ids == StoredIds(table, c)
             event == [i \in ids |-> [id |-> i, properties |-> table[<<c, i>>]]]
             S == {event[i] : i \in ids}
  <2>1. S \subseteq Event
    <3>1. ASSUME NEW i \in ids
          PROVE  [id |-> i, properties |-> table[<<c, i>>]] \in Event
      BY DEF Table, Event, StoredIds
    <3> QED BY <3>1
  <2>2. IsFiniteSet(ids)
    BY StoreAssumption, FS_Subset DEF StoredIds
  <2>3. event \in Surjection(ids, S)
    BY DEF Surjection
  <2>4. CollectionBatches(table, c) = SetToSeqs(S)
    BY DEF CollectionBatches
  <2> HIDE DEF ids, event, S
  <2>5. Cardinality(S) \in Nat
    BY <2>2, <2>3, FS_Surjection, FS_CardinalityType
  <2>6. SetToSeqs(S) \subseteq [1..Cardinality(S) -> S]
    BY <2>5 DEF SetToSeqs
  <2>7. [1..Cardinality(S) -> S] \subseteq Seq(S)
    BY <2>5
  <2>8. Seq(S) \subseteq Seq(Event)
    BY <2>1
  <2> QED BY <2>4, <2>6, <2>7, <2>8
<1> QED BY <1>1 DEF fetchPendingEvents, Batch

\* The orders of a finite set leave nothing of it out.
LEMMA OrderIsOnto ==
  ASSUME NEW S, IsFiniteSet(S), NEW f \in SetToSeqs(S)
  PROVE  S = {f[i] : i \in DOMAIN f}
<1> DEFINE D == 1 .. Cardinality(S)
<1>1. Cardinality(S) \in Nat
  BY FS_CardinalityType
<1>2. f \in [D -> S] /\ \A i, j \in D : i # j => f[i] # f[j]
  BY DEF SetToSeqs
<1>3. IsFiniteSet(D) /\ Cardinality(D) = Cardinality(S)
  BY <1>1, FS_Interval
<1> HIDE DEF D
<1>4. f \in Injection(D, S)
  BY <1>2 DEF Injection, IsInjective
<1>5. f \in Surjection(D, S)
  BY <1>3, <1>4, FS_Injection
<1> QED BY <1>2, <1>5 DEF Surjection

\* A fetched batch has exactly the rows of the table.
LEMMA FetchedRows ==
  ASSUME NEW table \in Table, NEW batch \in fetchPendingEvents(table)
  PROVE  Sent(batch) = {<<k[1], [id |-> k[2], properties |-> table[k]]>> :
                          k \in Pending(table)}
<1> DEFINE row(c, i) == [id |-> i, properties |-> table[<<c, i>>]]
           rows == {<<k[1], row(k[1], k[2])>> : k \in Pending(table)}
           events(c) == {row(c, i) : i \in StoredIds(table, c)}
<1>1. \A c \in Collections :
        {batch[c][n] : n \in DOMAIN batch[c]} = events(c)
  <2> TAKE c \in Collections
  <2> DEFINE ids == StoredIds(table, c)
             event == [i \in ids |-> row(c, i)]
             S == events(c)
  <2>1. IsFiniteSet(ids)
    BY StoreAssumption, FS_Subset DEF StoredIds
  <2>2. event \in Surjection(ids, S)
    BY DEF Surjection
  <2>3. batch[c] \in SetToSeqs(S)
    BY DEF fetchPendingEvents, CollectionBatches
  <2> HIDE DEF ids, event, S
  <2>4. IsFiniteSet(S)
    BY <2>1, <2>2, FS_Surjection
  <2>5. S = {batch[c][i] : i \in DOMAIN batch[c]}
    BY <2>3, <2>4, OrderIsOnto
  <2> QED BY <2>5 DEF S
<1> HIDE DEF events
<1>2. \A s : s \in Sent(batch) <=> \E c \in Collections : \E e \in events(c) : s = <<c, e>>
  BY <1>1 DEF Sent
<1>3. \A s : (\E c \in Collections : \E e \in events(c) : s = <<c, e>>)
                <=> \E c \in Collections : \E i \in StoredIds(table, c) : s = <<c, row(c, i)>>
  BY DEF events
<1>4. \A s : (\E c \in Collections : \E i \in StoredIds(table, c) : s = <<c, row(c, i)>>)
                <=> s \in rows
  <2>1. \A c \in Collections : \A i \in StoredIds(table, c) : <<c, i>> \in Pending(table)
    BY DEF StoredIds, Pending
  <2>2. \A k \in Pending(table) :
          /\ k[1] \in Collections /\ k[2] \in StoredIds(table, k[1])
          /\ k = <<k[1], k[2]>>
    BY DEF StoredIds, Pending
  <2>3. \A k \in Pending(table) : k[1] \in Collections
    BY <2>2
  <2>4. ASSUME NEW c \in Collections, NEW i \in StoredIds(table, c)
        PROVE  <<c, row(c, i)>> \in rows
    <3>1. <<c, i>>[1] = c /\ <<c, i>>[2] = i
      OBVIOUS
    <3> HIDE DEF row
    <3> QED BY <2>1, <3>1
  <2> HIDE DEF row
  <2> QED BY <2>2, <2>4
<1> HIDE DEF row, rows
<1>5. \A s : s \in Sent(batch) <=> s \in rows
  BY <1>2, <1>3, <1>4, Zenon
<1>6. Sent(batch) = rows
  BY <1>5
<1>7. rows = {<<k[1], [id |-> k[2], properties |-> table[k]]>> : k \in Pending(table)}
  <2>1. \A k \in Pending(table) : row(k[1], k[2]) = [id |-> k[2], properties |-> table[k]]
    BY DEF row, Pending
  <2> QED BY <2>1 DEF rows
<1> QED BY <1>6, <1>7
=============================================================================
