---------------------------- MODULE TPEventStore ----------------------------
(***************************************************************************)
(* The on-disk queue of events (TPEventStore.m): a YapDatabase table from  *)
(* (collection, id) to the properties of an event.  Every method of the    *)
(* class is one transaction on one connection, which YapDatabase runs      *)
(* under that connection's serial queue, so each is one operator here on   *)
(* the value of the table; the state that holds the table belongs to the   *)
(* modules that use it.                                                    *)
(***************************************************************************)
EXTENDS Naturals, Sequences, FiniteSets, SequencesExt

CONSTANTS
  Collections,  \* collection names
  Ids,          \* values of the property "id"
  Payloads,     \* the other properties of an event, as one value
  NoPayload,    \* what the table holds for a key that is absent
  NoId          \* the id of an event that never got one

ASSUME StoreAssumption ==
  /\ IsFiniteSet(Ids)
  /\ NoPayload \notin Payloads
  /\ NoId \notin Ids

Keys == Collections \X Ids

Table == [Keys -> Payloads \cup {NoPayload}]

\* A TPEvent.  An event that failed validation has no id: process: returns
\* before addDefaultProperties.
Event == [id : Ids \cup {NoId}, properties : Payloads]

\* A batch: NSDictionary of collection name to NSArray of TPEvent.  A
\* collection that is no key of the dictionary has the empty sequence.
Batch == [Collections -> Seq(Event)]

NoBatch == [c \in Collections |-> <<>>]

EmptyTable == [k \in Keys |-> NoPayload]

StoredIds(table, collection) ==
  {i \in Ids : table[<<collection, i>>] # NoPayload}

Pending(table) == {k \in Keys : table[k] # NoPayload}

\* Faulty: the TPEvent itself is stored.
addEvent_Object(table, event, collection) ==
  [table EXCEPT ![<<collection, event.id>>] = event]

\* setObject:forKey:inCollection: inserts or overwrites.
addEvent(table, event, collection) ==
  [table EXCEPT ![<<collection, event.id>>] = event.properties]

\* Faulty: empties the collection.
removeEventWithId_Collection(table, id, collection) ==
  [k \in Keys |-> IF k[1] = collection THEN NoPayload ELSE table[k]]

\* removeObjectForKey:inCollection: does nothing for an absent or a nil key.
removeEventWithId(table, id, collection) ==
  [table EXCEPT ![<<collection, id>>] = NoPayload]

deleteAllPendingEvents(table) == [k \in Keys |-> NoPayload]

\* The TPEvents of one collection, in some order: the enumeration sorts by
\* collection only and leaves the order of the rows of a collection open.
CollectionBatches(table, collection) ==
  SetToSeqs({[id |-> i, properties |-> table[<<collection, i>>]] :
               i \in StoredIds(table, collection)})

\* Faulty: stops after the first row of a collection.
fetchPendingEvents_First(table) ==
  {[c \in Collections |-> [i \in DOMAIN b[c] \cap {1} |-> b[c][i]]] :
     b \in {b \in [Collections -> UNION {CollectionBatches(table, c) : c \in Collections}] :
              \A c \in Collections : b[c] \in CollectionBatches(table, c)}}

\* The batches fetchPendingEventsWithCompletionHandler: may hand over.
fetchPendingEvents(table) ==
  {b \in [Collections -> UNION {CollectionBatches(table, c) : c \in Collections}] :
     \A c \in Collections : b[c] \in CollectionBatches(table, c)}
=============================================================================
