---------------------------- MODULE Relationship ----------------------------
(***************************************************************************)
(* The proxy of a relationship between objects: RelationshipObject of      *)
(* lib/intersys/bindings/reflection.rb.  The collection is on the server,  *)
(* where others change it too; the proxy remembers what it was answered    *)
(* until it is told to reload.  A step is one call to the server.          *)
(***************************************************************************)
EXTENDS Integers, Sequences, FiniteSets, SequencesExt

CONSTANTS
  MaxItems,     \* bound on the objects ever inserted
  MaxRelFaults  \* bound on the calls that fail

ASSUME BoundsAssumption == MaxItems \in Nat /\ MaxRelFaults \in Nat

VARIABLES
  items,     \* the collection on the server
  inserted,  \* objects ever inserted; an object is named by its number
  count,     \* @count, or Unasked
  empty,     \* @empty: only a true answer is kept, nil and false ask again
  list,      \* @list, the empty sequence for nil
  loaded,    \* @loaded
  load,      \* the load in progress: how many elements it has and is to have
  relFaults, \* failed calls so far
  seen,      \* what the collection was at some moment since the last reload
  before     \* how long @list was when the last load began

relVars == <<items, inserted, count, empty, list, loaded, load, relFaults, seen, before>>

Unasked == -1
Nil     == 0   \* GetAt beyond the end

NoLoad == [i |-> 0, upto |-> -1]

RelTypeOK ==
  /\ inserted \in 0..MaxItems /\ relFaults \in 0..MaxRelFaults
  /\ items \in Seq(1..inserted)
  /\ count \in Nat \cup {Unasked}
  /\ empty \in {"unknown", "true"} /\ loaded \in {"no", "yes"}
  /\ list \in Seq(0..inserted)
  /\ load \in {NoLoad} \cup [i: Nat, upto: Nat]
  /\ before \in 0..Len(list)
  /\ \A past \in seen : past \in Seq(1..inserted)

RelInit ==
  /\ \E n \in 0..MaxItems : items = [i \in 1..n |-> i] /\ inserted = n
  /\ count = Unasked /\ empty = "unknown" /\ list = <<>> /\ loaded = "no"
  /\ load = NoLoad /\ relFaults = 0 /\ seen = {items} /\ before = 0

-----------------------------------------------------------------------------
(* The collection on the server.                                           *)

CollectionBecomes(s) == items' = s /\ seen' = seen \cup {s}

\* GetAt(index), counted from 1.
GetAt(index) == IF index <= Len(items) THEN items[index] ELSE Nil

\* Another client adds an object, or takes one out.
OthersInsert ==
  /\ inserted < MaxItems /\ inserted' = inserted + 1
  /\ \E i \in 1..(Len(items) + 1) : CollectionBecomes(InsertAt(items, i, inserted'))
  /\ UNCHANGED <<count, empty, list, loaded, load, relFaults, before>>

OthersRemove ==
  /\ \E i \in DOMAIN items : CollectionBecomes(RemoveAt(items, i))
  /\ UNCHANGED <<inserted, count, empty, list, loaded, load, relFaults, before>>

-----------------------------------------------------------------------------
(* The proxy.                                                              *)

AtRest == load = NoLoad

\* empty?, asked of the server until it is true.
AskEmpty ==
  /\ AtRest /\ empty = "unknown"
  /\ empty' = IF items = <<>> THEN "true" ELSE "unknown"
  /\ UNCHANGED <<items, inserted, count, list, loaded, load, relFaults, seen, before>>

\* count, asked once.
AskCount ==
  /\ AtRest /\ count = Unasked
  /\ count' = Len(items)
  /\ UNCHANGED <<items, inserted, empty, list, loaded, load, relFaults, seen, before>>

\* <<, which tells the server and none of the memos.
Insert ==
  /\ AtRest /\ inserted < MaxItems /\ inserted' = inserted + 1
  /\ CollectionBecomes(Append(items, inserted'))
  /\ UNCHANGED <<count, empty, list, loaded, load, relFaults, before>>

\* Slip: @count outlives a reload.
RelReloadKeepsCount ==
  /\ AtRest
  /\ list' = <<>> /\ loaded' = "no" /\ empty' = "unknown"
  /\ seen' = {items} /\ before' = 0
  /\ UNCHANGED <<items, inserted, count, load, relFaults>>

RelReload ==
  /\ AtRest
  /\ list' = <<>> /\ loaded' = "no" /\ empty' = "unknown" /\ count' = Unasked
  /\ seen' = {items} /\ before' = 0
  /\ UNCHANGED <<items, inserted, load, relFaults>>

\* to_a, include? and inspect load the list, unless it is: count is asked first,
\* then each.  An iteration of the caller is the same without the list, and leaves
\* the count behind (AskCount); its block may do any of the above.
BeginLoad ==
  /\ AtRest /\ loaded = "no"
  /\ count' = IF count = Unasked THEN Len(items) ELSE count
  /\ load' = [i |-> 0, upto |-> count']
  /\ before' = Len(list)
  /\ UNCHANGED <<items, inserted, empty, list, loaded, relFaults, seen>>

\* Slip: the server is asked with the index of Ruby.
NextElementUnshifted ==
  /\ load.i < load.upto
  /\ load' = [load EXCEPT !.i = @ + 1]
  /\ list' = Append(list, IF load.i = 0 THEN Nil ELSE GetAt(load.i))
  /\ UNCHANGED <<items, inserted, count, empty, loaded, relFaults, seen, before>>

\* self[i]: GetAt of i + 1.
NextElement ==
  /\ load.i < load.upto
  /\ load' = [load EXCEPT !.i = @ + 1]
  /\ list' = Append(list, GetAt(load.i + 1))
  /\ UNCHANGED <<items, inserted, count, empty, loaded, relFaults, seen, before>>

\* The last element is in: from now on self[i] reads the list.
EndLoad ==
  /\ ~AtRest /\ load.i = load.upto
  /\ load' = NoLoad /\ loaded' = "yes"
  /\ UNCHANGED <<items, inserted, count, empty, list, relFaults, seen, before>>

\* GetAt raises: the elements read so far stay in @list.
RelFails ==
  /\ load.i < load.upto
  /\ relFaults < MaxRelFaults /\ relFaults' = relFaults + 1
  /\ load' = NoLoad
  /\ UNCHANGED <<items, inserted, count, empty, list, loaded, seen, before>>

RelNext ==
  \/ OthersInsert \/ OthersRemove
  \/ AskEmpty \/ AskCount \/ Insert \/ RelReload
  \/ BeginLoad \/ NextElement \/ EndLoad \/ RelFails

RelSpec == RelInit /\ [][RelNext]_relVars

-----------------------------------------------------------------------------
(* Properties.                                                             *)

\* Whatever others do to the collection, and although no memo is told of an
\* insertion: what the proxy remembers was true of the server at some moment
\* since the last reload, its count, its emptiness and every element of its list.
AnswersOnceTrue ==
  /\ count # Unasked => \E past \in seen : Len(past) = count
  /\ empty = "true" => <<>> \in seen
  /\ \A i \in DOMAIN list :
       list[i] # Nil => \E past \in seen : list[i] \in ToSet(past)

\* A list that is loaded has as many elements as the remembered count says, on top
\* of what a load that failed left in it, even if the collection has grown or shrunk
\* under the load; and what it has beyond the end are nils, not somebody else's objects.
ListAsCounted ==
  loaded = "yes" =>
    /\ Len(list) = before + count
    /\ (relFaults = 0 => before = 0)
    /\ (Cardinality(seen) = 1 => SubSeq(list, before + 1, Len(list)) = items)
=============================================================================
