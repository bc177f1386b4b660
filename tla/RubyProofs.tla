----------------------------- MODULE RubyProofs -----------------------------
(***************************************************************************)
(* What the Ruby layer remembers, for any number of classes, names,        *)
(* models, connections, objects and blocks: the registries of ClassNames   *)
(* and Schema, the proxy of Relationship, the retries of Record and        *)
(* read_all of Stream.                                                     *)
(***************************************************************************)
EXTENDS MCRuby, MetadataProofs, SequenceTheorems, FiniteSetTheorems, TLAPS

-----------------------------------------------------------------------------
(* The registry of classes.                                                *)

\* Where the default argument is the method's answer, a name leads to a class exactly
\* if the class took it last and goes by it; where it is nil, only to one whose own
\* default it is.
Registry ==
  /\ reading = "method" =>
       /\ class_names[NoName] = NoClass
       /\ \A n \in Names, k \in Rubies :
            class_names[n] = k <=> claimant[n] = k /\ className[k] = n
  /\ reading = "nil" =>
       \A n \in Names, k \in Rubies : class_names[n] = k => DefaultName[k] = n

\* Defining and naming classes keeps the types of the registry.
THEOREM ClassTypeCorrect == ClassSpec => []ClassTypeOK
<1>1. ClassInit => ClassTypeOK
  BY DEF ClassInit, ClassTypeOK
<1>2. ClassTypeOK /\ [ClassNext]_classVars => ClassTypeOK'
  <2> SUFFICES ASSUME ClassTypeOK, [ClassNext]_classVars PROVE ClassTypeOK'
    OBVIOUS
  <2>1. ASSUME NEW k \in Rubies, Inherited(k) PROVE ClassTypeOK'
    BY <2>1, NoClassAssumption DEF Inherited, Claims, Registered, ClassTypeOK
  <2>2. ASSUME NEW k \in Rubies, NEW n \in Names, SetName(k, n) PROVE ClassTypeOK'
    BY <2>2, NoClassAssumption DEF SetName, Claims, Registered, ClassTypeOK
  <2>3. CASE UNCHANGED classVars
    BY <2>3 DEF classVars, ClassTypeOK
  <2>4. QED
    BY <2>1, <2>2, <2>3 DEF ClassNext
<1>3. QED
  BY <1>1, <1>2, PTL DEF ClassSpec

\* Taking a name over keeps the registry in order.
LEMMA RegisteredInOrder ==
  ASSUME ClassTypeOK, Registry, NEW k \in Rubies, NEW n \in Names, Claims(k, n),
         \/ class_names' = Registered(k, n)
         \/ n = DefaultName[k] /\ class_names' = [Registered(k, n) EXCEPT ![n] = k]
  PROVE  Registry'
<1>1. CASE reading = "method"
  <2>1. /\ DOMAIN class_names = Names \cup {NoName} /\ NoName # n
        /\ class_names[NoName] = NoClass /\ NoClass # k
    BY <1>1, NoClassAssumption DEF Registry, ClassTypeOK
  <2>2. class_names' = [m \in Names \cup {NoName} |->
                          IF m = n THEN k ELSE IF class_names[m] = k THEN NoClass ELSE class_names[m]]
    BY <1>1, <2>1 DEF Registered
  <2>3. class_names'[NoName] = NoClass
    BY <2>1, <2>2
  <2>4. ASSUME NEW m \in Names, NEW j \in Rubies
        PROVE  class_names'[m] = j <=> claimant'[m] = j /\ className'[j] = m
    BY <1>1, <2>2, NoClassAssumption DEF Claims, Registry, ClassTypeOK
  <2>5. QED
    BY <1>1, <2>3, <2>4 DEF Registry, Claims
<1>2. CASE reading = "nil"
  <2>1. ASSUME NEW m \in Names, NEW j \in Rubies, class_names'[m] = j
        PROVE  DefaultName[j] = m
    <3>1. m \in DOMAIN class_names /\ m # NoName /\ j # NoClass
      BY NoClassAssumption DEF ClassTypeOK
    <3>2. Registered(k, n)[m] = j => class_names[m] = j
      BY <1>2, <3>1 DEF Registered
    <3>3. DOMAIN Registered(k, n) = DOMAIN class_names
      BY DEF Registered
    <3>4. CASE class_names' = Registered(k, n)
      BY <1>2, <2>1, <3>2, <3>4 DEF Registry
    <3>5. CASE n = DefaultName[k] /\ class_names' = [Registered(k, n) EXCEPT ![n] = k]
      <4>1. m # n => class_names'[m] = Registered(k, n)[m]
        BY <3>1, <3>3, <3>5
      <4>2. m = n => class_names'[m] = k
        BY <3>1, <3>3, <3>5
      <4>3. QED
        BY <1>2, <2>1, <3>2, <3>5, <4>1, <4>2 DEF Registry
    <3>6. QED
      BY <3>4, <3>5
  <2>2. QED
    BY <1>2, <2>1 DEF Registry, Claims
<1>3. QED
  BY <1>1, <1>2 DEF ClassTypeOK

\* Objects become what ObjectsBecomeTheirs says, however many classes take names
\* from each other.
THEOREM ObjectsBecomeTheirsHolds == ClassSpec => []ObjectsBecomeTheirs
<1>1. ClassInit => Registry
  BY NoClassAssumption DEF ClassInit, Registry
<1>2. ClassTypeOK /\ Registry /\ [ClassNext]_classVars => Registry'
  <2> SUFFICES ASSUME ClassTypeOK, Registry, [ClassNext]_classVars PROVE Registry'
    OBVIOUS
  <2>1. ASSUME NEW k \in Rubies, Inherited(k) PROVE Registry'
    <3>1. DefaultName[k] \in Names
      BY NoClassAssumption
    <3>2. QED
      BY <2>1, <3>1, RegisteredInOrder DEF Inherited
  <2>2. ASSUME NEW k \in Rubies, NEW n \in Names, SetName(k, n) PROVE Registry'
    BY <2>2, RegisteredInOrder DEF SetName
  <2>3. CASE UNCHANGED classVars
    BY <2>3 DEF classVars, Registry
  <2>4. QED
    BY <2>1, <2>2, <2>3 DEF ClassNext
<1>3. ClassTypeOK /\ Registry => ObjectsBecomeTheirs
  BY NoClassAssumption DEF ClassTypeOK, Registry, ObjectsBecomeTheirs, lookup
<1>4. QED
  BY <1>1, <1>2, <1>3, ClassTypeCorrect, PTL DEF ClassSpec

-----------------------------------------------------------------------------
(* The map of serial classes and the views of a column.                    *)

\* Defining and naming serial classes and asking for columns, by whatever connection,
\* keeps the types of the map and of the memos.
THEOREM SchemaTypeCorrect == SchemaSpec => []SchemaTypeOK
<1>1. SchemaInit => SchemaTypeOK
  BY DEF SchemaInit, SchemaTypeOK
<1>2. SchemaTypeOK /\ [SchemaNext]_schemaVars => SchemaTypeOK'
  <2> SUFFICES ASSUME SchemaTypeOK, [SchemaNext]_schemaVars PROVE SchemaTypeOK'
    OBVIOUS
  <2>1. ASSUME NEW k \in Serials, InheritedSerial(k) PROVE SchemaTypeOK'
    BY <2>1, TablesAssumption DEF InheritedSerial, Named, SchemaTypeOK
  <2>2. ASSUME NEW k \in Serials, NEW t \in Types, Rename(k, t) PROVE SchemaTypeOK'
    BY <2>2 DEF Rename, Named, SchemaTypeOK
  <2>3. ASSUME NEW a \in Adapters, NEW m \in Models PROVE Kind(a, m) \in Kinds
    BY DEF Kind, Kinds, SchemaTypeOK
  <2>4. ASSUME NEW a \in Adapters, NEW m \in Models, AskTooEarly(a, m) PROVE SchemaTypeOK'
    BY <2>4 DEF AskTooEarly, Unnamed, SchemaTypeOK
  <2>5. ASSUME NEW a \in Adapters, NEW m \in Models, AskColumns(a, m) PROVE SchemaTypeOK'
    BY <2>3, <2>5 DEF AskColumns, Caches, Unnamed, SchemaTypeOK, Memo
  <2>6. ASSUME NEW a \in Adapters, NEW m \in Models, AskSerialColumns(a, m) PROVE SchemaTypeOK'
    BY <2>3, <2>6 DEF AskSerialColumns, Caches, Unnamed, SchemaTypeOK, Memo
  <2>7. ASSUME NEW a \in Adapters, NEW m \in Models, Project(a, m) PROVE SchemaTypeOK'
    BY <2>3, <2>7 DEF Project, Caches, Unnamed, SchemaTypeOK
  <2>8. ASSUME NEW m \in Models, DefineAccessor(m) PROVE SchemaTypeOK'
    BY <2>8, TablesAssumption DEF DefineAccessor, Unnamed, SchemaTypeOK
  <2>9. CASE UNCHANGED schemaVars
    BY <2>9 DEF schemaVars, SchemaTypeOK
  <2>10. QED
    BY <2>1, <2>2, <2>4, <2>5, <2>6, <2>7, <2>8, <2>9 DEF SchemaNext
<1>3. QED
  BY <1>1, <1>2, PTL DEF SchemaSpec

\* Two classes of one name have shared it, and the map leads to owners.
MapInOrder ==
  /\ \A j, k \in Serials : j # k /\ table_name[j] = table_name[k] => table_name[k] \in shared \cup {Nobody}
  /\ MapLeadsToOwner

\* The map leads from every unshared name to its class, and from no other name,
\* whatever classes are renamed to.
THEOREM MapLeadsToOwnerHolds == SchemaSpec => []MapLeadsToOwner
<1>1. SchemaInit => MapInOrder
  BY NobodyAssumption DEF SchemaInit, MapInOrder, MapLeadsToOwner
<1>2. SchemaTypeOK /\ MapInOrder /\ [SchemaNext]_schemaVars => MapInOrder'
  <2> SUFFICES ASSUME SchemaTypeOK, MapInOrder, [SchemaNext]_schemaVars PROVE MapInOrder'
    OBVIOUS
  <2> USE NobodyAssumption DEF SchemaTypeOK, MapInOrder, MapLeadsToOwner
  <2>1. ASSUME NEW k \in Serials, InheritedSerial(k) PROVE MapInOrder'
    <3>1. DefaultTable[k] \in Types
      BY TablesAssumption
    <3>2. QED
      BY <2>1, <3>1 DEF InheritedSerial, Named
  <2>2. ASSUME NEW k \in Serials, NEW t \in Types, Rename(k, t) PROVE MapInOrder'
    BY <2>2 DEF Rename, Named
  <2>3. CASE Unnamed
    BY <2>3 DEF Unnamed
  <2>4. CASE UNCHANGED schemaVars
    BY <2>4 DEF schemaVars
  <2>5. QED
    BY <2>1, <2>2, <2>3, <2>4
       DEF SchemaNext, AskTooEarly, AskColumns, AskSerialColumns, DefineAccessor, Project
<1>3. QED
  BY <1>1, <1>2, SchemaTypeCorrect, PTL DEF SchemaSpec, MapInOrder

\* What a class remembers of its column is what the adapter it asked remembers.
MemosInOrder ==
  \A m \in Models :
    /\ columns[m] # Nobody => cached[<<columns[m].from, m>>] = columns[m].kind
    /\ serial_columns[m] # Nobody => cached[<<serial_columns[m].from, m>>] = serial_columns[m].kind
    /\ accessor[m] # Nobody => serial_columns[m] # Nobody
    /\ accessor[m] \notin {Nobody, "none"} => serial_columns[m].kind = "serial"
    /\ accessor[m] = "none" => serial_columns[m].kind = "plain"

\* The views of a column agree, whenever serial classes are loaded and whoever asks.
THEOREM ViewsAgreeHold == SchemaSpec => []ViewsAgree
<1>1. SchemaInit => MemosInOrder
  BY NobodyAssumption DEF SchemaInit, MemosInOrder
<1>2. SchemaTypeOK /\ MemosInOrder /\ [SchemaNext]_schemaVars => MemosInOrder'
  <2> SUFFICES ASSUME SchemaTypeOK, MemosInOrder, [SchemaNext]_schemaVars PROVE MemosInOrder'
    OBVIOUS
  <2>1. ASSUME NEW a \in Adapters, NEW m \in Models, Caches(a, m)
        PROVE  /\ cached'[<<a, m>>] = Kind(a, m) /\ Kind(a, m) \in Kinds
               /\ \A b \in Adapters, n \in Models :
                    cached[<<b, n>>] # Nobody => cached'[<<b, n>>] = cached[<<b, n>>]
    BY <2>1 DEF Caches, Kind, Kinds, SchemaTypeOK
  <2>2. \A m \in Models :
          /\ columns[m] # Nobody => columns[m].from \in Adapters /\ columns[m].kind # Nobody
          /\ serial_columns[m] # Nobody =>
               serial_columns[m].from \in Adapters /\ serial_columns[m].kind # Nobody
    BY NobodyAssumption DEF SchemaTypeOK, Memo, Kinds
  <2>3. ASSUME NEW a \in Adapters, NEW m \in Models, AskColumns(a, m) PROVE MemosInOrder'
    <3>1. /\ columns' = [columns EXCEPT ![m] = [kind |-> Kind(a, m), from |-> a]]
          /\ serial_columns' = serial_columns /\ accessor' = accessor /\ columns[m] = Nobody
      BY <2>3 DEF AskColumns
    <3>2. Caches(a, m)
      BY <2>3 DEF AskColumns
    <3>3. columns'[m].kind = cached'[<<a, m>>] /\ columns'[m].from = a
      BY <2>1, <3>1, <3>2 DEF SchemaTypeOK
    <3>4. ASSUME NEW n \in Models, columns'[n] # Nobody
          PROVE  cached'[<<columns'[n].from, n>>] = columns'[n].kind
      <4>1. CASE n = m
        BY <3>3, <4>1
      <4>2. CASE n # m
        <5>1. columns'[n] = columns[n] /\ columns[n] # Nobody
          BY <3>1, <3>4, <4>2 DEF SchemaTypeOK
        <5>2. cached[<<columns[n].from, n>>] = columns[n].kind
          BY <5>1 DEF MemosInOrder
        <5>3. cached'[<<columns[n].from, n>>] = cached[<<columns[n].from, n>>]
          BY <2>1, <2>2, <3>2, <5>1, <5>2
        <5>4. QED
          BY <5>1, <5>2, <5>3
      <4>3. QED
        BY <4>1, <4>2
    <3>5. ASSUME NEW n \in Models, serial_columns[n] # Nobody
          PROVE  cached'[<<serial_columns[n].from, n>>] = serial_columns[n].kind
      BY <2>1, <2>2, <3>2, <3>5 DEF MemosInOrder
    <3>6. QED
      BY <3>1, <3>4, <3>5 DEF MemosInOrder
  <2>4. ASSUME NEW a \in Adapters, NEW m \in Models, AskSerialColumns(a, m) PROVE MemosInOrder'
    <3>1. /\ serial_columns' = [serial_columns EXCEPT ![m] = [kind |-> Kind(a, m), from |-> a]]
          /\ columns' = columns /\ accessor' = accessor /\ serial_columns[m] = Nobody
      BY <2>4 DEF AskSerialColumns
    <3>2. Caches(a, m)
      BY <2>4 DEF AskSerialColumns
    <3>3. serial_columns'[m].kind = cached'[<<a, m>>] /\ serial_columns'[m].from = a
      BY <2>1, <3>1, <3>2 DEF SchemaTypeOK
    <3>4. ASSUME NEW n \in Models, serial_columns'[n] # Nobody
          PROVE  cached'[<<serial_columns'[n].from, n>>] = serial_columns'[n].kind
      <4>1. CASE n = m
        BY <3>3, <4>1
      <4>2. CASE n # m
        <5>1. serial_columns'[n] = serial_columns[n] /\ serial_columns[n] # Nobody
          BY <3>1, <3>4, <4>2 DEF SchemaTypeOK
        <5>2. cached[<<serial_columns[n].from, n>>] = serial_columns[n].kind
          BY <5>1 DEF MemosInOrder
        <5>3. cached'[<<serial_columns[n].from, n>>] = cached[<<serial_columns[n].from, n>>]
          BY <2>1, <2>2, <3>2, <5>1, <5>2
        <5>4. QED
          BY <5>1, <5>2, <5>3
      <4>3. QED
        BY <4>1, <4>2
    <3>5. ASSUME NEW n \in Models, columns[n] # Nobody
          PROVE  cached'[<<columns[n].from, n>>] = columns[n].kind
      BY <2>1, <2>2, <3>2, <3>5 DEF MemosInOrder
    <3>6. accessor[m] = Nobody
      BY <3>1 DEF MemosInOrder
    <3>7. \A n \in Models : accessor[n] # Nobody => serial_columns'[n] = serial_columns[n]
      BY <3>1, <3>6 DEF SchemaTypeOK
    <3>8. QED
      BY <3>1, <3>4, <3>5, <3>7, NobodyAssumption DEF MemosInOrder
  <2>5. ASSUME NEW a \in Adapters, NEW m \in Models, Project(a, m) PROVE MemosInOrder'
    BY <2>1, <2>2, <2>5, ZenonT(40) DEF Project, MemosInOrder, SchemaTypeOK
  <2>6. ASSUME NEW m \in Models, DefineAccessor(m) PROVE MemosInOrder'
    <3>1. serial_columns[m].kind \in Kinds /\ tables[ColumnType[m]] \in Serials \cup {Nobody}
      BY <2>6, TablesAssumption DEF DefineAccessor, SchemaTypeOK, Memo
    <3>2. QED
      BY <2>6, <3>1, NobodyAssumption DEF DefineAccessor, MemosInOrder, SchemaTypeOK, Kinds
  <2>7. CASE UNCHANGED <<cached, columns, serial_columns, accessor>>
    BY <2>7 DEF MemosInOrder
  <2>8. QED
    BY <2>3, <2>4, <2>5, <2>6, <2>7
       DEF SchemaNext, InheritedSerial, Rename, Named, AskTooEarly, schemaVars
<1>3. SchemaTypeOK /\ MemosInOrder => ViewsAgree
  <2> SUFFICES ASSUME SchemaTypeOK, MemosInOrder, NEW m \in Models,
                      columns[m] # Nobody, serial_columns[m] # Nobody,
                      columns[m].from = serial_columns[m].from
               PROVE  columns[m] = serial_columns[m]
    BY DEF ViewsAgree, MemosInOrder
  <2>1. columns[m] \in Memo /\ serial_columns[m] \in Memo
    BY DEF SchemaTypeOK
  <2>2. columns[m].kind = serial_columns[m].kind
    BY DEF MemosInOrder
  <2>3. QED
    BY <2>1, <2>2 DEF Memo
<1>4. QED
  BY <1>1, <1>2, <1>3, SchemaTypeCorrect, PTL DEF SchemaSpec

-----------------------------------------------------------------------------
(* The proxy of a relationship.                                            *)

\* A part of a sequence.
LEMMA PartType ==
  ASSUME NEW S, NEW s \in Seq(S), NEW i \in 1..(Len(s) + 1), NEW j \in 0..Len(s), i <= j + 1
  PROVE  SubSeq(s, i, j) \in Seq(S) /\ Len(SubSeq(s, i, j)) = j + 1 - i
<1>1. /\ i \in Int /\ j \in Int /\ \A k \in i..j : s[k] \in S
  BY LenProperties
<1>2. QED
  BY <1>1, SubSeqProperties

\* An object that is put into a sequence, and one that is taken out.
LEMMA InsertedType ==
  ASSUME NEW S, NEW s \in Seq(S), NEW i \in 1..(Len(s) + 1), NEW e \in S
  PROVE  InsertAt(s, i, e) \in Seq(S) /\ Len(InsertAt(s, i, e)) = Len(s) + 1
<1>1. Len(s) \in Nat
  BY LenProperties
<1> DEFINE a == SubSeq(s, 1, i - 1)
           b == SubSeq(s, i, Len(s))
           c == <<e>>
<1>2. a \in Seq(S) /\ Len(a) = i - 1
  BY <1>1, PartType
<1>3. b \in Seq(S) /\ Len(b) = Len(s) + 1 - i
  BY <1>1, PartType
<1>4. c \in Seq(S) /\ Len(c) = 1
  OBVIOUS
<1>5. InsertAt(s, i, e) = (a \o c) \o b
  BY DEF InsertAt
<1> HIDE DEF a, b, c
<1>6. a \o c \in Seq(S) /\ Len(a \o c) = Len(a) + Len(c)
  BY <1>2, <1>4, ConcatProperties
<1>7. (a \o c) \o b \in Seq(S) /\ Len((a \o c) \o b) = Len(a \o c) + Len(b)
  BY <1>3, <1>6, ConcatProperties
<1>8. QED
  BY <1>1, <1>2, <1>3, <1>4, <1>5, <1>6, <1>7

LEMMA RemovedType ==
  ASSUME NEW S, NEW s \in Seq(S), NEW i \in 1..Len(s)
  PROVE  RemoveAt(s, i) \in Seq(S) /\ Len(RemoveAt(s, i)) = Len(s) - 1
<1>1. Len(s) \in Nat
  BY LenProperties
<1> DEFINE a == SubSeq(s, 1, i - 1)
           b == SubSeq(s, i + 1, Len(s))
<1>2. a \in Seq(S) /\ Len(a) = i - 1
  BY <1>1, PartType
<1>3. b \in Seq(S) /\ Len(b) = Len(s) - i
  BY <1>1, PartType
<1>4. RemoveAt(s, i) = a \o b
  BY DEF RemoveAt
<1> HIDE DEF a, b
<1>5. a \o b \in Seq(S) /\ Len(a \o b) = Len(a) + Len(b)
  BY <1>2, <1>3, ConcatProperties
<1>6. QED
  BY <1>1, <1>2, <1>3, <1>4, <1>5

\* What the server has is a sequence and has been seen, and what is remembered was seen.
Remembered ==
  /\ inserted \in Nat /\ items \in Seq(Nat) /\ items \in seen
  /\ list \in Seq(Nat) /\ load \in [i: Nat, upto: Int]
  /\ AnswersOnceTrue

\* Whatever others do and whichever calls fail, what the proxy remembers was true at
\* some moment since its last reload.
THEOREM AnswersOnceTrueHold == RelSpec => []AnswersOnceTrue
<1>1. RelInit => Remembered
  BY BoundsAssumption DEF RelInit, Remembered, AnswersOnceTrue, NoLoad, Unasked
<1>2. Remembered /\ [RelNext]_relVars => Remembered'
  <2> SUFFICES ASSUME Remembered, [RelNext]_relVars PROVE Remembered'
    OBVIOUS
  <2>1. ASSUME NEW s \in Seq(Nat), CollectionBecomes(s), inserted' \in Nat,
               UNCHANGED <<count, empty, list, load>>
        PROVE  Remembered'
    BY <2>1 DEF CollectionBecomes, Remembered, AnswersOnceTrue
  <2>2. CASE OthersInsert
    <3>1. PICK i \in 1..(Len(items) + 1) : CollectionBecomes(InsertAt(items, i, inserted'))
      BY <2>2 DEF OthersInsert
    <3>2. inserted' \in Nat /\ UNCHANGED <<count, empty, list, load>>
      BY <2>2 DEF OthersInsert, Remembered
    <3>3. InsertAt(items, i, inserted') \in Seq(Nat)
      BY <3>2, InsertedType DEF Remembered
    <3>4. QED
      BY <2>1, <3>1, <3>2, <3>3
  <2>3. CASE OthersRemove
    <3>1. PICK i \in DOMAIN items : CollectionBecomes(RemoveAt(items, i))
      BY <2>3 DEF OthersRemove
    <3>2. inserted' \in Nat /\ UNCHANGED <<count, empty, list, load>>
      BY <2>3 DEF OthersRemove, Remembered
    <3>3. RemoveAt(items, i) \in Seq(Nat)
      BY RemovedType DEF Remembered
    <3>4. QED
      BY <2>1, <3>1, <3>2, <3>3
  <2>4. CASE AskEmpty
    BY <2>4 DEF AskEmpty, Remembered, AnswersOnceTrue
  <2>5. CASE AskCount
    BY <2>5 DEF AskCount, Remembered, AnswersOnceTrue
  <2>6. CASE Insert
    <3>1. inserted' \in Nat /\ UNCHANGED <<count, empty, list, load>>
      BY <2>6 DEF Insert, Remembered
    <3>2. Append(items, inserted') \in Seq(Nat)
      BY <3>1 DEF Remembered
    <3>3. QED
      BY <2>1, <2>6, <3>1, <3>2 DEF Insert
  <2>7. CASE RelReload
    BY <2>7 DEF RelReload, Remembered, AnswersOnceTrue, Unasked
  <2>8. CASE BeginLoad
    <3>1. count' # Unasked => \E past \in seen : Len(past) = count'
      BY <2>8 DEF BeginLoad, Remembered, AnswersOnceTrue
    <3>2. QED
      BY <2>8, <3>1 DEF BeginLoad, Remembered, AnswersOnceTrue
  <2>9. CASE NextElement
    <3>1. load.i + 1 \in Nat \ {0}
      BY DEF Remembered
    <3>2. GetAt(load.i + 1) \in Nat /\ (GetAt(load.i + 1) # Nil => GetAt(load.i + 1) \in ToSet(items))
      BY <3>1 DEF GetAt, Nil, Remembered, ToSet
    <3>3. QED
      BY <2>9, <3>1, <3>2, SMTT(30) DEF NextElement, Remembered, AnswersOnceTrue
  <2>10. CASE EndLoad
    BY <2>10 DEF EndLoad, Remembered, AnswersOnceTrue, NoLoad
  <2>11. CASE RelFails
    BY <2>11 DEF RelFails, Remembered, AnswersOnceTrue, NoLoad
  <2>12. CASE UNCHANGED relVars
    BY <2>12 DEF relVars, Remembered, AnswersOnceTrue
  <2>13. QED
    BY <2>2, <2>3, <2>4, <2>5, <2>6, <2>7, <2>8, <2>9, <2>10, <2>11, <2>12 DEF RelNext
<1>3. Remembered => AnswersOnceTrue
  BY DEF Remembered
<1>4. QED
  BY <1>1, <1>2, <1>3, PTL DEF RelSpec

\* Nobody has changed the collection since the last reload.
Unchanged == Cardinality(seen) = 1

\* What is counted is what is loaded, after what a load that failed has left.
Counted ==
  /\ inserted \in Nat /\ items \in Seq(Nat) /\ list \in Seq(Nat) /\ relFaults \in Nat
  /\ before \in Nat /\ before <= Len(list)
  /\ count \in Nat \cup {Unasked} /\ loaded \in {"no", "yes"}
  /\ IsFiniteSet(seen) /\ items \in seen
  /\ (relFaults = 0) => (before = 0)
  /\ (relFaults = 0 /\ loaded = "no" /\ load = NoLoad) => (list = <<>>)
  /\ (loaded = "yes") => (load = NoLoad /\ count \in Nat /\ Len(list) = before + count)
  /\ (load # NoLoad) => /\ load \in [i: Nat, upto: Nat]
                        /\ load.upto = count /\ load.i <= load.upto
                        /\ Len(list) = before + load.i
  /\ (Unchanged /\ count # Unasked) => (count = Len(items))
  /\ (Unchanged /\ (loaded = "yes" \/ load # NoLoad)) =>
       \A i \in (before + 1)..Len(list) : list[i] = items[i - before]

\* A collection that others have changed is another one.
LEMMA ChangedIsSeen ==
  ASSUME Counted, NEW s, s # items, CollectionBecomes(s)
  PROVE  IsFiniteSet(seen)' /\ items' \in seen' /\ ~Unchanged'
<1>1. seen' = seen \cup {s} /\ items' = s
  BY DEF CollectionBecomes
<1>2. IsFiniteSet(seen') /\ items \in seen' /\ s \in seen'
  BY <1>1, FS_AddElement DEF Counted
<1>3. Cardinality(seen') = 1 => \E x : seen' = {x}
  BY <1>2, FS_Singleton
<1>4. Cardinality(seen') # 1
  BY <1>2, <1>3
<1>5. QED
  BY <1>1, <1>2, <1>4 DEF Unchanged

\* Whatever others do to the collection and whichever calls fail: a list that is loaded
\* is as long as the count says.
THEOREM ListAsCountedHolds == RelSpec => []ListAsCounted
<1>1. RelInit => Counted
  <2> SUFFICES ASSUME RelInit PROVE Counted
    OBVIOUS
  <2>1. PICK n \in 0..MaxItems : items = [i \in 1..n |-> i] /\ inserted = n
    BY DEF RelInit
  <2>2. n \in Nat /\ items \in Seq(Nat)
    BY <2>1, BoundsAssumption
  <2>3. IsFiniteSet(seen) /\ items \in seen
    BY FS_Singleton DEF RelInit
  <2>4. QED
    BY <2>1, <2>2, <2>3 DEF RelInit, Counted, Unasked, NoLoad
<1>2. Counted /\ [RelNext]_relVars => Counted'
  <2> SUFFICES ASSUME Counted, [RelNext]_relVars PROVE Counted'
    OBVIOUS
  <2>1. ASSUME NEW s \in Seq(Nat), Len(s) # Len(items), CollectionBecomes(s), inserted' \in Nat,
               UNCHANGED <<count, empty, list, loaded, load, relFaults, before>>
        PROVE  Counted'
    <3>1. items' = s /\ IsFiniteSet(seen)' /\ items' \in seen' /\ ~Unchanged'
      BY <2>1, ChangedIsSeen DEF CollectionBecomes
    <3>2. QED
      BY <2>1, <3>1 DEF Counted
  <2>2. CASE OthersInsert
    <3>1. PICK i \in 1..(Len(items) + 1) : CollectionBecomes(InsertAt(items, i, inserted'))
      BY <2>2 DEF OthersInsert
    <3>2. /\ inserted' \in Nat
          /\ UNCHANGED <<count, empty, list, loaded, load, relFaults, before>>
      BY <2>2 DEF OthersInsert, Counted
    <3>3. /\ InsertAt(items, i, inserted') \in Seq(Nat)
          /\ Len(InsertAt(items, i, inserted')) # Len(items)
      BY <3>2, InsertedType, SMTT(30) DEF Counted
    <3>4. QED
      BY <2>1, <3>1, <3>2, <3>3
  <2>3. CASE OthersRemove
    <3>1. PICK i \in 1..Len(items) : CollectionBecomes(RemoveAt(items, i))
      BY <2>3 DEF OthersRemove, Counted
    <3>2. /\ inserted' \in Nat
          /\ UNCHANGED <<count, empty, list, loaded, load, relFaults, before>>
      BY <2>3 DEF OthersRemove, Counted
    <3>3. RemoveAt(items, i) \in Seq(Nat) /\ Len(RemoveAt(items, i)) # Len(items)
      BY RemovedType DEF Counted
    <3>4. QED
      BY <2>1, <3>1, <3>2, <3>3
  <2>4. CASE AskEmpty
    BY <2>4 DEF AskEmpty, Counted, Unchanged
  <2>5. CASE AskCount
    BY <2>5 DEF AskCount, AtRest, Counted, Unchanged, Unasked
  <2>6. CASE Insert
    <3>1. /\ inserted' \in Nat
          /\ UNCHANGED <<count, empty, list, loaded, load, relFaults, before>>
      BY <2>6 DEF Insert, Counted
    <3>2. /\ Append(items, inserted') \in Seq(Nat)
          /\ Len(Append(items, inserted')) # Len(items)
      BY <3>1 DEF Counted
    <3>3. QED
      BY <2>1, <2>6, <3>1, <3>2 DEF Insert
  <2>7. CASE RelReload
    <3>1. IsFiniteSet(seen)' /\ items' \in seen'
      BY <2>7, FS_Singleton DEF RelReload
    <3>2. QED
      BY <2>7, <3>1 DEF RelReload, AtRest, Counted, Unchanged, Unasked
  <2>8. CASE BeginLoad
    <3>1. /\ load = NoLoad /\ loaded = "no" /\ load' = [i |-> 0, upto |-> count']
          /\ before' = Len(list) /\ count' = (IF count = Unasked THEN Len(items) ELSE count)
          /\ UNCHANGED <<items, inserted, list, loaded, relFaults, seen>>
      BY <2>8 DEF BeginLoad, AtRest
    <3>2. count' \in Nat /\ Len(list) \in Nat /\ (Unchanged => count' = Len(items))
      BY <3>1 DEF Counted
    <3>3. load' \in [i: Nat, upto: Nat] /\ load'.i = 0 /\ load'.upto = count' /\ load' # NoLoad
      BY <3>1, <3>2 DEF NoLoad
    <3>4. QED
      BY <3>1, <3>2, <3>3 DEF Counted, Unchanged
  <2>9. CASE NextElement
    <3> DEFINE e == GetAt(load.i + 1)
    <3>1. /\ load.i < load.upto /\ load' = [load EXCEPT !.i = @ + 1] /\ list' = Append(list, e)
          /\ UNCHANGED <<items, inserted, count, loaded, relFaults, seen, before>>
      BY <2>9 DEF NextElement
    <3>2. /\ load # NoLoad /\ load \in [i: Nat, upto: Nat]
          /\ load.upto = count /\ Len(list) = before + load.i
      BY <3>1 DEF Counted, NoLoad
    <3>3. e \in Nat /\ (Unchanged => e = items[load.i + 1])
      BY <3>1, <3>2, SMTT(30) DEF Counted, GetAt, Nil, Unasked
    <3> HIDE DEF e
    <3>4. /\ list' \in Seq(Nat) /\ Len(list') = Len(list) + 1 /\ list'[Len(list) + 1] = e
          /\ \A i \in 1..Len(list) : list'[i] = list[i]
      BY <3>1, <3>3 DEF Counted
    <3>5. load' \in [i: Nat, upto: Nat] /\ load'.i = load.i + 1 /\ load'.upto = load.upto /\ load' # NoLoad
      BY <3>1, <3>2 DEF NoLoad
    <3>6. ASSUME Unchanged, NEW i \in (before + 1)..Len(list') PROVE list'[i] = items[i - before]
      <4>1. Len(list) \in Nat /\ before \in Nat /\ load.i \in Nat
        BY <3>2 DEF Counted
      <4>2. CASE i <= Len(list)
        BY <3>2, <3>4, <3>6, <4>1, <4>2 DEF Counted
      <4>3. CASE i = Len(list) + 1
        <5>1. i - before = load.i + 1
          BY <3>2, <4>1, <4>3
        <5>2. QED
          BY <3>3, <3>4, <3>6, <4>3, <5>1
      <4>4. QED
        BY <3>4, <4>1, <4>2, <4>3
    <3>7. (Unchanged /\ (loaded = "yes" \/ load # NoLoad))' =>
            \A i \in (before' + 1)..Len(list') : list'[i] = items'[i - before']
      <4>1. (Unchanged' => Unchanged) /\ items' = items /\ before' = before
        BY <3>1 DEF Unchanged
      <4>2. QED
        BY <3>6, <4>1, Zenon
    <3>8. /\ (relFaults' = 0 => before' = 0) /\ load' # NoLoad /\ loaded' = "no"
          /\ load'.upto = count' /\ load'.i <= load'.upto /\ Len(list') = before' + load'.i
          /\ before' \in Nat /\ before' <= Len(list')
      <4>1. loaded = "no" /\ (relFaults = 0 => before = 0) /\ before \in Nat
        BY <3>2 DEF Counted
      <4>2. /\ load.i \in Nat /\ load.upto \in Nat /\ load.i + 1 <= load.upto
            /\ Len(list') = before + (load.i + 1)
        BY <3>1, <3>2, <3>4, <4>1
      <4>3. /\ loaded' = "no" /\ relFaults' = relFaults /\ before' = before /\ count' = count
        BY <3>1, <4>1
      <4>4. QED
        BY <3>2, <3>5, <4>1, <4>2, <4>3
    <3>9. (Unchanged /\ count # Unasked)' => (count = Len(items))'
      BY <3>1 DEF Counted, Unchanged
    <3>10. QED
      BY <3>1, <3>4, <3>5, <3>7, <3>8, <3>9 DEF Counted
  <2>10. CASE EndLoad
    BY <2>10 DEF EndLoad, AtRest, Counted, Unchanged, NoLoad
  <2>11. CASE RelFails
    <3>1. load # NoLoad
      BY <2>11 DEF RelFails, NoLoad
    <3>2. QED
      BY <2>11, <3>1 DEF RelFails, Counted, Unchanged, NoLoad
  <2>12. CASE UNCHANGED relVars
    BY <2>12 DEF relVars, Counted, Unchanged
  <2>13. QED
    BY <2>2, <2>3, <2>4, <2>5, <2>6, <2>7, <2>8, <2>9, <2>10, <2>11, <2>12 DEF RelNext
<1>3. Counted => ListAsCounted
  <2> SUFFICES ASSUME Counted, loaded = "yes" PROVE ListAsCounted
    BY DEF ListAsCounted
  <2> DEFINE rest == SubSeq(list, before + 1, Len(list))
  <2>1. Len(list) = before + count /\ count \in Nat /\ (relFaults = 0 => before = 0)
    BY DEF Counted
  <2>2. ASSUME Unchanged PROVE rest = items
    <3>1. /\ rest \in Seq(Nat) /\ Len(rest) = count
          /\ \A i \in 1..count : rest[i] = list[before + i]
      BY <2>1 DEF Counted
    <3>2. count = Len(items) /\ \A i \in 1..count : list[before + i] = items[i]
      BY <2>1, <2>2 DEF Counted, Unasked
    <3> HIDE DEF rest
    <3>3. QED
      BY <3>1, <3>2, SeqEqual DEF Counted
  <2>3. QED
    BY <2>1, <2>2 DEF ListAsCounted, Unchanged
<1>4. QED
  BY <1>1, <1>2, <1>3, PTL DEF RelSpec

\* A sequence of objects is one among more objects.
LEMMA MoreObjects ==
  ASSUME NEW a \in {0, 1}, NEW n \in Nat, NEW s \in Seq(a..n)
  PROVE  s \in Seq(a..(n + 1))
OBVIOUS

\* Whatever others do to the collection and whichever calls fail, a relationship keeps
\* its types.
THEOREM RelTypeCorrect == RelSpec => []RelTypeOK
<1>1. RelInit => RelTypeOK
  <2> SUFFICES ASSUME RelInit PROVE RelTypeOK
    OBVIOUS
  <2>1. PICK n \in 0..MaxItems : items = [i \in 1..n |-> i] /\ inserted = n
    BY DEF RelInit
  <2>2. n \in Nat /\ items \in Seq(1..n)
    BY <2>1, BoundsAssumption
  <2>3. list = <<>> /\ <<>> \in Seq(0..n) /\ Len(<<>>) = 0
    BY <2>2 DEF RelInit
  <2>4. QED
    BY <2>1, <2>2, <2>3, BoundsAssumption DEF RelInit, RelTypeOK
<1>2. RelTypeOK /\ [RelNext]_relVars => RelTypeOK'
  <2> SUFFICES ASSUME RelTypeOK, [RelNext]_relVars PROVE RelTypeOK'
    OBVIOUS
  <2>1. /\ inserted \in Nat /\ Len(items) \in Nat /\ Len(list) \in Nat
        /\ items \in Seq(1..inserted) /\ list \in Seq(0..inserted)
    BY BoundsAssumption, LenProperties DEF RelTypeOK
  <2>2. ASSUME inserted < MaxItems, inserted' = inserted + 1, NEW s \in Seq(1..inserted'),
               CollectionBecomes(s), UNCHANGED <<count, empty, list, loaded, load, relFaults, before>>
        PROVE  RelTypeOK'
    <3>1. list' \in Seq(0..inserted') /\ \A past \in seen : past \in Seq(1..inserted')
      BY <2>1, <2>2, MoreObjects DEF RelTypeOK
    <3>2. items' = s /\ seen' = seen \cup {s}
      BY <2>2 DEF CollectionBecomes
    <3>3. QED
      BY <2>1, <2>2, <3>1, <3>2, BoundsAssumption DEF RelTypeOK
  <2>3. inserted < MaxItems => items \in Seq(1..(inserted + 1)) /\ inserted + 1 \in 1..(inserted + 1)
    BY <2>1, MoreObjects
  <2>4. CASE OthersInsert
    <3>1. PICK i \in 1..(Len(items) + 1) : CollectionBecomes(InsertAt(items, i, inserted'))
      BY <2>4 DEF OthersInsert
    <3>2. InsertAt(items, i, inserted') \in Seq(1..inserted')
      BY <2>3, <2>4, InsertedType DEF OthersInsert
    <3>3. QED
      BY <2>2, <2>4, <3>1, <3>2 DEF OthersInsert
  <2>5. CASE OthersRemove
    <3>1. PICK i \in DOMAIN items : CollectionBecomes(RemoveAt(items, i))
      BY <2>5 DEF OthersRemove
    <3>2. RemoveAt(items, i) \in Seq(1..inserted)
      BY <2>1, RemovedType, LenProperties
    <3>3. items' = RemoveAt(items, i) /\ seen' = seen \cup {RemoveAt(items, i)}
      BY <3>1 DEF CollectionBecomes
    <3>4. QED
      BY <2>5, <3>2, <3>3 DEF OthersRemove, RelTypeOK
  <2>6. CASE AskEmpty
    BY <2>6 DEF AskEmpty, RelTypeOK
  <2>7. CASE AskCount
    BY <2>1, <2>7 DEF AskCount, RelTypeOK
  <2>8. CASE Insert
    <3>1. Append(items, inserted') \in Seq(1..inserted')
      BY <2>3, <2>8 DEF Insert
    <3>2. QED
      BY <2>2, <2>8, <3>1 DEF Insert
  <2>9. CASE RelReload
    <3>1. list' = <<>> /\ list' \in Seq(0..inserted) /\ Len(list') = 0
      BY <2>9 DEF RelReload
    <3>2. seen' = {items} /\ before' = 0 /\ UNCHANGED <<items, inserted, load, relFaults>>
      BY <2>9 DEF RelReload
    <3>3. QED
      BY <2>1, <2>9, <3>1, <3>2 DEF RelReload, RelTypeOK
  <2>10. CASE BeginLoad
    <3>1. count' \in Nat
      BY <2>1, <2>10 DEF BeginLoad, RelTypeOK
    <3>2. QED
      BY <2>1, <2>10, <3>1 DEF BeginLoad, RelTypeOK
  <2>11. CASE NextElement
    <3>1. load \in [i: Nat, upto: Nat]
      BY <2>11 DEF NextElement, RelTypeOK, NoLoad
    <3>2. GetAt(load.i + 1) \in 0..inserted
      BY <2>1, <3>1 DEF GetAt, Nil
    <3>3. list' \in Seq(0..inserted) /\ Len(list') = Len(list) + 1
      BY <2>1, <2>11, <3>2 DEF NextElement
    <3>4. load' \in [i: Nat, upto: Nat]
      BY <2>11, <3>1 DEF NextElement
    <3>5. QED
      BY <2>1, <2>11, <3>3, <3>4 DEF NextElement, RelTypeOK
  <2>12. CASE EndLoad
    BY <2>12 DEF EndLoad, RelTypeOK
  <2>13. CASE RelFails
    BY <2>13, BoundsAssumption DEF RelFails, RelTypeOK
  <2>14. CASE UNCHANGED relVars
    BY <2>14 DEF relVars, RelTypeOK
  <2>15. QED
    BY <2>4, <2>5, <2>6, <2>7, <2>8, <2>9, <2>10, <2>11, <2>12, <2>13, <2>14 DEF RelNext
<1>3. QED
  BY <1>1, <1>2, PTL DEF RelSpec

-----------------------------------------------------------------------------
(* The row of a record.                                                    *)

Row == [Data -> Values]

\* The copies are rows; what changed and what is left to set are of no account.
Copied ==
  /\ rows \in Seq(Row) /\ attrs \in Row
  /\ native \in [state: {"none", "open"}, row: Nat, copy: Row, set: SUBSET Data]
  /\ serial \in [state: {"none", "own", "part"}, attrs: [Attrs -> Values], copy: [Attrs -> Values]]
  /\ DOMAIN saving = {"kind", "todo"}

\* A record that is new has the row its native object has saved, if any; one that is
\* not has its one row, under its native object and under its id.
OneRow ==
  /\ newRecord \in {"yes", "no"}
  /\ recId \in {0, 1}
  /\ objectId \in {Unknown, 0, 1}
  /\ Len(rows) = 0 \/ Len(rows) = 1
  /\ (newRecord = "yes") => (native.row = Len(rows))
  /\ (newRecord = "yes") => (saving.kind # "update")
  /\ (newRecord = "yes" /\ native.state = "none") => (native.row = 0)
  /\ (newRecord = "no") => (Len(rows) = 1)
  /\ (newRecord = "no") => (saving.kind \notin {"create", "created"})
  /\ (newRecord = "no" /\ native.state = "open") => (native.row = 1)
  /\ (newRecord = "no" /\ native.state = "none") => (recId = 1)
  /\ (newRecord = "no") => (recId = 1 \/ objectId = 0)
  /\ (saving.kind = "created") => (native.state = "open" /\ native.row = 1)

\* No row and one row are sequences of rows.
LEMMA ShortSequences ==
  ASSUME NEW S, NEW e \in S
  PROVE  <<>> \in Seq(S) /\ <<e>> \in Seq(S)
OBVIOUS

Natives == [state: {"none", "open"}, row: Nat, copy: Row, set: SUBSET Data]

\* A function on 1..n is a sequence.
LEMMA FunctionIsSequence ==
  ASSUME NEW S, NEW n \in Nat, NEW f \in [1..n -> S]
  PROVE  f \in Seq(S) /\ Len(f) = n
OBVIOUS

\* A native object that takes another copy is a native object.
LEMMA TakesCopy ==
  ASSUME NEW n \in Natives, NEW c \in Row, NEW s \in SUBSET Data
  PROVE  /\ [n EXCEPT !.set = s, !.copy = c] \in Natives
         /\ [n EXCEPT !.set = s, !.copy = c].row = n.row
         /\ [n EXCEPT !.set = s, !.copy = c].state = n.state
BY DEF Natives

\* One that takes a row is one.
LEMMA TakesRow ==
  ASSUME NEW n \in Natives, NEW r \in Nat
  PROVE  /\ [n EXCEPT !.row = r, !.set = {}] \in Natives
         /\ [n EXCEPT !.row = r, !.set = {}].row = r
         /\ [n EXCEPT !.row = r, !.set = {}].state = n.state
BY DEF Natives

\* An assignment, a change of the serial object and the end of an attempt keep both.
LEMMA AttributesOnly ==
  ASSUME Copied, OneRow, UNCHANGED <<rows, recId, newRecord, native, objectId, saving>>,
         attrs' \in Row, serial' \in [state: {"none", "own", "part"}, attrs: [Attrs -> Values],
                                     copy: [Attrs -> Values]]
  PROVE  Copied' /\ OneRow'
BY DEF Copied, OneRow

\* A call on the native object that names no other row and keeps the kind of the save.
LEMMA CopyOnly ==
  ASSUME Copied, OneRow, UNCHANGED <<rows, attrs, recId, newRecord, objectId>>,
         native' \in [state: {"none", "open"}, row: Nat, copy: Row, set: SUBSET Data],
         native'.row = native.row, native'.state = native.state,
         serial' \in [state: {"none", "own", "part"}, attrs: [Attrs -> Values], copy: [Attrs -> Values]],
         DOMAIN saving' = {"kind", "todo"}, saving'.kind = saving.kind \/ saving'.kind = "none"
  PROVE  Copied' /\ OneRow'
BY DEF Copied, OneRow

\* The call that is done leaves the kind of the save alone.
LEMMA DoneCall ==
  ASSUME Copied, NEW step, CallDone(step)
  PROVE  /\ DOMAIN saving' = {"kind", "todo"} /\ saving'.kind = saving.kind
         /\ saving'.todo = saving.todo \ {step}
BY DEF Copied, CallDone

\* What is sent of a field is a value, and sent again it is the same.
LEMMA SyncedTwice ==
  ASSUME NEW v
  PROVE  Synced(Synced(v)) = Synced(v) /\ (v \in Values => Synced(v) \in Values)
BY DEF Synced, Values, NoValue, Empty

\* A record begins with one row or none.
LEMMA OneRowAtFirst ==
  ASSUME RecInit
  PROVE  Copied /\ OneRow
<1> USE DEF Row
<1>1. BlankRow \in Row /\ BlankAttrs \in [Attrs -> Values] /\ attrs \in Row
  BY DEF BlankRow, BlankAttrs, Values, RecInit
<1>2. Copied
  <2>1. rows \in Seq(Row)
    <3> HIDE DEF Row
    <3>1. <<>> \in Seq(Row) /\ <<attrs>> \in Seq(Row)
      BY <1>1, ShortSequences
    <3>2. rows = <<>> \/ rows = <<attrs>>
      BY DEF RecInit
    <3>3. QED
      BY <3>1, <3>2
  <2>2. native \in [state: {"none", "open"}, row: Nat, copy: Row, set: SUBSET Data]
    BY <1>1 DEF RecInit, NoNative
  <2>3. serial \in [state: {"none", "own", "part"}, attrs: [Attrs -> Values], copy: [Attrs -> Values]]
    BY <1>1 DEF RecInit, NoSerial
  <2>4. QED
    BY <1>1, <2>1, <2>2, <2>3 DEF RecInit, Copied, NotSaving
<1>3. QED
  BY <1>2 DEF RecInit, OneRow, NoNative, NotSaving, Unknown

\* Every step keeps it at that.
LEMMA OneRowStep ==
  ASSUME Copied, OneRow, [RecNext]_recVars
  PROVE  Copied' /\ OneRow'
<1> USE DEF Row
<1>1. /\ BlankRow \in Row /\ BlankAttrs \in [Attrs -> Values] /\ Attrs \subseteq Data
      /\ NoValue \in Values /\ 1 \in Values /\ Empty \in Values /\ Theirs \in Values
  BY DEF BlankRow, BlankAttrs, Values, Data, Attrs
<1>2. CASE IntersysObject
  <2>1. native' \in [state: {"none", "open"}, row: Nat, copy: Row, set: SUBSET Data]
    BY <1>1, <1>2 DEF IntersysObject, NoNative, Copied, OneRow
  <2>2. Copied'
    BY <1>2, <2>1 DEF IntersysObject, Copied, record
  <2>3. /\ native'.state = "open" /\ native.state = "none"
        /\ native'.row = IF newRecord = "yes" THEN 0 ELSE recId
        /\ UNCHANGED <<rows, recId, newRecord, objectId, saving>>
    BY <1>2 DEF IntersysObject, NoNative, record
  <2>4. CASE newRecord = "yes"
    <3>1. native'.row = 0 /\ Len(rows') = 0
      BY <2>3, <2>4 DEF OneRow
    <3>2. QED
      BY <2>2, <2>3, <2>4, <3>1 DEF OneRow
  <2>5. CASE newRecord = "no"
    <3>1. native'.row = 1
      BY <2>3, <2>5 DEF OneRow
    <3>2. QED
      BY <2>2, <2>3, <2>5, <3>1 DEF OneRow
  <2>6. QED
    BY <2>4, <2>5 DEF OneRow
<1>3. CASE SerialObject
  <2>1. [f \in Attrs |-> attrs[f]] \in [Attrs -> Values]
    BY <1>1 DEF Copied
  <2>2. serial' \in [state: {"none", "own", "part"}, attrs: [Attrs -> Values], copy: [Attrs -> Values]]
    BY <1>1, <1>3, <2>1 DEF SerialObject, NoSerial
  <2>3. QED
    BY <1>3, <2>2, AttributesOnly DEF SerialObject, record, Copied
<1>4. CASE IdOfNative
  <2>1. Copied'
    BY <1>4 DEF IdOfNative, Copied, record
  <2>2. native.state = "open" /\ objectId = -1 /\ objectId' = native.row
        /\ UNCHANGED <<rows, recId, newRecord, native, saving>>
    BY <1>4 DEF IdOfNative, record, Unknown
  <2>3. native.row = 0 \/ native.row = 1
    BY <2>2 DEF OneRow
  <2>4. objectId' \in {-1, 0, 1} /\ (newRecord = "no" => recId = 1)
    BY <2>2, <2>3 DEF OneRow
  <2>5. OneRow'
    BY <2>2, <2>4 DEF OneRow, Unknown
  <2>6. QED
    BY <2>1, <2>5
<1>5. ASSUME NEW c \in Plain, NEW value \in {NoValue, 1}, Assign(c, value)
      PROVE  Copied' /\ OneRow'
  <2>1. attrs' \in Row
    BY <1>1, <1>5 DEF Assign, Copied
  <2>2. UNCHANGED <<rows, recId, newRecord, native, objectId, serial, saving>>
    BY <1>5 DEF Assign, objects
  <2>3. QED
    BY <2>1, <2>2, AttributesOnly DEF Copied
<1>6. ASSUME NEW f \in Attrs, NEW value \in {NoValue, 1, Empty}, AssignField(f, value)
      PROVE  Copied' /\ OneRow'
  <2>1. serial' \in [state: {"none", "own", "part"}, attrs: [Attrs -> Values], copy: [Attrs -> Values]]
    BY <1>1, <1>6 DEF AssignField, FieldSet, Copied
  <2>2. UNCHANGED <<rows, attrs, recId, newRecord, native, objectId, saving>>
    BY <1>6 DEF AssignField
  <2>3. QED
    BY <2>1, <2>2, AttributesOnly DEF Copied
<1>7. CASE ReplaceSerial
  <2>1. serial' \in [state: {"none", "own", "part"}, attrs: [Attrs -> Values], copy: [Attrs -> Values]]
    BY <1>1, <1>7 DEF ReplaceSerial, NoSerial
  <2>2. UNCHANGED <<rows, attrs, recId, newRecord, native, objectId, saving>>
    BY <1>7 DEF ReplaceSerial
  <2>3. QED
    BY <2>1, <2>2, AttributesOnly DEF Copied
<1>8. CASE ReloadRecord
  <2>1. recId \in DOMAIN rows
    BY <1>8 DEF ReloadRecord, Copied, OneRow
  <2>2. attrs' \in Row
    BY <1>8, <2>1 DEF ReloadRecord, Copied
  <2>3. UNCHANGED <<rows, recId, newRecord, native, objectId, serial, saving>>
    BY <1>8 DEF ReloadRecord, objects
  <2>4. QED
    BY <2>2, <2>3, AttributesOnly DEF Copied
<1>9. ASSUME NEW d \in Data, OthersWrite(d) PROVE Copied' /\ OneRow'
  <2>1. rows' = [rows EXCEPT ![1][d] = Theirs] /\ UNCHANGED <<attrs, recId, newRecord, objects, saving>>
    BY <1>9 DEF OthersWrite, record
  <2>2. rows' \in Seq(Row) /\ Len(rows') = Len(rows)
    <3>1. 1 \in 1..Len(rows) /\ rows[1] \in Row
      BY <1>9 DEF OthersWrite, Copied, OneRow
    <3>2. [rows[1] EXCEPT ![d] = Theirs] \in Row
      BY <1>1, <3>1
    <3>3. rows' = [rows EXCEPT ![1] = [rows[1] EXCEPT ![d] = Theirs]]
      BY <2>1
    <3> HIDE DEF Row
    <3>4. QED
      BY <3>1, <3>2, <3>3, ExceptSeq DEF Copied
  <2>3. QED
    BY <2>1, <2>2 DEF Copied, OneRow, objects
<1>10. CASE BeginCreate
  BY <1>10 DEF BeginCreate, Copied, OneRow, record, objects
<1>11. CASE BeginUpdate
  BY <1>11 DEF BeginUpdate, Copied, OneRow, record, objects
<1>12. CASE UpdateBySql
  <2>1. rows' \in Seq(Row) /\ Len(rows') = Len(rows)
    <3>1. \A q \in DOMAIN rows, d \in Data : rows[q][d] \in Values /\ attrs[d] \in Values
      BY DEF Copied
    <3>2. rows' = [q \in 1..Len(rows) |->
                     IF q # recId THEN rows[q]
                     ELSE [d \in Data |-> IF d \in DOMAIN changed THEN attrs[d] ELSE rows[q][d]]]
      BY <1>12 DEF UpdateBySql, Copied
    <3>3. \A q \in 1..Len(rows) : rows'[q] \in Row
      BY <3>1, <3>2 DEF Copied
    <3>4. rows' \in [1..Len(rows) -> Row]
      BY <3>2, <3>3
    <3>5. Len(rows) \in Nat
      BY DEF Copied
    <3> HIDE DEF Row
    <3>6. QED
      BY <3>4, <3>5, FunctionIsSequence
  <2>2. saving' = NotSaving /\ UNCHANGED <<objects, attrs, recId, newRecord>>
    BY <1>12 DEF UpdateBySql, Returns
  <2>3. QED
    BY <2>1, <2>2 DEF Copied, OneRow, objects, NotSaving
<1>13. ASSUME NEW c \in Plain, SetColumn(c) PROVE Copied' /\ OneRow'
  <2>1. c \in Data /\ attrs[c] \in Values
    BY DEF Data, Copied
  <2>2. native' \in [state: {"none", "open"}, row: Nat, copy: Row, set: SUBSET Data]
        /\ native'.row = native.row /\ native'.state = native.state
    BY <1>13, <2>1 DEF SetColumn, Copied
  <2>3. QED
    BY <1>13, <2>2, CopyOnly, DoneCall DEF SetColumn, record, Copied
<1>14. ASSUME NEW f \in Attrs, SyncField(f) PROVE Copied' /\ OneRow'
  <2> DEFINE sent == Synced(serial.attrs[f])
  <2>1. f \in Data /\ sent \in Values
    BY <1>1, SyncedTwice DEF Copied
  <2>2. /\ native' \in [state: {"none", "open"}, row: Nat, copy: Row, set: SUBSET Data]
        /\ native'.row = native.row /\ native'.state = native.state
        /\ serial' \in [state: {"none", "own", "part"}, attrs: [Attrs -> Values],
                        copy: [Attrs -> Values]]
    <3>1. CASE serial.state = "part"
      <4>1. /\ native' = [native EXCEPT !.copy[f] = sent, !.set = native.set \cup {f}]
            /\ serial' = serial
        BY <1>14, <3>1 DEF SyncField
      <4> HIDE DEF sent
      <4>2. native' \in Natives /\ native'.row = native.row /\ native'.state = native.state
        BY <2>1, <4>1 DEF Copied, Natives
      <4>3. QED
        BY <4>1, <4>2 DEF Copied, Natives
    <3>2. CASE serial.state # "part"
      <4>1. /\ serial' = [serial EXCEPT !.copy[f] = sent]
            /\ native' = native
        BY <1>14, <3>2 DEF SyncField
      <4> HIDE DEF sent
      <4>2. serial' \in [state: {"none", "own", "part"}, attrs: [Attrs -> Values],
                         copy: [Attrs -> Values]]
        BY <2>1, <4>1 DEF Copied
      <4>3. QED
        BY <4>1, <4>2 DEF Copied
    <3>3. QED
      BY <3>1, <3>2
  <2>3. QED
    BY <1>14, <2>2, CopyOnly, DoneCall DEF SyncField, record
<1>15. CASE SetSerial
  <2>1. \A d \in Data : (IF serial.state = "own" /\ d \in Attrs THEN serial.copy[d]
                         ELSE native.copy[d]) \in Values
    BY DEF Copied
  <2> DEFINE joined == [d \in Data |-> IF serial.state = "own" /\ d \in Attrs THEN serial.copy[d]
                                      ELSE native.copy[d]]
  <2>2. joined \in Row
    BY <2>1
  <2>3. native' = [native EXCEPT !.set = native.set \cup Attrs, !.copy = joined]
    BY <1>15 DEF SetSerial
  <2> HIDE DEF joined
  <2>4. /\ native' \in [state: {"none", "open"}, row: Nat, copy: Row, set: SUBSET Data]
        /\ native'.row = native.row /\ native'.state = native.state
    <3> HIDE DEF Row
    <3>1. native.set \cup Attrs \subseteq Data
      BY <1>1 DEF Copied
    <3>2. native \in Natives
      BY DEF Copied, Natives
    <3> DEFINE s == native.set \cup Attrs
    <3>3. /\ [native EXCEPT !.set = s, !.copy = joined] \in Natives
          /\ [native EXCEPT !.set = s, !.copy = joined].row = native.row
          /\ [native EXCEPT !.set = s, !.copy = joined].state = native.state
      <4> HIDE DEF s
      <4>1. s \in SUBSET Data
        BY <3>1 DEF s
      <4>2. QED
        BY <3>2, <2>2, <4>1, TakesCopy
    <3>4. native' = [native EXCEPT !.set = s, !.copy = joined]
      BY <2>3
    <3> HIDE DEF s
    <3>5. native' \in Natives /\ native'.row = native.row /\ native'.state = native.state
      BY <3>3, <3>4
    <3>6. QED
      BY <3>5 DEF Natives
  <2>5. serial' \in [state: {"none", "own", "part"}, attrs: [Attrs -> Values], copy: [Attrs -> Values]]
    BY <1>15 DEF SetSerial, Copied
  <2>6. QED
    BY <1>15, <2>4, <2>5, CopyOnly, DoneCall DEF SetSerial, record
<1>16. CASE Save
  <2> DEFINE r == IF native.row = 0 THEN Len(rows) + 1 ELSE native.row
  <2>1. /\ native' = [native EXCEPT !.row = r, !.set = {}]
        /\ rows' = IF native.row = 0 THEN Append(rows, native.copy)
                   ELSE [rows EXCEPT ![r] =
                          [d \in Data |-> IF d \in Written THEN native.copy[d] ELSE rows[r][d]]]
        /\ native.state = "open" /\ UNCHANGED <<attrs, recId, newRecord, objectId, serial>>
    BY <1>16 DEF Save
  <2>2. \/ saving' = NotSaving
        \/ saving.kind = "create" /\ saving' = [saving EXCEPT !.kind = "created"]
    BY <1>16 DEF Save, Returns
  <2>3. native.row \in {0, 1} /\ (native.row = 0 <=> Len(rows) = 0)
    BY <2>1 DEF Copied, OneRow
  <2>4. rows' \in Seq(Row) /\ Len(rows') = 1
    <3>1. CASE native.row = 0
      BY <2>1, <2>3, <3>1 DEF Copied, OneRow
    <3>2. CASE native.row = 1
      <4>1. [d \in Data |-> IF d \in Written THEN native.copy[d] ELSE rows[1][d]] \in Row
        BY <2>3, <3>2 DEF Copied, OneRow
      <4>2. QED
        BY <2>1, <2>3, <3>2, <4>1 DEF Copied, OneRow
    <3>3. QED
      BY <2>3, <3>1, <3>2
  <2>5. r = 1
    BY <2>3 DEF OneRow
  <2>6. native'.row = 1 /\ native'.state = "open"
        /\ native' \in [state: {"none", "open"}, row: Nat, copy: Row, set: SUBSET Data]
    <3>1. native' = [native EXCEPT !.row = 1, !.set = {}]
      BY <2>1, <2>5
    <3> HIDE DEF Row
    <3>2. native \in Natives
      BY DEF Copied, Natives
    <3>3. /\ [native EXCEPT !.row = 1, !.set = {}] \in Natives
          /\ [native EXCEPT !.row = 1, !.set = {}].row = 1
          /\ [native EXCEPT !.row = 1, !.set = {}].state = native.state
      BY <3>2, TakesRow
    <3>4. native' \in Natives /\ native'.row = 1 /\ native'.state = native.state
      BY <3>1, <3>3
    <3>5. QED
      BY <2>1, <3>4 DEF Natives
  <2>7. DOMAIN saving' = {"kind", "todo"}
        /\ \/ saving'.kind = "none"
           \/ saving'.kind = "created" /\ newRecord = "yes"
    BY <2>2 DEF Copied, OneRow, NotSaving
  <2>8. Copied'
    BY <2>1, <2>4, <2>6, <2>7 DEF Copied
  <2>9. OneRow'
    BY <2>1, <2>4, <2>6, <2>7 DEF OneRow
  <2>10. QED
    BY <2>8, <2>9
<1>17. CASE TakeId
  <2>1. saving' = NotSaving /\ saving.kind = "created" /\ newRecord' = "no" /\ recId' = objectId'
        /\ objectId' = (IF objectId = Unknown THEN native.row ELSE objectId)
        /\ UNCHANGED <<rows, attrs, native, serial>>
    BY <1>17 DEF TakeId, Returns
  <2>2. objectId' \in {0, 1}
    BY <2>1 DEF OneRow
  <2>3. Copied'
    BY <2>1 DEF Copied, NotSaving
  <2>4. OneRow'
    BY <2>1, <2>2 DEF OneRow, NotSaving, Unknown
  <2>5. QED
    BY <2>3, <2>4
<1>18. CASE SaveRaises
  BY <1>18 DEF SaveRaises, Copied, OneRow, NotSaving, record, objects
<1>19. CASE UNCHANGED recVars
  BY <1>19 DEF recVars, record, objects, Copied, OneRow
<1>20. QED
  BY <1>2, <1>3, <1>4, <1>5, <1>6, <1>7, <1>8, <1>9, <1>10, <1>11, <1>12, <1>13, <1>14, <1>15,
     <1>16, <1>17, <1>18, <1>19 DEF RecNext

\* However often saving is tried, whatever raises, whoever writes and whatever the
\* program assigns: one row, with the record's id unless the native object was asked
\* for its id before it had one.
THEOREM OneRowPerRecordHolds == RecSpec => []OneRowPerRecord
<1>1. RecInit => Copied /\ OneRow
  BY OneRowAtFirst
<1>2. Copied /\ OneRow /\ [RecNext]_recVars => Copied' /\ OneRow'
  BY OneRowStep
<1>3. Copied /\ OneRow => OneRowPerRecord
  <2> SUFFICES ASSUME Copied, OneRow PROVE OneRowPerRecord
    OBVIOUS
  <2>1. Len(rows) = 0 \/ Len(rows) = 1
    BY DEF OneRow
  <2>2. Len(rows) \in Nat
    BY DEF Copied
  <2>3. Len(rows) <= 1
    BY <2>1, <2>2
  <2>4. QED
    BY <2>3 DEF OneRow, OneRowPerRecord
<1>4. QED
  BY <1>1, <1>2, <1>3, PTL DEF RecSpec

\* What the program did and what the history says of it.
Bookkeeping ==
  /\ DOMAIN changed \subseteq Plain \cup {Serial}
  /\ wish \in [Attrs -> Values] /\ asked \subseteq Attrs
  /\ behind \in [attrs: SUBSET Data, native: SUBSET Data, serial: SUBSET Attrs]
  /\ (ended = "saved") => (DOMAIN changed = {} /\ asked = {})
  /\ (asked # {}) => (Serial \in DOMAIN changed)
  /\ (serial.state = "none") => (asked = {})
  /\ \A f \in asked : serial.attrs[f] = wish[f]
  /\ (native.state = "none") => (native.set = {})
  /\ (serial.state = "part") => (native.state = "open")
  /\ (saving.kind = "update") => (Serial \in DOMAIN changed)

\* What a save has set of what it is to set is in the native object, and the fields
\* may be in the serial object as long as that is to be set.
SetSoFar ==
  /\ (saving.kind \notin {"create", "update"}) => (saving.todo = {})
  /\ (Attrs \cap saving.todo # {}) => (Serial \in saving.todo)
  /\ (saving.kind \in {"create", "update"}) =>
       \A c \in Plain \cap DOMAIN changed :
         c \in saving.todo \/ (c \in native.set /\ native.copy[c] = attrs[c])
  /\ (saving.kind \in {"create", "update"}) =>
       \A f \in Attrs :
         \/ f \in saving.todo
         \/ serial.state = "part" /\ f \in native.set /\ native.copy[f] = Synced(serial.attrs[f])
         \/ serial.state = "own" /\ serial.copy[f] = Synced(serial.attrs[f]) /\ Serial \in saving.todo

\* Between %Save and the id of a create the row has what was assigned.
StoredByCreate ==
  (saving.kind = "created") =>
    /\ \A c \in Plain \cap DOMAIN changed : rows[1][c] = attrs[c] \/ rows[1][c] = Theirs
    /\ \A f \in asked : rows[1][f] = Synced(wish[f]) \/ rows[1][f] = Theirs

\* A copy differs from the row where it is known to be behind, or where the program
\* set it; the serial object also where a blank field is sent as nil.
CopiesBehind ==
  /\ (native.row = 1) =>
       \A d \in Data : native.copy[d] = rows[1][d] \/ d \in behind.native \cup native.set
  /\ (newRecord = "no" /\ serial.state # "none") =>
       \A f \in Attrs :
         \/ Synced(serial.attrs[f]) = Synced(rows[1][f])
         \/ f \in asked \cup dropped \cup behind.serial
  /\ (newRecord = "no" /\ serial.state = "none") =>
       \A f \in Attrs : attrs[f] = rows[1][f] \/ f \in behind.attrs
  /\ (saving.kind = "created") =>
       \A f \in Attrs :
         /\ serial.state # "none"
         /\ Synced(serial.attrs[f]) = Synced(rows[1][f]) \/ f \in behind.serial

\* The serial column is none of the data, and no field is a column.
LEMMA RecordNames ==
  /\ Plain \cap Attrs = {} /\ Serial \notin Plain /\ Serial \notin Attrs /\ Data = Plain \cup Attrs
  /\ Serial \in ToSet(Columns) \ Calculated
BY ColumnsAssumption DEF Plain, Attrs, Data

\* The fields come before the column they are in.
LEMMA SerialComesLast ==
  ASSUME Due(Serial), NEW f \in Attrs
  PROVE  f \notin saving.todo
<1>1. ~ Earlier(Columns, Serial, Serial)
  BY ColumnsAssumption DEF Earlier
<1>2. Column(f) = Serial /\ Column(Serial) = Serial /\ Serial \notin Attrs
  BY RecordNames DEF Column
<1>3. ~ Before(Serial, f)
  BY <1>1, <1>2 DEF Before
<1>4. QED
  BY <1>2, <1>3 DEF Due

\* A change is remembered under its column.
LEMMA ChangeRemembered ==
  ASSUME NEW c, NEW was
  PROVE  DOMAIN Dirty(c, was) = (DOMAIN changed) \cup {c}
BY DEF Dirty

\* Without a save in progress nothing is left to set and nothing stored halfway.
LEMMA NothingToSave ==
  ASSUME saving' = NotSaving
  PROVE  SetSoFar' /\ StoredByCreate'
BY DEF NotSaving, SetSoFar, StoredByCreate

\* %Save writes every changed column as it is, and every field as it is sent.
LEMMA WhatSaveWrites ==
  ASSUME Copied, OneRow, Bookkeeping, SetSoFar, Save
  PROVE  /\ native.row \in {0, 1}
         /\ native'.row = 1 /\ native'.set = {} /\ native'.copy = native.copy /\ native'.state = "open"
         /\ serial' = serial /\ native.set \subseteq Written
         /\ \A d \in Data :
              rows'[1][d] = IF native.row = 0 \/ d \in Written THEN native.copy[d] ELSE rows[1][d]
         /\ \A c \in Plain \cap DOMAIN changed : rows'[1][c] = attrs[c]
         /\ \A f \in Attrs : f \in native.set /\ rows'[1][f] = Synced(serial.attrs[f]) /\ serial.state = "part"
<1> DEFINE r == IF native.row = 0 THEN Len(rows) + 1 ELSE native.row
<1>1. /\ native' = [native EXCEPT !.row = r, !.set = {}]
      /\ rows' = IF native.row = 0 THEN Append(rows, native.copy)
                 ELSE [rows EXCEPT ![r] =
                        [d \in Data |-> IF d \in Written THEN native.copy[d] ELSE rows[r][d]]]
      /\ native.state = "open" /\ serial' = serial /\ saving.kind \in {"create", "update"} /\ saving.todo = {}
  BY DEF Save
<1>2. native.row \in {0, 1} /\ (native.row = 0 <=> Len(rows) = 0)
  BY <1>1 DEF OneRow
<1>3. r = 1
  BY <1>2
<1>4. native'.row = 1 /\ native'.set = {} /\ native'.copy = native.copy /\ native'.state = "open"
  <2>1. native' = [native EXCEPT !.row = 1, !.set = {}]
    BY <1>1, <1>3
  <2>2. QED
    BY <1>1, <2>1 DEF Copied
<1>5. native.set \subseteq Written /\ Written \subseteq Data
  BY DEF Written, Copied
<1>6. \A d \in Data : rows'[1][d] = IF native.row = 0 \/ d \in Written THEN native.copy[d] ELSE rows[1][d]
  <2>1. CASE native.row = 0
    <3>1. rows' = Append(rows, native.copy) /\ Len(rows) = 0
      BY <1>1, <1>2, <2>1
    <3>2. rows'[1] = native.copy
      BY <3>1
    <3>3. QED
      BY <2>1, <3>2
  <2>2. CASE native.row = 1
    <3>1. rows' = [rows EXCEPT ![1] =
                     [d \in Data |-> IF d \in Written THEN native.copy[d] ELSE rows[1][d]]]
      BY <1>1, <1>3, <2>2
    <3>2. 1 \in DOMAIN rows
      BY <1>2, <2>2
    <3>3. rows'[1] = [d \in Data |-> IF d \in Written THEN native.copy[d] ELSE rows[1][d]]
      BY <3>1, <3>2
    <3>4. QED
      BY <2>2, <3>3
  <2>3. QED
    BY <1>2, <2>1, <2>2
<1>7. \A c \in Plain \cap DOMAIN changed : c \in native.set /\ native.copy[c] = attrs[c]
  BY <1>1 DEF SetSoFar
<1>8. \A f \in Attrs :
        serial.state = "part" /\ f \in native.set /\ native.copy[f] = Synced(serial.attrs[f])
  BY <1>1 DEF SetSoFar
<1> HIDE DEF r
<1>9. \A d \in Written : rows'[1][d] = native.copy[d]
  BY <1>5, <1>6
<1>10. /\ \A c \in Plain \cap DOMAIN changed : rows'[1][c] = attrs[c]
       /\ \A f \in Attrs : f \in native.set /\ rows'[1][f] = Synced(serial.attrs[f]) /\ serial.state = "part"
  BY <1>5, <1>7, <1>8, <1>9
<1>11. QED
  BY <1>1, <1>2, <1>4, <1>5, <1>6, <1>10

\* Every step keeps a record in order.
LEMMA RecordStep ==
  ASSUME Copied, OneRow, Copied', OneRow', Bookkeeping, SetSoFar, StoredByCreate, CopiesBehind,
         [RecNext]_recVars
  PROVE  Bookkeeping' /\ SetSoFar' /\ StoredByCreate' /\ CopiesBehind'
<1>1. ASSUME IntersysObject
      PROVE  Bookkeeping' /\ SetSoFar' /\ StoredByCreate' /\ CopiesBehind'
  <2>1. Bookkeeping'
    BY <1>1 DEF IntersysObject, record, Bookkeeping
  <2>2. SetSoFar'
    BY <1>1 DEF IntersysObject, record, SetSoFar, Bookkeeping
  <2>3. StoredByCreate'
    BY <1>1 DEF IntersysObject, StoredByCreate, OneRow
  <2>4. CopiesBehind'
    BY <1>1 DEF IntersysObject, record, CopiesBehind, OneRow
  <2>5. QED
    BY <2>1, <2>2, <2>3, <2>4
<1>2. ASSUME SerialObject
      PROVE  Bookkeeping' /\ SetSoFar' /\ StoredByCreate' /\ CopiesBehind'
  <2>1. Bookkeeping'
    BY <1>2 DEF SerialObject, record, Bookkeeping
  <2>2. SetSoFar'
    BY <1>2 DEF SerialObject, record, SetSoFar
  <2>3. StoredByCreate'
    BY <1>2 DEF SerialObject, record, StoredByCreate
  <2>4. CopiesBehind'
    BY <1>2 DEF SerialObject, record, CopiesBehind
  <2>5. QED
    BY <2>1, <2>2, <2>3, <2>4
<1>3. ASSUME IdOfNative
      PROVE  Bookkeeping' /\ SetSoFar' /\ StoredByCreate' /\ CopiesBehind'
  <2>1. Bookkeeping'
    BY <1>3 DEF IdOfNative, record, history, Bookkeeping
  <2>2. SetSoFar'
    BY <1>3 DEF IdOfNative, record, SetSoFar
  <2>3. StoredByCreate'
    BY <1>3 DEF IdOfNative, record, history, StoredByCreate
  <2>4. CopiesBehind'
    BY <1>3 DEF IdOfNative, record, history, CopiesBehind
  <2>5. QED
    BY <2>1, <2>2, <2>3, <2>4
<1>4. ASSUME NEW c \in Plain, NEW value \in {NoValue, 1}, Assign(c, value)
      PROVE  Bookkeeping' /\ SetSoFar' /\ StoredByCreate' /\ CopiesBehind'
  <2>1. /\ DOMAIN changed' \subseteq (DOMAIN changed) \cup {c}
        /\ (DOMAIN changed) \ {c} \subseteq DOMAIN changed'
    <3> DEFINE all == Dirty(c, attrs[c])
    <3>1. DOMAIN all = (DOMAIN changed) \cup {c}
      BY ChangeRemembered
    <3>2. changed' = [d \in {e \in DOMAIN all : e = c => all[e] # value} |-> all[d]]
      BY <1>4 DEF Assign
    <3> HIDE DEF all
    <3>3. QED
      BY <3>1, <3>2
  <2>2. /\ saving = NotSaving /\ ended' = "other" /\ attrs' = [attrs EXCEPT ![c] = value]
        /\ UNCHANGED <<rows, recId, newRecord, saving, fixed, native, objectId, serial, wish, asked,
                       dropped, behind>>
    BY <1>4 DEF Assign, Assigns, objects, history
  <2>3. Bookkeeping'
    BY <2>1, <2>2, RecordNames DEF Bookkeeping
  <2>4. SetSoFar' /\ StoredByCreate'
    BY <2>2, NothingToSave
  <2>5. CopiesBehind'
    BY <2>2, RecordNames DEF CopiesBehind
  <2>6. QED
    BY <2>3, <2>4, <2>5
<1>5. ASSUME NEW f \in Attrs, NEW value \in {NoValue, 1, Empty}, AssignField(f, value)
      PROVE  Bookkeeping' /\ SetSoFar' /\ StoredByCreate' /\ CopiesBehind'
  <2>1. DOMAIN changed' = (DOMAIN changed) \cup {Serial}
    BY <1>5, ChangeRemembered DEF AssignField, WillChange
  <2>2. /\ saving = NotSaving /\ ended' = "other" /\ serial.state # "none"
        /\ UNCHANGED <<rows, attrs, newRecord, saving, fixed, native, behind>>
    BY <1>5 DEF AssignField, Assigns
  <2>3. SetSoFar' /\ StoredByCreate'
    BY <2>2, NothingToSave
  <2>4. CASE fixed.setter = "own"
    <3>1. UNCHANGED <<serial, wish, asked, dropped>>
      BY <1>5, <2>4 DEF AssignField, FieldSet
    <3>2. Bookkeeping'
      BY <2>1, <2>2, <3>1 DEF Bookkeeping
    <3>3. CopiesBehind'
      BY <2>2, <3>1 DEF CopiesBehind
    <3>4. QED
      BY <2>3, <3>2, <3>3
  <2>5. CASE fixed.setter # "own"
    <3>1. /\ asked' = asked \cup {f} /\ dropped' = dropped \ {f}
          /\ wish' = [wish EXCEPT ![f] = value]
          /\ serial' = [serial EXCEPT !.attrs[f] = value]
      BY <1>5, <2>5 DEF AssignField, FieldSet
    <3>2. /\ serial'.state = serial.state /\ serial'.attrs[f] = value
          /\ \A g \in Attrs \ {f} : serial'.attrs[g] = serial.attrs[g]
      BY <3>1 DEF Copied
    <3>3. Bookkeeping'
      <4>1. wish' \in [Attrs -> Values] /\ asked' \subseteq Attrs
        BY <3>1 DEF Bookkeeping, Values
      <4>2. \A g \in asked' : serial'.attrs[g] = wish'[g]
        BY <3>1, <3>2 DEF Bookkeeping
      <4>3. QED
        BY <2>1, <2>2, <3>2, <4>1, <4>2 DEF Bookkeeping
    <3>4. CopiesBehind'
      BY <2>2, <3>1, <3>2 DEF CopiesBehind, NotSaving
    <3>5. QED
      BY <2>3, <3>3, <3>4
  <2>6. QED
    BY <2>4, <2>5
<1>6. ASSUME ReplaceSerial
      PROVE  Bookkeeping' /\ SetSoFar' /\ StoredByCreate' /\ CopiesBehind'
  <2>1. DOMAIN changed' = (DOMAIN changed) \cup {Serial}
    BY <1>6, ChangeRemembered DEF ReplaceSerial, WillChange
  <2>2. /\ saving = NotSaving /\ ended' = "other"
        /\ asked' = Attrs /\ wish' = BlankAttrs
        /\ behind' = [behind EXCEPT !.serial = {}]
        /\ UNCHANGED <<rows, attrs, newRecord, saving, fixed, native>>
    BY <1>6 DEF ReplaceSerial, Assigns
  <2>3. serial'.state = "own" /\ serial'.attrs = BlankAttrs
    BY <1>6 DEF ReplaceSerial, NoSerial
  <2>4. Bookkeeping'
    <3>1. wish' \in [Attrs -> Values]
      BY <2>2 DEF BlankAttrs, Values
    <3>2. behind' \in [attrs: SUBSET Data, native: SUBSET Data, serial: SUBSET Attrs]
      BY <2>2 DEF Bookkeeping
    <3>3. QED
      BY <2>1, <2>2, <2>3, <3>1, <3>2 DEF Bookkeeping
  <2>5. SetSoFar' /\ StoredByCreate'
    BY <2>2, NothingToSave
  <2>6. CopiesBehind'
    <3>1. behind'.native = behind.native /\ saving'.kind = "none"
      BY <2>2 DEF NotSaving
    <3>2. QED
      BY <2>2, <2>3, <3>1 DEF CopiesBehind
  <2>7. QED
    BY <2>4, <2>5, <2>6
<1>7. ASSUME ReloadRecord
      PROVE  Bookkeeping' /\ SetSoFar' /\ StoredByCreate' /\ CopiesBehind'
  <2>1. /\ saving = NotSaving /\ ended' = "other" /\ attrs' = rows[recId] /\ recId # 0
        /\ asked' = {} /\ dropped' = dropped \cup asked
        /\ behind' = [behind EXCEPT !.attrs = {}]
        /\ UNCHANGED <<rows, newRecord, saving, fixed, native, serial, wish>>
    BY <1>7 DEF ReloadRecord, objects
  <2>2. DOMAIN changed' = {}
    BY <1>7 DEF ReloadRecord
  <2>3. Bookkeeping'
    <3>1. behind' \in [attrs: SUBSET Data, native: SUBSET Data, serial: SUBSET Attrs]
      BY <2>1 DEF Bookkeeping
    <3>2. QED
      BY <2>1, <2>2, <3>1 DEF Bookkeeping, NotSaving
  <2>4. SetSoFar' /\ StoredByCreate'
    BY <2>1, NothingToSave
  <2>5. CopiesBehind'
    <3>1. /\ behind'.native = behind.native /\ behind'.serial = behind.serial /\ saving'.kind = "none"
          /\ recId = 1
      BY <2>1 DEF NotSaving, OneRow
    <3>2. QED
      BY <2>1, <3>1 DEF CopiesBehind
  <2>6. QED
    BY <2>3, <2>4, <2>5
<1>8. ASSUME NEW d \in Data, OthersWrite(d)
      PROVE  Bookkeeping' /\ SetSoFar' /\ StoredByCreate' /\ CopiesBehind'
  <2>1. Bookkeeping'
    BY <1>8 DEF OthersWrite, record, objects, Bookkeeping
  <2>2. SetSoFar'
    BY <1>8 DEF OthersWrite, record, objects, SetSoFar
  <2>3. StoredByCreate'
    BY <1>8 DEF OthersWrite, record, StoredByCreate
  <2>4. CopiesBehind'
    BY <1>8 DEF OthersWrite, record, objects, CopiesBehind
  <2>5. QED
    BY <2>1, <2>2, <2>3, <2>4
<1>9. ASSUME BeginCreate
      PROVE  Bookkeeping' /\ SetSoFar' /\ StoredByCreate' /\ CopiesBehind'
  <2>1. Bookkeeping'
    BY <1>9 DEF BeginCreate, record, objects, history, Bookkeeping
  <2>2. SetSoFar'
    BY <1>9, RecordNames DEF BeginCreate, Calls, Plain, SetSoFar
  <2>3. StoredByCreate'
    BY <1>9 DEF BeginCreate, StoredByCreate
  <2>4. CopiesBehind'
    BY <1>9 DEF BeginCreate, objects, history, CopiesBehind, OneRow
  <2>5. QED
    BY <2>1, <2>2, <2>3, <2>4
<1>10. ASSUME BeginUpdate
      PROVE  Bookkeeping' /\ SetSoFar' /\ StoredByCreate' /\ CopiesBehind'
  <2>1. Bookkeeping'
    BY <1>10 DEF BeginUpdate, record, objects, history, Bookkeeping
  <2>2. SetSoFar'
    BY <1>10, RecordNames DEF BeginUpdate, record, Calls, Plain, SetSoFar
  <2>3. StoredByCreate'
    BY <1>10 DEF BeginUpdate, StoredByCreate
  <2>4. CopiesBehind'
    BY <1>10 DEF BeginUpdate, record, objects, history, CopiesBehind
  <2>5. QED
    BY <2>1, <2>2, <2>3, <2>4
<1>11. ASSUME UpdateBySql
      PROVE  Bookkeeping' /\ SetSoFar' /\ StoredByCreate' /\ CopiesBehind'
  <2>1. Bookkeeping'
    <3>1. /\ behind' = [behind EXCEPT !.attrs = behind.attrs \ DOMAIN changed,
                                      !.native = behind.native \cup DOMAIN changed]
          /\ saving' = NotSaving /\ changed' = <<>> /\ asked' = {}
          /\ Serial \notin DOMAIN changed /\ UNCHANGED <<native, serial, wish>>
      BY <1>11 DEF UpdateBySql, Returns, objects
    <3>2. DOMAIN changed \subseteq Data /\ DOMAIN changed' = {}
      BY <3>1, RecordNames DEF Bookkeeping
    <3>3. behind' \in [attrs: SUBSET Data, native: SUBSET Data, serial: SUBSET Attrs]
      BY <3>1, <3>2 DEF Bookkeeping
    <3>4. QED
      BY <3>1, <3>2, <3>3 DEF Bookkeeping, NotSaving
  <2>2. SetSoFar'
    BY <1>11 DEF UpdateBySql, Returns, SetSoFar, OneRow, Bookkeeping
  <2>3. StoredByCreate'
    BY <1>11 DEF UpdateBySql, StoredByCreate, OneRow
  <2>4. CopiesBehind'
    BY <1>11, RecordNames DEF UpdateBySql, objects, CopiesBehind, OneRow, Bookkeeping
  <2>5. QED
    BY <2>1, <2>2, <2>3, <2>4
<1>12. ASSUME NEW c \in Plain, SetColumn(c)
      PROVE  Bookkeeping' /\ SetSoFar' /\ StoredByCreate' /\ CopiesBehind'
  <2>1. Bookkeeping'
    BY <1>12, DoneCall DEF SetColumn, record, history, Bookkeeping
  <2>2. SetSoFar'
    <3>1. /\ saving'.kind = saving.kind /\ saving'.todo = saving.todo \ {c} /\ c \in saving.todo
          /\ UNCHANGED <<changed, attrs, serial>>
      BY <1>12, DoneCall DEF SetColumn, Due, record
    <3>2. /\ native'.set = native.set \cup {c} /\ native'.copy[c] = attrs[c]
          /\ \A d \in Data \ {c} : native'.copy[d] = native.copy[d]
      BY <1>12 DEF SetColumn, Copied, Row
    <3>3. QED
      BY <3>1, <3>2, RecordNames DEF SetSoFar
  <2>3. StoredByCreate'
    BY <1>12, DoneCall DEF SetColumn, record, history, StoredByCreate
  <2>4. CopiesBehind'
    BY <1>12, DoneCall DEF SetColumn, record, history, CopiesBehind
  <2>5. QED
    BY <2>1, <2>2, <2>3, <2>4
<1>13. ASSUME NEW f \in Attrs, SyncField(f)
      PROVE  Bookkeeping' /\ SetSoFar' /\ StoredByCreate' /\ CopiesBehind'
  <2>1. /\ saving'.kind = saving.kind /\ saving'.todo = saving.todo \ {f} /\ f \in saving.todo
        /\ serial.state \in {"own", "part"}
        /\ UNCHANGED <<rows, attrs, changed, newRecord, wish, asked, dropped, behind, fixed, ended>>
    BY <1>13, DoneCall DEF SyncField, Due, record, history, Copied
  <2>2. Serial \in saving'.todo
    BY <2>1, RecordNames DEF SetSoFar
  <2>3. CASE serial.state = "part"
    <3>1. /\ native'.state = native.state /\ native'.row = native.row
          /\ native'.set = native.set \cup {f} /\ native'.copy[f] = Synced(serial.attrs[f])
          /\ \A d \in Data \ {f} : native'.copy[d] = native.copy[d]
          /\ serial' = serial
      <4>1. /\ native' = [native EXCEPT !.copy[f] = Synced(serial.attrs[f]),
                                        !.set = native.set \cup {f}]
            /\ serial' = serial
        BY <1>13, <2>3 DEF SyncField
      <4>2. f \in Data
        BY RecordNames
      <4>3. QED
        BY <4>1, <4>2 DEF Copied, Row
    <3>2. Bookkeeping'
      BY <2>1, <2>3, <3>1 DEF Bookkeeping
    <3>3. SetSoFar'
      BY <2>1, <2>2, <3>1, <2>3, RecordNames DEF SetSoFar
    <3>4. StoredByCreate'
      BY <2>1 DEF StoredByCreate
    <3>5. CopiesBehind'
      BY <2>1, <3>1 DEF CopiesBehind
    <3>6. QED
      BY <3>2, <3>3, <3>4, <3>5
  <2>4. CASE serial.state = "own"
    <3>1. /\ serial'.state = "own" /\ serial'.attrs = serial.attrs
          /\ serial'.copy[f] = Synced(serial.attrs[f])
          /\ \A g \in Attrs \ {f} : serial'.copy[g] = serial.copy[g]
          /\ native' = native
      BY <1>13, <2>4 DEF SyncField, Copied
    <3>2. Bookkeeping'
      BY <2>1, <2>4, <3>1 DEF Bookkeeping
    <3>3. SetSoFar'
      BY <2>1, <2>2, <2>4, <3>1, RecordNames DEF SetSoFar
    <3>4. StoredByCreate'
      BY <2>1 DEF StoredByCreate
    <3>5. CopiesBehind'
      BY <2>1, <2>4, <3>1 DEF CopiesBehind
    <3>6. QED
      BY <3>2, <3>3, <3>4, <3>5
  <2>5. QED
    BY <2>1, <2>3, <2>4
<1>14. ASSUME SetSerial
      PROVE  Bookkeeping' /\ SetSoFar' /\ StoredByCreate' /\ CopiesBehind'
  <2>1. /\ saving'.kind = saving.kind /\ saving'.todo = saving.todo \ {Serial} /\ Serial \in saving.todo
        /\ native.state = "open"
        /\ UNCHANGED <<rows, attrs, changed, newRecord, wish, asked, dropped, behind, fixed, ended>>
    BY <1>14, DoneCall DEF SetSerial, Due, record, history
  <2>2. saving.kind \in {"create", "update"} /\ \A f \in Attrs : f \notin saving.todo
    BY <1>14, <2>1, SerialComesLast DEF SetSerial, SetSoFar
  <2>3. \A f \in Attrs :
          \/ serial.state = "part" /\ f \in native.set /\ native.copy[f] = Synced(serial.attrs[f])
          \/ serial.state = "own" /\ serial.copy[f] = Synced(serial.attrs[f])
    BY <2>2 DEF SetSoFar
  <2>4. /\ serial'.state = "part" /\ serial'.attrs = serial.attrs
        /\ native'.state = native.state /\ native'.row = native.row
        /\ native'.set = native.set \cup Attrs
    BY <1>14 DEF SetSerial
  <2>5. /\ \A c \in Plain : native'.copy[c] = native.copy[c]
        /\ \A f \in Attrs : native'.copy[f] = IF serial.state = "own" THEN serial.copy[f] ELSE native.copy[f]
    <3>1. native'.copy = [d \in Data |-> IF serial.state = "own" /\ d \in Attrs
                                        THEN serial.copy[d] ELSE native.copy[d]]
      BY <1>14 DEF SetSerial
    <3>2. QED
      BY <3>1, RecordNames
  <2>6. \A f \in Attrs : native'.copy[f] = Synced(serial'.attrs[f]) /\ f \in native'.set
    BY <2>3, <2>4, <2>5
  <2>7. Bookkeeping'
    <3>1. (serial.state = "none") => (asked = {})
      BY DEF Bookkeeping
    <3>2. QED
      BY <2>1, <2>4, <3>1 DEF Bookkeeping
  <2>8. SetSoFar'
    BY <2>1, <2>2, <2>4, <2>5, <2>6, RecordNames DEF SetSoFar
  <2>9. StoredByCreate'
    BY <2>1 DEF StoredByCreate
  <2>10. CopiesBehind'
    <3>1. (native'.row = 1) =>
            \A d \in Data : native'.copy[d] = rows'[1][d] \/ d \in behind'.native \cup native'.set
      BY <2>1, <2>4, <2>5, RecordNames DEF CopiesBehind
    <3>2. (newRecord' = "no") =>
            \A f \in Attrs : \/ Synced(serial'.attrs[f]) = Synced(rows'[1][f])
                             \/ f \in asked' \cup dropped' \cup behind'.serial
      BY <2>1, <2>3, <2>4 DEF CopiesBehind
    <3>3. serial'.state = "part" /\ saving'.kind # "created"
      BY <2>1, <2>2, <2>4
    <3>4. QED
      BY <3>1, <3>2, <3>3 DEF CopiesBehind
  <2>11. QED
    BY <2>7, <2>8, <2>9, <2>10
<1>15. ASSUME Save
      PROVE  Bookkeeping' /\ SetSoFar' /\ StoredByCreate' /\ CopiesBehind'
  <2>1. /\ behind' = [attrs |-> behind.attrs \ DOMAIN changed,
                       native |-> behind.native \ Written, serial |-> {}]
        /\ dropped' = {} /\ UNCHANGED <<attrs, newRecord, serial, fixed, wish>>
        /\ saving.todo = {}
    BY <1>15 DEF Save
  <2>2. \/ saving.kind = "update" /\ saving' = NotSaving /\ changed' = <<>> /\ asked' = {}
        \/ /\ saving.kind = "create" /\ saving'.kind = "created" /\ saving'.todo = {}
           /\ UNCHANGED <<changed, asked, ended>>
    BY <1>15 DEF Save, Returns, Copied
  <2>3. saving'.todo = {} /\ saving'.kind \in {"none", "created"}
    BY <2>2 DEF NotSaving
  <2>4. Bookkeeping'
    <3>1. behind' \in [attrs: SUBSET Data, native: SUBSET Data, serial: SUBSET Attrs]
      BY <2>1 DEF Bookkeeping
    <3>2. native'.state = "open"
      BY <1>15, WhatSaveWrites
    <3>3. CASE changed' = <<>> /\ asked' = {}
      BY <2>1, <2>3, <3>1, <3>2, <3>3 DEF Bookkeeping
    <3>4. CASE UNCHANGED <<changed, asked, ended>>
      BY <2>1, <2>3, <3>1, <3>2, <3>4 DEF Bookkeeping
    <3>5. QED
      BY <2>2, <3>3, <3>4
  <2>5. SetSoFar'
    BY <2>3 DEF SetSoFar
  <2>6. StoredByCreate'
    <3>1. CASE saving'.kind = "created"
      <4>1. UNCHANGED <<changed, asked, attrs, wish, fixed>>
        BY <2>1, <2>2, <3>1 DEF NotSaving
      <4>2. \A c \in Plain \cap DOMAIN changed : rows'[1][c] = attrs[c]
        BY <1>15, WhatSaveWrites
      <4>3. \A f \in Attrs : rows'[1][f] = Synced(serial.attrs[f])
        BY <1>15, WhatSaveWrites
      <4>4. QED
        BY <4>1, <4>2, <4>3 DEF StoredByCreate, Bookkeeping
    <3>2. QED
      BY <3>1 DEF StoredByCreate
  <2>7. CopiesBehind'
    <3>1. \A d \in Data : native'.copy[d] = rows'[1][d] \/ d \in behind'.native
      <4>1. TAKE d \in Data
      <4>2. native'.copy = native.copy /\ native.set \subseteq Written
        BY <1>15, WhatSaveWrites
      <4>3. /\ rows'[1][d] = IF native.row = 0 \/ d \in Written THEN native.copy[d] ELSE rows[1][d]
            /\ native.row \in {0, 1}
        BY <1>15, WhatSaveWrites
      <4>4. QED
        BY <2>1, <4>2, <4>3 DEF CopiesBehind
    <3>2. \A f \in Attrs : Synced(rows'[1][f]) = Synced(serial'.attrs[f]) /\ serial'.state = "part"
      BY <1>15, <2>1, WhatSaveWrites, SyncedTwice
    <3>3. QED
      BY <3>1, <3>2 DEF CopiesBehind
  <2>8. QED
    BY <2>4, <2>5, <2>6, <2>7
<1>16. ASSUME TakeId
      PROVE  Bookkeeping' /\ SetSoFar' /\ StoredByCreate' /\ CopiesBehind'
  <2>1. Bookkeeping'
    BY <1>16 DEF TakeId, Returns, NotSaving, Bookkeeping
  <2>2. SetSoFar'
    BY <1>16 DEF TakeId, Returns, NotSaving, SetSoFar
  <2>3. StoredByCreate'
    BY <1>16 DEF TakeId, StoredByCreate, OneRow
  <2>4. CopiesBehind'
    BY <1>16 DEF TakeId, CopiesBehind
  <2>5. QED
    BY <2>1, <2>2, <2>3, <2>4
<1>17. ASSUME SaveRaises
      PROVE  Bookkeeping' /\ SetSoFar' /\ StoredByCreate' /\ CopiesBehind'
  <2>1. Bookkeeping'
    BY <1>17 DEF SaveRaises, record, objects, history, NotSaving, Bookkeeping
  <2>2. SetSoFar'
    BY <1>17 DEF SaveRaises, NotSaving, SetSoFar
  <2>3. StoredByCreate'
    BY <1>17 DEF SaveRaises, NotSaving, StoredByCreate
  <2>4. CopiesBehind'
    BY <1>17 DEF SaveRaises, record, objects, history, NotSaving, CopiesBehind
  <2>5. QED
    BY <2>1, <2>2, <2>3, <2>4
<1>18. ASSUME UNCHANGED recVars
      PROVE  Bookkeeping' /\ SetSoFar' /\ StoredByCreate' /\ CopiesBehind'
  <2>1. Bookkeeping'
    BY <1>18 DEF recVars, record, objects, history, Bookkeeping
  <2>2. SetSoFar'
    BY <1>18 DEF recVars, record, objects, SetSoFar
  <2>3. StoredByCreate'
    BY <1>18 DEF recVars, record, history, StoredByCreate
  <2>4. CopiesBehind'
    BY <1>18 DEF recVars, record, objects, history, CopiesBehind
  <2>5. QED
    BY <2>1, <2>2, <2>3, <2>4
<1>19. QED
  BY <1>1, <1>2, <1>3, <1>4, <1>5, <1>6, <1>7, <1>8, <1>9, <1>10, <1>11, <1>12, <1>13, <1>14,
     <1>15, <1>16, <1>17, <1>18 DEF RecNext

\* What is known of a record at any time.
RecordInOrder == Copied /\ OneRow /\ Bookkeeping /\ SetSoFar /\ StoredByCreate /\ CopiesBehind

\* A new record is in order, and so is one a query found.
LEMMA KeptAtFirst ==
  ASSUME RecInit, Copied, OneRow
  PROVE  RecordInOrder
<1>1. /\ changed = <<>> /\ native = NoNative /\ serial = NoSerial
      /\ saving = NotSaving /\ wish = BlankAttrs /\ asked = {} /\ dropped = {}
      /\ behind = [attrs |-> {}, native |-> {}, serial |-> {}] /\ ended = "other"
  BY DEF RecInit
<1>2. Bookkeeping
  <2>1. wish \in [Attrs -> Values]
    BY <1>1 DEF BlankAttrs, Values
  <2>2. QED
    BY <1>1, <2>1 DEF Bookkeeping, NoNative, NoSerial, NotSaving
<1>3. SetSoFar /\ StoredByCreate
  BY <1>1 DEF SetSoFar, StoredByCreate, NotSaving
<1>4. CopiesBehind
  <2>1. newRecord = "no" => rows[1] = attrs
    BY DEF RecInit
  <2>2. QED
    BY <1>1, <2>1 DEF CopiesBehind, NoNative, NoSerial, NotSaving
<1>5. QED
  BY <1>2, <1>3, <1>4 DEF RecordInOrder

\* A record is kept in order at every step.
THEOREM RecordKept == RecSpec => []RecordInOrder
<1>1. RecInit => RecordInOrder
  BY OneRowAtFirst, KeptAtFirst
<1>2. RecordInOrder /\ [RecNext]_recVars => RecordInOrder'
  BY OneRowStep, RecordStep DEF RecordInOrder
<1>3. QED
  BY <1>1, <1>2, PTL DEF RecSpec

\* Only three steps end with a save that returned; one that was has nothing left to
\* store.
LEMMA SavesEnd ==
  ASSUME RecordInOrder, [RecNext]_recVars, ended' = "saved", ~ UpdateBySql, ~ Save, ~ TakeId
  PROVE  DOMAIN changed = {} /\ asked = {}
<1>1. ended' = ended \/ ended' = "other"
  BY DEF RecNext, recVars, IntersysObject, SerialObject, IdOfNative, Assign, AssignField,
     FieldSet, ReplaceSerial,
         Assigns, ReloadRecord, OthersWrite, BeginCreate, BeginUpdate, SetColumn, SyncField, SetSerial, SaveRaises
<1>2. QED
  BY <1>1 DEF RecordInOrder, Bookkeeping

\* Whatever is tried again after whatever raised: a save that returns has stored every
\* changed column and every field assigned, an empty one as nil.
THEOREM SavedMeansStoredHolds == RecSpec => SavedMeansStored
<1>1. RecordInOrder /\ [RecNext]_recVars => (ended' = "saved" /\ recId' # 0 => AllStored)
  <2> SUFFICES ASSUME RecordInOrder, [RecNext]_recVars, ended' = "saved", recId' # 0 PROVE AllStored
    OBVIOUS
  <2>1. \A f \in asked : f \in Attrs /\ serial.attrs[f] = wish[f]
    BY DEF RecordInOrder, Bookkeeping
  <2>2. CASE UpdateBySql
    <3>1. /\ recId = 1 /\ 1 \in DOMAIN rows
          /\ rows' = [r \in DOMAIN rows |->
                        IF r # recId THEN rows[r]
                        ELSE [d \in Data |-> IF d \in DOMAIN changed THEN attrs[d] ELSE rows[r][d]]]
      BY <2>2 DEF UpdateBySql, RecordInOrder, OneRow
    <3>2. \A c \in DOMAIN changed \cap Plain : rows'[1][c] = attrs[c]
      BY <3>1, RecordNames
    <3>3. asked = {}
      BY <2>2 DEF UpdateBySql, RecordInOrder, Bookkeeping
    <3>4. QED
      BY <3>2, <3>3 DEF AllStored, Stored
  <2>3. CASE Save
    <3>1. /\ \A c \in Plain \cap DOMAIN changed : rows'[1][c] = attrs[c]
          /\ \A f \in Attrs : rows'[1][f] = Synced(serial.attrs[f])
      BY <2>3, WhatSaveWrites DEF RecordInOrder
    <3>2. QED
      BY <2>1, <3>1 DEF AllStored, Stored
  <2>4. CASE TakeId
    <3>1. saving.kind = "created" /\ rows' = rows
      BY <2>4 DEF TakeId
    <3>2. QED
      BY <3>1 DEF AllStored, Stored, RecordInOrder, StoredByCreate
  <2>5. CASE ~ UpdateBySql /\ ~ Save /\ ~ TakeId
    BY <2>5, SavesEnd DEF AllStored
  <2>6. QED
    BY <2>2, <2>3, <2>4, <2>5
<1>2. RecordInOrder /\ [RecNext]_recVars => [ended' = "saved" /\ recId' # 0 => AllStored]_recVars
  BY <1>1
<1>3. QED
  BY <1>2, RecordKept, PTL DEF RecSpec, SavedMeansStored

\* Rows change in three steps.
LEMMA RowsChange ==
  ASSUME [RecNext]_recVars, rows' # rows
  PROVE  UpdateBySql \/ Save \/ (UNCHANGED <<saving, changed>>)
BY DEF RecNext, recVars, record, IntersysObject, SerialObject, IdOfNative, Assign, AssignField,
   FieldSet, ReplaceSerial,
       ReloadRecord, OthersWrite, BeginCreate, BeginUpdate, SetColumn, SyncField, SetSerial, TakeId, SaveRaises

\* However many copies there are and whoever writes: an update changes what the
\* program assigned, and else only where the property says a copy was behind.
THEOREM UntouchedStaysHolds == RecSpec => UntouchedStays
<1> DEFINE Updates == saving.kind \in {"none", "update"} /\ (saving' # saving \/ changed' # changed)
<1>1. RecordInOrder /\ [RecNext]_recVars => (Updates => OthersUntouched)
  <2> SUFFICES ASSUME RecordInOrder, [RecNext]_recVars, Updates PROVE OthersUntouched
    OBVIOUS
  <2>1. CASE rows' = rows
    BY <2>1 DEF OthersUntouched
  <2>2. CASE UpdateBySql
    <3>1. rows' = [r \in DOMAIN rows |->
                     IF r # recId THEN rows[r]
                     ELSE [d \in Data |-> IF d \in DOMAIN changed THEN attrs[d] ELSE rows[r][d]]]
      BY <2>2 DEF UpdateBySql
    <3>2. QED
      BY <3>1 DEF OthersUntouched
  <2>3. CASE Save
    <3>1. native.row = 1 /\ newRecord = "no" /\ DOMAIN rows = {1}
      BY <2>3 DEF Save, RecordInOrder, OneRow
    <3>2. ASSUME NEW d \in Data, rows'[1][d] # rows[1][d]
          PROVE  \/ d \in asked \cup dropped \cup DOMAIN changed \cup (native.set \ Attrs)
                 \/ d \in Attrs /\ rows'[1][d] = Synced(rows[1][d])
                 \/ d \in behind.serial
                 \/ d \in behind.native /\ fixed.writes = "all"
      <4>1. d \in Written /\ rows'[1][d] = native.copy[d]
        BY <2>3, <3>1, <3>2, WhatSaveWrites DEF RecordInOrder
      <4>2. d \in behind.native \cup native.set
        BY <3>1, <3>2, <4>1 DEF RecordInOrder, CopiesBehind
      <4>3. CASE d \in Attrs
        <5>1. rows'[1][d] = Synced(serial.attrs[d]) /\ serial.state = "part"
          BY <2>3, <4>3, WhatSaveWrites DEF RecordInOrder
        <5>2. QED
          BY <3>1, <3>2, <4>3, <5>1 DEF RecordInOrder, CopiesBehind
      <4>4. CASE d \notin Attrs
        BY <4>1, <4>2, <4>4 DEF Written
      <4>5. QED
        BY <4>3, <4>4
    <3>3. QED
      BY <3>1, <3>2 DEF OthersUntouched
  <2>4. QED
    BY <2>1, <2>2, <2>3, RowsChange
<1>2. RecordInOrder /\ [RecNext]_recVars => [Updates => OthersUntouched]_recVars
  BY <1>1
<1>3. QED
  BY <1>2, RecordKept, PTL DEF RecSpec, UntouchedStays

Saves == [kind: {"none", "create", "created", "update"}, todo: SUBSET (Plain \cup {Serial} \cup Attrs)]

\* What the types say beyond what is kept.
Typed ==
  /\ \A c \in DOMAIN changed : changed[c] \in Values
  /\ (newRecord = "yes") => (recId = 0)
  /\ (objectId = 1) => (Len(rows) = 1)
  /\ (native.state = "none") => (native.row = 0)
  /\ saving \in Saves /\ dropped \subseteq Attrs /\ ended \in {"saved", "other"}

\* Whatever the program, the server and the others do, a record keeps its types.
THEOREM RecTypeCorrect == RecSpec => []RecTypeOK
<1>1. RecInit => Typed
  BY DEF RecInit, Typed, Saves, NotSaving, Unknown, NoNative
<1>2. RecordInOrder /\ RecordInOrder' /\ Typed /\ [RecNext]_recVars => Typed'
  <2> SUFFICES ASSUME RecordInOrder, RecordInOrder', Typed, [RecNext]_recVars PROVE Typed'
    OBVIOUS
  <2>1. CASE IntersysObject
    BY <2>1 DEF IntersysObject, record, Typed
  <2>2. CASE SerialObject
    BY <2>2 DEF SerialObject, record, Typed
  <2>3. CASE IdOfNative
    BY <2>3 DEF IdOfNative, record, history, Typed, RecordInOrder, OneRow
  <2>4. ASSUME NEW c \in Plain, NEW value \in {NoValue, 1}, Assign(c, value) PROVE Typed'
    BY <2>4 DEF Assign, objects, history, Typed, Assigns, Dirty, RecordInOrder, Copied, Row
  <2>5. ASSUME NEW f \in Attrs, NEW value \in {NoValue, 1, Empty}, AssignField(f, value) PROVE Typed'
    BY <2>5 DEF AssignField, FieldSet, Typed, Assigns, WillChange, Dirty, Values
  <2>6. CASE ReplaceSerial
    BY <2>6 DEF ReplaceSerial, Typed, Assigns, WillChange, Dirty, Values
  <2>7. CASE ReloadRecord
    BY <2>7 DEF ReloadRecord, objects, Typed, RecordInOrder, Bookkeeping
  <2>8. ASSUME NEW d \in Data, OthersWrite(d) PROVE Typed'
    BY <2>8 DEF OthersWrite, record, objects, Typed
  <2>9. CASE BeginCreate
    BY <2>9 DEF BeginCreate, record, objects, history, Typed, Calls, Saves, Plain
  <2>10. CASE BeginUpdate
    BY <2>10 DEF BeginUpdate, record, objects, history, Typed, Calls, Saves, RecordInOrder, Bookkeeping
  <2>11. CASE UpdateBySql
    BY <2>11 DEF UpdateBySql, objects, Typed, Returns
  <2>12. ASSUME NEW c \in Plain, SetColumn(c) PROVE Typed'
    BY <2>12 DEF SetColumn, record, history, Typed, CallDone, Saves
  <2>13. ASSUME NEW f \in Attrs, SyncField(f) PROVE Typed'
    BY <2>13 DEF SyncField, record, history, Typed, CallDone, Saves, RecordInOrder, Copied
  <2>14. CASE SetSerial
    BY <2>14 DEF SetSerial, record, history, Typed, CallDone, Saves
  <2>15. CASE Save
    BY <2>15 DEF Save, Typed, Returns, NotSaving, Saves, RecordInOrder, OneRow
  <2>16. CASE TakeId
    BY <2>16 DEF TakeId, Typed, Returns, NotSaving, Saves, RecordInOrder, OneRow
  <2>17. CASE SaveRaises
    BY <2>17 DEF SaveRaises, record, objects, history, Typed, NotSaving, Saves
  <2>18. CASE UNCHANGED recVars
    BY <2>18 DEF recVars, record, objects, history, Typed
  <2>19. QED
    BY <2>1, <2>2, <2>3, <2>4, <2>5, <2>6, <2>7, <2>8, <2>9, <2>10, <2>11, <2>12, <2>13, <2>14,
       <2>15, <2>16, <2>17, <2>18 DEF RecNext
<1>3. RecordInOrder /\ Typed => RecTypeOK
  <2> SUFFICES ASSUME RecordInOrder, Typed PROVE RecTypeOK
    OBVIOUS
  <2>1. Copied /\ OneRow /\ Bookkeeping
    BY DEF RecordInOrder
  <2>2. rows \in Seq([Data -> Values]) /\ attrs \in [Data -> Values] /\ Len(rows) \in {0, 1}
    BY <2>1 DEF Copied, OneRow, Row
  <2>3. recId \in 0..Len(rows) /\ objectId \in (0..Len(rows)) \cup {Unknown} /\ native.row \in 0..Len(rows)
    <3>1. native.state = "none" \/ native.state = "open"
      BY <2>1 DEF Copied
    <3>2. native.row \in {0, Len(rows)}
      BY <2>1, <2>2, <3>1 DEF OneRow, Typed
    <3>3. recId = 0 \/ Len(rows) = 1
      BY <2>1 DEF OneRow, Typed
    <3>4. recId \in {0, Len(rows)} /\ objectId \in {0, Len(rows), Unknown}
      BY <2>1, <2>2, <3>3 DEF OneRow, Typed
    <3>5. QED
      BY <2>2, <3>2, <3>4
  <2>4. native \in [state: {"none", "open"}, row: 0..Len(rows), copy: [Data -> Values], set: SUBSET Data]
    BY <2>1, <2>3 DEF Copied, Row
  <2>5. QED
    BY <2>1, <2>2, <2>3, <2>4 DEF RecTypeOK, Typed, Saves, Bookkeeping, Copied, OneRow
<1>4. QED
  BY <1>1, <1>2, <1>3, RecordKept, PTL DEF RecSpec

-----------------------------------------------------------------------------
(* A stream.                                                               *)

\* A number of blocks is what was read, and every part of it but a short one is whole.
Made(n) == \E ends \in [0..n -> 0..Len(got)] : MadeOf(n, ends)

\* The blocks before the one a read stands at begin before the end.
Under(n) == (n - 1) * BLOCK_SIZE < Len(content)

\* While read_all reads undisturbed: where it stands, and that what it has is made of
\* the blocks before.
ReadSoFar ==
  /\ content \in Seq(Int) /\ position \in 0..Len(content) /\ got \in Seq(Int)
  /\ reader \in [pc: {"idle", "rewind", "read", "move"}, size: Nat, left: Nat, next: Nat]
  /\ (reader.pc = "idle") => (reader = NotReading)
  /\ (outcome = "read_all") => (reader = NotReading)
  /\ disturbed \in Nat
  /\ (disturbed = 0 /\ reader.pc = "rewind") =>
       reader.next = 0 /\ reader.left = Len(content) /\ got = <<>> /\ Len(content) > 0
  /\ (disturbed = 0 /\ reader.pc = "read") =>
       /\ position = reader.next /\ reader.left = Len(content) - reader.next /\ reader.left > 0
       /\ \E n \in Nat : reader.next = n * BLOCK_SIZE /\ Made(n)
  /\ (disturbed = 0 /\ reader.pc = "move") =>
       /\ reader.left = Len(content) - reader.next
       /\ \E n \in Nat \ {0} :
            /\ Made(n) /\ Under(n)
            /\ reader.next = IF n * BLOCK_SIZE < Len(content) THEN n * BLOCK_SIZE ELSE Len(content)
  /\ (disturbed = 0 /\ outcome = "read_all") =>
       \E n \in Nat \ {0} : Made(n) /\ Under(n) /\ Len(content) <= n * BLOCK_SIZE

\* BlockMultiples of the size of a block.
LEMMA BlockMultiples ==
  /\ \A n \in Int : n * BLOCK_SIZE \in Int
  /\ \A n \in Nat : n * BLOCK_SIZE \in Nat /\ n <= n * BLOCK_SIZE
                    /\ (n + 1) * BLOCK_SIZE = n * BLOCK_SIZE + BLOCK_SIZE
  /\ \A m, n \in Nat : m <= n => m * BLOCK_SIZE <= n * BLOCK_SIZE
<1>1. BLOCK_SIZE \in Nat \ {0}
  BY BlockAssumption
<1>2. QED
  BY <1>1, SMTT(30)

\* The stream has as many blocks as were read.
LEMMA BlocksRead ==
  ASSUME content \in Seq(Int), NEW n \in Nat \ {0}, Under(n), Len(content) <= n * BLOCK_SIZE
  PROVE  Cardinality(Blocks) = n
<1>1. Len(content) \in Nat
  BY LenProperties
<1>2. ASSUME NEW b \in 0..(n - 1) PROVE b \in 0..Len(content) /\ b * BLOCK_SIZE < Len(content)
  <2>1. b \in Nat /\ n - 1 \in Nat /\ b <= n - 1
    OBVIOUS
  <2>2. b <= b * BLOCK_SIZE /\ b * BLOCK_SIZE <= (n - 1) * BLOCK_SIZE
        /\ b * BLOCK_SIZE \in Nat /\ (n - 1) * BLOCK_SIZE \in Nat
    BY <2>1, BlockMultiples
  <2> DEFINE x == b * BLOCK_SIZE
             y == (n - 1) * BLOCK_SIZE
  <2> HIDE DEF x, y
  <2>3. x \in Nat /\ y \in Nat /\ b <= x /\ x <= y /\ y < Len(content)
    BY <2>2 DEF x, y, Under
  <2>4. x < Len(content) /\ b \in 0..Len(content)
    BY <1>1, <2>1, <2>3
  <2>5. QED
    BY <2>4 DEF x
<1>3. ASSUME NEW b \in 0..Len(content), b * BLOCK_SIZE < Len(content) PROVE b \in 0..(n - 1)
  <2>1. b \in Nat
    BY <1>1
  <2>2. CASE n <= b
    <3>1. n * BLOCK_SIZE <= b * BLOCK_SIZE /\ n * BLOCK_SIZE \in Nat /\ b * BLOCK_SIZE \in Nat
      BY <2>1, <2>2, BlockMultiples
    <3> DEFINE x == n * BLOCK_SIZE
               y == b * BLOCK_SIZE
    <3> HIDE DEF x, y
    <3>2. x <= y /\ x \in Nat /\ y \in Nat /\ Len(content) <= x /\ y < Len(content)
      BY <1>3, <3>1 DEF x, y
    <3>3. QED
      BY <1>1, <3>2
  <2>3. QED
    BY <2>1, <2>2
<1>4. Blocks = 0..(n - 1)
  BY <1>2, <1>3 DEF Blocks
<1>5. QED
  BY <1>4, FS_Interval

\* What a read appends: a part of the block it stands at, of which it says so where it is
\* a part only.
LEMMA OneMoreBlock ==
  ASSUME content \in Seq(Int), got \in Seq(Int), NEW d \in Nat, Made(d),
         NEW n \in 1..BlockSize(d), BlockSize(d) \in Nat,
         UNCHANGED content,
         got' = got \o SubSeq(content, d * BLOCK_SIZE + 1, d * BLOCK_SIZE + n),
         d * BLOCK_SIZE + n <= Len(content),
         cuts \subseteq cuts', n # BlockSize(d) => d * BLOCK_SIZE \in cuts'
  PROVE  Made(d + 1)' /\ got' \in Seq(Int)
<1>1. PICK p \in Nat : p = d * BLOCK_SIZE
  BY BlockMultiples
<1>2. Len(content) \in Nat /\ Len(got) \in Nat
  BY LenProperties
<1> DEFINE chunk == SubSeq(content, p + 1, p + n)
<1>3. \A i \in (p + 1)..(p + n) : content[i] \in Int
  BY <1>1, <1>2, LenProperties, SMTT(30)
<1>4. chunk \in Seq(Int) /\ Len(chunk) = n /\ \A k \in 1..n : chunk[k] = content[p + k]
  <2>1. p + 1 \in Int /\ p + n \in Int
    BY <1>1
  <2>2. /\ chunk \in Seq(Int) /\ Len(chunk) = (IF p + 1 <= p + n THEN (p + n) - (p + 1) + 1 ELSE 0)
        /\ \A k \in 1..((p + n) - (p + 1) + 1) : chunk[k] = content[p + 1 + k - 1]
    BY <1>3, <2>1, SubSeqProperties
  <2>3. \A k \in 1..n : p + 1 + k - 1 = p + k
    BY <1>1
  <2>4. (p + n) - (p + 1) + 1 = n /\ p + 1 <= p + n
    BY <1>1
  <2> HIDE DEF chunk
  <2>5. QED
    BY <2>2, <2>3, <2>4
<1>5. got' = got \o chunk
  BY <1>1
<1> HIDE DEF chunk
<1>6. /\ got' \in Seq(Int) /\ Len(got') = Len(got) + n
      /\ \A i \in 1..Len(got) : got'[i] = got[i]
      /\ \A k \in 1..n : got'[Len(got) + k] = content[p + k]
  <2>1. /\ got \o chunk \in Seq(Int) /\ Len(got \o chunk) = Len(got) + Len(chunk)
        /\ \A i \in 1..(Len(got) + Len(chunk)) :
             (got \o chunk)[i] = IF i <= Len(got) THEN got[i] ELSE chunk[i - Len(got)]
    BY <1>4, ConcatProperties
  <2>2. \A i \in 1..Len(got) : i \in 1..(Len(got) + n) /\ i <= Len(got)
    BY <1>2
  <2>3. \A k \in 1..n : /\ Len(got) + k \in 1..(Len(got) + n) /\ ~(Len(got) + k <= Len(got))
                        /\ (Len(got) + k) - Len(got) = k
    BY <1>2
  <2>4. QED
    BY <1>4, <1>5, <2>1, <2>2, <2>3, ZenonT(40)
<1>7. PICK ends \in [0..d -> 0..Len(got)] : MadeOf(d, ends)
  BY DEF Made
<1>8. PICK more \in [0..(d + 1) -> 0..(Len(got) + n)] :
        /\ \A i \in 0..d : more[i] = ends[i] /\ ends[i] \in 0..Len(got)
        /\ more[d + 1] = Len(got) + n
  <2> DEFINE m == [i \in 0..(d + 1) |-> IF i = d + 1 THEN Len(got) + n ELSE ends[i]]
  <2>1. /\ m \in [0..(d + 1) -> 0..(Len(got) + n)]
        /\ \A i \in 0..d : m[i] = ends[i] /\ ends[i] \in 0..Len(got)
        /\ m[d + 1] = Len(got) + n
    BY <1>2, <1>7
  <2> HIDE DEF m
  <2>2. QED
    BY <2>1
<1>9. more[0] = 0 /\ more[d + 1] = Len(got') /\ more[d] = Len(got)
  BY <1>6, <1>7, <1>8 DEF MadeOf
<1>10. ASSUME NEW b \in 0..d
       PROVE  LET taken == more[b + 1] - more[b] IN
              /\ taken \in 1..BlockSize(b)
              /\ b * BLOCK_SIZE \notin cuts' => taken = BlockSize(b)
              /\ \A k \in 1..taken : got'[more[b] + k] = content[b * BLOCK_SIZE + k]
  <2>1. CASE b = d
    <3>1. more[b + 1] - more[b] = n /\ more[b] = Len(got) /\ b * BLOCK_SIZE = p /\ BlockSize(b) = BlockSize(d)
      <4>1. b * BLOCK_SIZE = p /\ BlockSize(b) = BlockSize(d) /\ more[b] = Len(got)
        BY <1>1, <1>9, <2>1, Zenon
      <4>2. more[b + 1] = Len(got) + n
        BY <1>8, <2>1, Zenon
      <4>3. (Len(got) + n) - Len(got) = n
        BY <1>2
      <4>4. QED
        BY <4>1, <4>2, <4>3
    <3>2. n # BlockSize(b) => b * BLOCK_SIZE \in cuts'
      BY <2>1
    <3>3. \A k \in 1..n : got'[more[b] + k] = content[b * BLOCK_SIZE + k]
      BY <1>6, <3>1
    <3>4. n \in 1..BlockSize(b)
      BY <2>1
    <3>5. QED
      BY <3>1, <3>2, <3>3, <3>4
  <2>2. CASE b # d
    <3>1. b \in 0..(d - 1) /\ b \in 0..d /\ b + 1 \in 0..d
      BY <2>2
    <3>2. more[b + 1] = ends[b + 1] /\ more[b] = ends[b] /\ ends[b] \in Nat /\ ends[b + 1] \in 0..Len(got)
      BY <1>2, <1>8, <3>1
    <3>3. /\ ends[b + 1] - ends[b] \in 1..BlockSize(b)
          /\ b * BLOCK_SIZE \notin cuts => ends[b + 1] - ends[b] = BlockSize(b)
          /\ \A k \in 1..(ends[b + 1] - ends[b]) : got[ends[b] + k] = content[b * BLOCK_SIZE + k]
      BY <1>7, <3>1 DEF MadeOf
    <3>4. \A k \in 1..(ends[b + 1] - ends[b]) : got'[ends[b] + k] = got[ends[b] + k]
      <4>1. \A k \in 1..(ends[b + 1] - ends[b]) : ends[b] + k \in 1..Len(got)
        <5>1. PICK u \in Nat, v \in 0..Len(got) : u = ends[b] /\ v = ends[b + 1]
          BY <3>2
        <5>2. \A k \in 1..(v - u) : u + k \in 1..Len(got)
          BY <1>2
        <5>3. QED
          BY <5>1, <5>2
      <4>2. QED
        BY <1>6, <4>1
    <3>5. b * BLOCK_SIZE \notin cuts' => b * BLOCK_SIZE \notin cuts
      OBVIOUS
    <3>6. QED
      BY <3>2, <3>3, <3>4, <3>5, Zenon
  <2>3. QED
    BY <2>1, <2>2
<1>11. \A b : BlockSize(b)' = BlockSize(b)
  BY DEF BlockSize
<1>12. MadeOf(d + 1, more)'
  <2>1. (d + 1) - 1 = d
    OBVIOUS
  <2>2. QED
    BY <1>9, <1>10, <1>11, <2>1, Zenon DEF MadeOf
<1>13. more \in [0..(d + 1) -> 0..Len(got')]
  BY <1>6, <1>8
<1>14. QED
  BY <1>6, <1>12, <1>13 DEF Made

\* A read that goes by what it asks for.
LEMMA BlockRead ==
  ASSUME ReadSoFar, disturbed = 0, ReadBlock
  PROVE  /\ got' \in Seq(Int) /\ reader'.pc = "move" /\ reader'.left = Len(content) - reader'.next
         /\ reader' \in [pc: {"idle", "rewind", "read", "move"}, size: Nat, left: Nat, next: Nat]
         /\ position' \in 0..Len(content)
         /\ \E n \in Nat \ {0} :
              /\ Made(n)' /\ Under(n)'
              /\ reader'.next = IF n * BLOCK_SIZE < Len(content) THEN n * BLOCK_SIZE ELSE Len(content)
<1>1. /\ reader.pc = "read" /\ position = reader.next /\ reader.left = Len(content) - reader.next
      /\ reader.left > 0
  BY DEF ReadBlock, ReadSoFar
<1>2. PICK d \in Nat : reader.next = d * BLOCK_SIZE /\ Made(d)
  BY <1>1 DEF ReadSoFar
<1>3. PICK p \in Nat : p = d * BLOCK_SIZE /\ (d + 1) * BLOCK_SIZE = p + BLOCK_SIZE
  BY BlockMultiples
<1>4. PICK l \in Nat : l = Len(content)
  BY LenProperties DEF ReadSoFar
<1>5. PICK B \in Nat \ {0} : B = BLOCK_SIZE
  BY BlockAssumption
<1>6. p < l /\ reader.left = l - p
  BY <1>1, <1>2, <1>3, <1>4
<1>7. ToRead = BlockSize(d) /\ ToRead = (IF l - p < B THEN l - p ELSE B)
  BY <1>3, <1>4, <1>5, <1>6 DEF ToRead, BlockSize
<1>8. PICK n \in 1..ToRead :
        /\ position + n <= Len(content)
        /\ got' = got \o SubSeq(content, position + 1, position + n)
        /\ position' = position + n
        /\ cuts' = IF n < ToRead THEN cuts \cup {reader.next} ELSE cuts
        /\ reader' = [reader EXCEPT !.pc = "move", !.left = @ - ToRead, !.next = @ + ToRead]
  BY DEF ReadBlock
<1>9. ToRead \in Nat /\ n \in Nat /\ 1 <= n /\ n <= ToRead
  BY <1>4, <1>5, <1>6, <1>7, <1>8
<1>10. UNCHANGED content
  BY DEF ReadBlock
<1>11. /\ got' = got \o SubSeq(content, d * BLOCK_SIZE + 1, d * BLOCK_SIZE + n)
       /\ d * BLOCK_SIZE + n <= Len(content)
  BY <1>1, <1>2, <1>8
<1>12. cuts \subseteq cuts' /\ (n # BlockSize(d) => d * BLOCK_SIZE \in cuts')
  BY <1>2, <1>7, <1>8, <1>9
<1>13. Made(d + 1)' /\ got' \in Seq(Int)
  BY <1>2, <1>7, <1>8, <1>9, <1>10, <1>11, <1>12, OneMoreBlock DEF ReadSoFar
<1>14. Under(d + 1)'
  BY <1>3, <1>4, <1>6, <1>10 DEF Under
<1>15. /\ reader'.pc = "move" /\ reader'.left = (l - p) - ToRead /\ reader'.next = p + ToRead
       /\ reader'.size = reader.size
  BY <1>2, <1>3, <1>6, <1>8 DEF ReadSoFar
<1>16. /\ reader'.left \in Nat /\ reader'.next \in Nat /\ reader'.left = l - reader'.next
       /\ reader'.next = IF p + B < l THEN p + B ELSE l
  BY <1>4, <1>5, <1>6, <1>7, <1>15
<1>17. reader' \in [pc: {"idle", "rewind", "read", "move"}, size: Nat, left: Nat, next: Nat]
  BY <1>8, <1>15, <1>16 DEF ReadSoFar
<1>18. position' \in 0..Len(content)
  <2>1. position' = p + n
    BY <1>1, <1>2, <1>3, <1>8
  <2>2. p + n <= l
    BY <1>3, <1>4, <1>11
  <2>3. QED
    BY <1>4, <1>9, <2>1, <2>2
<1>19. QED
  BY <1>3, <1>4, <1>5, <1>13, <1>14, <1>15, <1>16, <1>17, <1>18

\* A read of a stream that somebody else has moved.
LEMMA DisturbedRead ==
  ASSUME ReadSoFar, ReadBlock
  PROVE  /\ got' \in Seq(Int) /\ reader'.pc = "move" /\ position' \in 0..Len(content)
         /\ reader' \in [pc: {"idle", "rewind", "read", "move"}, size: Nat, left: Nat, next: Nat]
<1>1. PICK n \in 1..ToRead :
        /\ position + n <= Len(content)
        /\ got' = got \o SubSeq(content, position + 1, position + n)
        /\ position' = position + n
        /\ reader' = [reader EXCEPT !.pc = "move", !.left = @ - ToRead, !.next = @ + ToRead]
  BY DEF ReadBlock
<1>2. /\ reader \in [pc: {"idle", "rewind", "read", "move"}, size: Nat, left: Nat, next: Nat]
      /\ position \in 0..Len(content) /\ Len(content) \in Nat
  BY LenProperties DEF ReadSoFar
<1>3. ToRead \in Nat /\ ToRead <= reader.left /\ n \in Nat \ {0} /\ position \in Nat
  <2>1. PICK b \in Nat, left \in Nat : b = BLOCK_SIZE /\ left = reader.left
    BY <1>2, BlockAssumption
  <2>2. ToRead = IF left > b THEN b ELSE left
    BY <2>1 DEF ToRead
  <2>3. ToRead \in Nat /\ ToRead <= reader.left
    BY <2>1, <2>2
  <2>4. PICK t \in Nat : t = ToRead
    BY <2>3
  <2>5. n \in 1..t
    BY <1>1, <2>4, Zenon
  <2>6. n \in Nat \ {0}
    BY <2>4, <2>5
  <2>7. position \in Nat
    BY <1>2
  <2>8. QED
    BY <2>3, <2>6, <2>7
<1>4. PICK f, l \in Int : /\ f = position + 1 /\ l = position + n
                         /\ f \in 1..(Len(content) + 1) /\ l \in 0..Len(content) /\ f <= l + 1
  BY <1>1, <1>2, <1>3
<1>5. PICK chunk : chunk = SubSeq(content, f, l)
  OBVIOUS
<1>6. chunk \in Seq(Int)
  BY <1>4, <1>5, PartType DEF ReadSoFar
<1>7. got' = got \o chunk
  BY <1>1, <1>4, <1>5
<1>8. got' \in Seq(Int)
  <2>1. got \in Seq(Int)
    BY DEF ReadSoFar
  <2>2. got \o chunk \in Seq(Int)
    BY <1>6, <2>1, ConcatProperties
  <2>3. QED
    BY <1>7, <2>2
<1>9. /\ reader'.pc = "move"
      /\ reader' \in [pc: {"idle", "rewind", "read", "move"}, size: Nat, left: Nat, next: Nat]
  <2>1. PICK u \in Nat : u = ToRead /\ u <= reader.left
    BY <1>3
  <2>2. reader.left - u \in Nat /\ reader.next + u \in Nat
    BY <1>2, <2>1
  <2>3. reader' = [reader EXCEPT !.pc = "move", !.left = @ - u, !.next = @ + u]
    BY <1>1, <2>1, Zenon
  <2>4. QED
    BY <1>2, <2>2, <2>3
<1>10. position' \in 0..Len(content)
  BY <1>1, <1>2, <1>3
<1>11. QED
  BY <1>8, <1>9, <1>10

\* What the program writes.
LEMMA WriteKeeps ==
  ASSUME ReadSoFar, Write
  PROVE  content' \in Seq(Int) /\ position' \in 0..Len(content')
<1>1. Len(content) \in Nat /\ position \in 0..Len(content) /\ content \in Seq(Int)
  BY LenProperties DEF ReadSoFar
<1> DEFINE a == SubSeq(content, 1, position)
           b == <<-(position + 1)>>
           c == SubSeq(content, position + 2, Len(content))
<1>2. content' = (a \o b) \o c /\ position' = position + 1
  BY DEF Write
<1>3. a \in Seq(Int) /\ Len(a) = position
  BY <1>1, PartType
<1>4. b \in Seq(Int) /\ Len(b) = 1
  BY <1>1
<1>5. c \in Seq(Int) /\ Len(c) \in Nat
  <2>1. \A i \in (position + 2)..Len(content) : content[i] \in Int
    BY <1>1, LenProperties
  <2>2. c \in Seq(Int)
    BY <1>1, <2>1, SubSeqProperties
  <2> HIDE DEF c
  <2>3. QED
    BY <2>2, LenProperties
<1> HIDE DEF a, b, c
<1>6. a \o b \in Seq(Int) /\ Len(a \o b) = Len(a) + Len(b)
  BY <1>3, <1>4, ConcatProperties
<1>7. (a \o b) \o c \in Seq(Int) /\ Len((a \o b) \o c) = Len(a \o b) + Len(c)
  BY <1>5, <1>6, ConcatProperties
<1>8. QED
  BY <1>1, <1>2, <1>3, <1>4, <1>5, <1>6, <1>7

\* At every step of a read, and between reads.
THEOREM ReadsSoFar == StreamSpec => []ReadSoFar
<1>1. StreamInit => ReadSoFar
  <2> SUFFICES ASSUME StreamInit PROVE ReadSoFar
    OBVIOUS
  <2>1. PICK n \in 0..MaxContent : content = [i \in 1..n |-> i]
    BY DEF StreamInit
  <2>2. n \in Nat /\ content \in Seq(Int)
    BY <2>1
  <2>3. QED
    BY <2>2 DEF StreamInit, ReadSoFar, NotReading
<1>2. ReadSoFar /\ [StreamNext]_streamVars => ReadSoFar'
  <2> SUFFICES ASSUME ReadSoFar, [StreamNext]_streamVars PROVE ReadSoFar'
    OBVIOUS
  <2> DEFINE Readers == [pc: {"idle", "rewind", "read", "move"}, size: Nat, left: Nat, next: Nat]
  <2>1. Len(content) \in Nat /\ reader \in Readers
    BY LenProperties DEF ReadSoFar
  <2>2. ASSUME UNCHANGED <<content, got, cuts>>
        PROVE  \A n : (Made(n) => Made(n)') /\ (Under(n) => Under(n)')
    BY <2>2 DEF Made, MadeOf, Under, BlockSize
  <2>3. CASE BeginReadAll
    <3>1. reader.pc = "idle" /\ UNCHANGED <<content, position>> /\ got' = <<>> /\ disturbed' = 0
      BY <2>3 DEF BeginReadAll, NotReading
    <3>2. CASE Len(content) = 0
      BY <2>1, <2>3, <3>1, <3>2 DEF BeginReadAll, NotReading, ReadSoFar
    <3>3. CASE Len(content) # 0
      BY <2>1, <2>3, <3>1, <3>3 DEF BeginReadAll, NotReading, ReadSoFar
    <3>4. QED
      BY <3>2, <3>3
  <2>4. CASE RewindFirst
    <3>1. /\ reader.pc = "rewind" /\ reader' = [reader EXCEPT !.pc = "read"] /\ position' = 0
          /\ UNCHANGED <<content, got, outcome, cuts, disturbed>>
      BY <2>4 DEF RewindFirst
    <3>2. reader' \in Readers /\ reader'.pc = "read" /\ reader'.next = reader.next /\ reader'.left = reader.left
      BY <2>1, <3>1
    <3>3. ASSUME disturbed = 0 PROVE \E n \in Nat : reader'.next = n * BLOCK_SIZE /\ Made(n)'
      <4>1. reader'.next = 0 /\ got' = <<>>
        BY <3>1, <3>2, <3>3 DEF ReadSoFar
      <4>2. PICK none : none = [i \in 0..0 |-> 0]
        OBVIOUS
      <4>3. MadeOf(0, none)' /\ none \in [0..0 -> 0..Len(got')]
        BY <4>1, <4>2 DEF MadeOf
      <4>4. Made(0)'
        BY <4>3 DEF Made
      <4>5. 0 * BLOCK_SIZE = 0
        BY BlockAssumption
      <4>6. QED
        BY <4>1, <4>4, <4>5
    <3>4. QED
      BY <2>1, <3>1, <3>2, <3>3 DEF ReadSoFar, NotReading
  <2>5. CASE ReadBlock
    <3>1. UNCHANGED <<content, outcome, disturbed>> /\ reader.pc = "read" /\ outcome # "read_all"
      BY <2>5 DEF ReadBlock, ReadSoFar, NotReading
    <3>2. CASE disturbed = 0
      BY <2>5, <3>1, <3>2, BlockRead DEF ReadSoFar
    <3>3. CASE disturbed # 0
      BY <2>5, <3>1, <3>3, DisturbedRead DEF ReadSoFar
    <3>4. QED
      BY <3>2, <3>3
  <2>6. CASE MoveOn
    <3>1. /\ reader.pc = "move" /\ reader.next <= Len(content) /\ position' = reader.next
          /\ UNCHANGED <<content, got, cuts, disturbed>>
      BY <2>6 DEF MoveOn
    <3>2. CASE reader.left > 0
      <4>1. reader' = [reader EXCEPT !.pc = "read"] /\ UNCHANGED outcome /\ outcome # "read_all"
        BY <2>6, <3>1, <3>2 DEF MoveOn, ReadSoFar, NotReading
      <4>2. reader' \in Readers /\ reader'.pc = "read" /\ reader'.next = reader.next /\ reader'.left = reader.left
        BY <2>1, <4>1
      <4>3. ASSUME disturbed = 0 PROVE \E n \in Nat : reader'.next = n * BLOCK_SIZE /\ Made(n)'
        <5>1. PICK n \in Nat \ {0} :
                /\ Made(n) /\ reader.left = Len(content) - reader.next
                /\ reader.next = IF n * BLOCK_SIZE < Len(content) THEN n * BLOCK_SIZE ELSE Len(content)
          BY <3>1, <4>3 DEF ReadSoFar
        <5>2. reader.next # Len(content)
          BY <2>1, <3>2, <5>1
        <5>3. reader.next = n * BLOCK_SIZE
          BY <5>1, <5>2
        <5>4. QED
          BY <2>2, <3>1, <4>2, <5>1, <5>3
      <4>4. position' \in 0..Len(content)
        BY <2>1, <3>1
      <4>5. disturbed = 0 => reader.left = Len(content) - reader.next
        BY <3>1 DEF ReadSoFar
      <4>6. QED
        BY <3>1, <3>2, <4>1, <4>2, <4>3, <4>4, <4>5 DEF ReadSoFar, NotReading
    <3>3. CASE ~(reader.left > 0)
      <4>1. reader' = NotReading /\ outcome' = "read_all"
        BY <2>6, <3>3 DEF MoveOn
      <4>2. ASSUME disturbed = 0
            PROVE  \E n \in Nat \ {0} : Made(n)' /\ Under(n)' /\ Len(content) <= n * BLOCK_SIZE
        <5>1. PICK n \in Nat \ {0} :
                /\ Made(n) /\ Under(n) /\ reader.left = Len(content) - reader.next
                /\ reader.next = IF n * BLOCK_SIZE < Len(content) THEN n * BLOCK_SIZE ELSE Len(content)
          BY <3>1, <4>2 DEF ReadSoFar
        <5>2. PICK x \in Nat : x = n * BLOCK_SIZE
          BY BlockMultiples
        <5>3. Len(content) <= x
          BY <2>1, <3>3, <5>1, <5>2
        <5>4. QED
          BY <2>2, <3>1, <5>1, <5>2, <5>3
      <4>3. position' \in 0..Len(content)
        BY <2>1, <3>1
      <4>4. QED
        BY <3>1, <4>1, <4>2, <4>3 DEF ReadSoFar, NotReading
    <3>4. QED
      BY <3>2, <3>3
  <2>7. CASE ReadAllRaises
    BY <2>7 DEF ReadAllRaises, ReadSoFar, NotReading
  <2>8. CASE Moves
    BY <2>8 DEF Moves, ReadSoFar, NotReading
  <2>9. CASE Write
    BY <2>9, WriteKeeps DEF Write, ReadSoFar, NotReading
  <2>10. CASE OthersMove
    BY <2>10 DEF OthersMove, ReadSoFar
  <2>11. CASE OthersAppend
    BY <2>11, SMTT(30) DEF OthersAppend, ReadSoFar
  <2>12. CASE UNCHANGED streamVars
    <3>1. UNCHANGED <<content, position, reader, got, outcome, cuts, disturbed>>
      BY <2>12 DEF streamVars
    <3>2. QED
      BY <2>2, <3>1 DEF ReadSoFar
  <2>13. QED
    BY <2>3, <2>4, <2>5, <2>6, <2>7, <2>8, <2>9, <2>10, <2>11, <2>12 DEF StreamNext
<1>3. QED
  BY <1>1, <1>2, PTL DEF StreamSpec

\* A stream read by whole blocks is read as a whole; one that is read short has lost the
\* rest of the blocks that were, whatever the size and the block.
THEOREM ShortReadsLoseTheirTailHolds == StreamSpec => []ShortReadsLoseTheirTail
<1>1. ReadSoFar => ShortReadsLoseTheirTail
  <2> SUFFICES ASSUME ReadSoFar, outcome = "read_all", disturbed = 0
               PROVE  \E ends \in [0..Cardinality(Blocks) -> 0..Len(got)] : MadeOf(Cardinality(Blocks), ends)
    BY DEF ShortReadsLoseTheirTail
  <2>1. PICK n \in Nat \ {0} : Made(n) /\ Under(n) /\ Len(content) <= n * BLOCK_SIZE
    BY DEF ReadSoFar
  <2>2. Cardinality(Blocks) = n
    BY <2>1, BlocksRead DEF ReadSoFar
  <2>3. QED
    BY <2>1, <2>2 DEF Made
<1>2. QED
  BY <1>1, ReadsSoFar, PTL

\* What the program writes goes over what follows the position, and beyond it by one.
LEMMA WrittenLength ==
  ASSUME NEW s \in Seq(Int), NEW p \in 0..Len(s), NEW e \in Int
  PROVE  Len(SubSeq(s, 1, p) \o <<e>> \o SubSeq(s, p + 2, Len(s))) = IF p = Len(s) THEN p + 1 ELSE Len(s)
<1>1. Len(s) \in Nat
  BY LenProperties
<1> DEFINE a == SubSeq(s, 1, p)
           b == <<e>>
           c == SubSeq(s, p + 2, Len(s))
<1>2. a \in Seq(Int) /\ Len(a) = p
  BY <1>1, PartType
<1>3. b \in Seq(Int) /\ Len(b) = 1
  OBVIOUS
<1>4. c \in Seq(Int) /\ Len(c) = IF p = Len(s) THEN 0 ELSE Len(s) - p - 1
  <2>1. \A i \in (p + 2)..Len(s) : s[i] \in Int
    BY <1>1, LenProperties
  <2>2. QED
    BY <1>1, <2>1, SubSeqProperties
<1> HIDE DEF a, b, c
<1>5. a \o b \in Seq(Int) /\ Len(a \o b) = Len(a) + Len(b)
  BY <1>2, <1>3, ConcatProperties
<1>6. Len((a \o b) \o c) = Len(a \o b) + Len(c)
  BY <1>4, <1>5, ConcatProperties
<1>7. Len((a \o b) \o c) = IF p = Len(s) THEN p + 1 ELSE Len(s)
  <2>1. PICK l \in Nat : l = Len(s)
    BY <1>1
  <2>2. Len((a \o b) \o c) = (p + 1) + (IF p = l THEN 0 ELSE l - p - 1)
    BY <1>2, <1>3, <1>4, <1>5, <1>6, <2>1
  <2>3. p \in Nat /\ p + 1 + 0 = p + 1 /\ (p + 1) + (l - p - 1) = l
    BY <2>1
  <2>4. CASE p = l
    BY <2>1, <2>2, <2>3, <2>4
  <2>5. CASE p # l
    BY <2>1, <2>2, <2>3, <2>5
  <2>6. QED
    BY <2>4, <2>5
<1>8. QED
  BY <1>7 DEF a, b, c

\* What the types of a stream say beyond what is known of a read.
StreamBounds ==
  /\ Len(content) <= MaxContent
  /\ outcome \in {"nothing", "read_all", "nil", "raised", "write", "moved"}
  /\ cuts \subseteq Nat /\ disturbed \in 0..MaxDisturbed

\* Whoever reads, writes and moves, a stream keeps its types.
THEOREM StreamTypeCorrect == StreamSpec => []StreamTypeOK
<1>1. StreamInit => StreamBounds
  <2> SUFFICES ASSUME StreamInit PROVE StreamBounds
    OBVIOUS
  <2>1. PICK n \in 0..MaxContent : content = [i \in 1..n |-> i]
    BY DEF StreamInit
  <2>2. n \in Nat /\ Len(content) = n /\ n <= MaxContent
    BY <2>1, BlockAssumption
  <2>3. QED
    BY <2>2, BlockAssumption DEF StreamInit, StreamBounds
<1>2. ReadSoFar /\ StreamBounds /\ [StreamNext]_streamVars => StreamBounds'
  <2> SUFFICES ASSUME ReadSoFar, StreamBounds, [StreamNext]_streamVars PROVE StreamBounds'
    OBVIOUS
  <2>1. Len(content) \in Nat /\ content \in Seq(Int) /\ position \in 0..Len(content)
    BY LenProperties DEF ReadSoFar
  <2>2. CASE BeginReadAll
    BY <2>2, BlockAssumption DEF BeginReadAll, StreamBounds
  <2>3. CASE RewindFirst
    BY <2>3 DEF RewindFirst, StreamBounds
  <2>4. CASE ReadBlock
    <3>1. cuts' \in {cuts, cuts \cup {reader.next}} /\ UNCHANGED <<content, outcome, disturbed>>
      BY <2>4 DEF ReadBlock
    <3>2. reader.next \in Nat
      BY DEF ReadSoFar
    <3>3. QED
      BY <3>1, <3>2 DEF StreamBounds
  <2>5. CASE MoveOn
    BY <2>5 DEF MoveOn, StreamBounds
  <2>6. CASE ReadAllRaises
    BY <2>6 DEF ReadAllRaises, StreamBounds
  <2>7. CASE Moves
    BY <2>7 DEF Moves, StreamBounds
  <2>8. CASE Write
    <3>1. Len(content') = IF position = Len(content) THEN position + 1 ELSE Len(content)
      <4>1. /\ -(position + 1) \in Int
            /\ content' = SubSeq(content, 1, position) \o <<-(position + 1)>>
                           \o SubSeq(content, position + 2, Len(content))
        BY <2>1, <2>8 DEF Write
      <4>2. QED
        BY <2>1, <4>1, WrittenLength
    <3>2. position < MaxContent /\ position \in Nat
      BY <2>1, <2>8 DEF Write
    <3>3. Len(content') <= MaxContent
      BY <2>1, <3>1, <3>2, BlockAssumption DEF StreamBounds
    <3>4. QED
      BY <2>8, <3>3 DEF Write, StreamBounds
  <2>9. CASE OthersMove
    BY <2>9, BlockAssumption DEF OthersMove, StreamBounds
  <2>10. CASE OthersAppend
    <3>1. Len(content') = Len(content) + 1
      BY <2>1, <2>10 DEF OthersAppend
    <3>2. QED
      BY <2>1, <2>10, <3>1, BlockAssumption DEF OthersAppend, StreamBounds
  <2>11. CASE UNCHANGED streamVars
    BY <2>11 DEF streamVars, StreamBounds
  <2>12. QED
    BY <2>2, <2>3, <2>4, <2>5, <2>6, <2>7, <2>8, <2>9, <2>10, <2>11 DEF StreamNext
<1>3. ReadSoFar /\ StreamBounds => StreamTypeOK
  BY DEF ReadSoFar, StreamBounds, StreamTypeOK
<1>4. QED
  BY <1>1, <1>2, <1>3, ReadsSoFar, PTL DEF StreamSpec

-----------------------------------------------------------------------------
(* The whole layer.                                                        *)

\* A step of the layer is a step of one of its parts, and the others stay.
LEMMA StepOfOne ==
  ASSUME RubyNext
  PROVE  \/ UNCHANGED OfMetadata /\ Next
         \/ UNCHANGED OfNames /\ ClassNext
         \/ UNCHANGED OfSchema /\ SchemaNext
         \/ UNCHANGED OfRecord /\ RecNext
         \/ UNCHANGED OfRelationship /\ RelNext
         \/ UNCHANGED OfStream /\ StreamNext
<1>1. Asked \subseteq Lists
  BY ContendedAssumption DEF Asked
<1>2. ASSUME part = "metadata" PROVE UNCHANGED OfMetadata /\ Next
  BY <1>1, <1>2 DEF RubyNext, OnlyIn, Next
<1>3. ASSUME part = "names" PROVE UNCHANGED OfNames /\ ClassNext
  BY <1>3 DEF RubyNext, OnlyIn, ClassNext
<1>4. ASSUME part = "schema" PROVE UNCHANGED OfSchema /\ SchemaNext
  BY <1>4 DEF RubyNext, OnlyIn, SchemaNext
<1>5. ASSUME part = "record" PROVE UNCHANGED OfRecord /\ RecNext
  BY <1>5 DEF RubyNext, OnlyIn, RecNext
<1>6. ASSUME part = "relationship" PROVE UNCHANGED OfRelationship /\ RelNext
  BY <1>6 DEF RubyNext, OnlyIn, RelNext
<1>7. ASSUME part = "stream" PROVE UNCHANGED OfStream /\ StreamNext
  BY <1>7 DEF RubyNext, OnlyIn, StreamNext
<1>8. QED
  BY <1>2, <1>3, <1>4, <1>5, <1>6, <1>7 DEF RubyNext, OnlyIn

\* So what holds of each part by itself holds of the layer, in which they are the
\* threads, classes and objects of one program.
THEOREM LayerIsItsParts ==
  RubySpec => Spec /\ ClassSpec /\ SchemaSpec /\ RecSpec /\ RelSpec /\ StreamSpec
<1>1. RubyInit => Init /\ ClassInit /\ SchemaInit /\ RecInit /\ RelInit /\ StreamInit
  BY DEF RubyInit
<1>2. [RubyNext]_<<part, vars, OfMetadata>> =>
        /\ [Next]_vars /\ [ClassNext]_classVars /\ [SchemaNext]_schemaVars
        /\ [RecNext]_recVars /\ [RelNext]_relVars /\ [StreamNext]_streamVars
  BY StepOfOne DEF OfMetadata, OfNames, OfSchema, OfRecord, OfRelationship, OfStream
<1>3. QED
  BY <1>1, <1>2, PTL DEF RubySpec, Spec, ClassSpec, SchemaSpec, RecSpec, RelSpec, StreamSpec

\* All the types of the layer.
THEOREM RubyTypeCorrect == RubySpec => []RubyTypeOK
<1>1. TypeOK /\ ClassTypeOK /\ SchemaTypeOK /\ RecTypeOK /\ RelTypeOK /\ StreamTypeOK => RubyTypeOK
  BY DEF RubyTypeOK
<1>2. QED
  BY <1>1, LayerIsItsParts, MetadataTypeCorrect, ClassTypeCorrect, SchemaTypeCorrect,
     RecTypeCorrect, RelTypeCorrect, StreamTypeCorrect, PTL
=============================================================================
