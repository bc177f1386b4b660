------------------------------ MODULE MCRuby ------------------------------
(***************************************************************************)
(* What the Ruby layer remembers of the server.  The metadata of a class:  *)
(* the reflector, the properties and one list of each kind made from them, *)
(* the two lists under the empty name among them.  Three classes and three *)
(* names.  Two serial classes and a model whose column may be of either, in *)
(* two connections.  A record with a plain column, a calculated one and a  *)
(* serial object of two fields.  A relationship.  A stream.  They share    *)
(* nothing; a behaviour is one of one of them.                             *)
(***************************************************************************)
EXTENDS Metadata, ClassNames, Schema, Record, Relationship, Stream

CONSTANTS t1, t2, Person, Employee, Address, person, employee, Stamp, Tag, stamp, tag, people, Contended

ASSUME ContendedAssumption == Contended \subseteq Lists

VARIABLE part  \* which

\* The threads are alike.
Alike == Permutations(Threads)

\* Two classes have the same name by their own.
OwnNames == (Person :> person) @@ (Employee :> employee) @@ (Address :> employee)

OwnTables == (Stamp :> stamp) @@ (Tag :> tag)

StampedColumns == people :> stamp

TableColumns == <<"name", "age", "ts">>

SerialFields == <<"user", "date">>

RubyInit ==
  /\ Init /\ ClassInit /\ SchemaInit /\ RecInit /\ RelInit /\ StreamInit
  /\ part \in {"metadata", "names", "schema", "record", "relationship", "stream"}
  /\ part # "metadata" => crew = Threads /\ emptyName = "refused"
  /\ part = "metadata" /\ ~Alone => emptyName = "accepted"
  /\ part # "names" => reading = "nil"
  /\ part # "record" => newRecord = "yes" /\ fixed = [writes |-> "all", setter |-> "own"]
  /\ part # "relationship" => items = <<>>
  /\ part # "stream" => content = <<>>

\* Bounds on two threads: Ruby lets them have the empty name, they ask for lists that
\* are read on the way to each other, the second time for the properties, and no call
\* of theirs fails.
Asked ==
  IF Alone THEN Lists ELSE IF asks = 0 THEN Contended ELSE Contended \cap {"properties"}

\* A step of one is none of the others.
OfMetadata     == <<classVars, schemaVars, recVars, relVars, streamVars>>
OfNames        == <<vars, schemaVars, recVars, relVars, streamVars>>
OfSchema       == <<vars, classVars, recVars, relVars, streamVars>>
OfRecord       == <<vars, classVars, schemaVars, relVars, streamVars>>
OfRelationship == <<vars, classVars, schemaVars, recVars, streamVars>>
OfStream       == <<vars, classVars, schemaVars, recVars, relVars>>

OnlyIn(which, others) == part = which /\ UNCHANGED <<part, others>>

RubyNext ==
  \/ OnlyIn("metadata", OfMetadata) /\ \E t \in crew, l \in Asked, forced \in BOOLEAN : Ask(t, l, forced)
  \/ OnlyIn("metadata", OfMetadata) /\ \E t \in crew : Take(t)
  \/ OnlyIn("metadata", OfMetadata) /\ \E t \in crew : Make(t)
  \/ OnlyIn("metadata", OfMetadata) /\ \E t \in crew : Test(t)
  \/ OnlyIn("metadata", OfMetadata) /\ \E t \in crew : Open(t)
  \/ OnlyIn("metadata", OfMetadata) /\ \E t \in crew : BeginFill(t)
  \/ OnlyIn("metadata", OfMetadata) /\ \E t \in crew : EndFill(t)
  \/ OnlyIn("metadata", OfMetadata) /\ \E t \in crew : Build(t)
  \/ OnlyIn("metadata", OfMetadata) /\ \E t \in crew : Store(t)
  \/ OnlyIn("metadata", OfMetadata) /\ \E t \in crew : Read(t)
  \/ OnlyIn("metadata", OfMetadata) /\ Alone /\ \E t \in crew : Fails(t)
  \/ OnlyIn("metadata", OfMetadata) /\ \E t \in crew : BeginClear(t)
  \/ OnlyIn("metadata", OfMetadata) /\ \E t \in crew : Clear(t)
  \/ OnlyIn("metadata", OfMetadata) /\ Compile
  \/ OnlyIn("names", OfNames) /\ \E k \in Rubies : Inherited(k)
  \/ OnlyIn("names", OfNames) /\ \E k \in Rubies, n \in Names : SetName(k, n)
  \/ OnlyIn("schema", OfSchema) /\ \E k \in Serials : InheritedSerial(k)
  \/ OnlyIn("schema", OfSchema) /\ \E k \in Serials, t \in Types : Rename(k, t)
  \/ OnlyIn("schema", OfSchema) /\ \E a \in Adapters, m \in Models : AskTooEarly(a, m)
  \/ OnlyIn("schema", OfSchema) /\ \E a \in Adapters, m \in Models : AskColumns(a, m)
  \/ OnlyIn("schema", OfSchema) /\ \E a \in Adapters, m \in Models : AskSerialColumns(a, m)
  \/ OnlyIn("schema", OfSchema) /\ \E a \in Adapters, m \in Models : Project(a, m)
  \/ OnlyIn("schema", OfSchema) /\ \E m \in Models : DefineAccessor(m)
  \/ OnlyIn("record", OfRecord) /\ IntersysObject
  \/ OnlyIn("record", OfRecord) /\ SerialObject
  \/ OnlyIn("record", OfRecord) /\ IdOfNative
  \/ OnlyIn("record", OfRecord) /\ \E c \in Plain, value \in {NoValue, 1} : Assign(c, value)
  \/ OnlyIn("record", OfRecord) /\ \E f \in Attrs, value \in {NoValue, 1, Empty} : AssignField(f, value)
  \/ OnlyIn("record", OfRecord) /\ ReplaceSerial
  \/ OnlyIn("record", OfRecord) /\ ReloadRecord
  \/ OnlyIn("record", OfRecord) /\ \E d \in Data : OthersWrite(d)
  \/ OnlyIn("record", OfRecord) /\ BeginCreate
  \/ OnlyIn("record", OfRecord) /\ BeginUpdate
  \/ OnlyIn("record", OfRecord) /\ UpdateBySql
  \/ OnlyIn("record", OfRecord) /\ \E c \in Plain : SetColumn(c)
  \/ OnlyIn("record", OfRecord) /\ \E f \in Attrs : SyncField(f)
  \/ OnlyIn("record", OfRecord) /\ SetSerial
  \/ OnlyIn("record", OfRecord) /\ Save
  \/ OnlyIn("record", OfRecord) /\ TakeId
  \/ OnlyIn("record", OfRecord) /\ SaveRaises
  \/ OnlyIn("relationship", OfRelationship) /\ OthersInsert
  \/ OnlyIn("relationship", OfRelationship) /\ OthersRemove
  \/ OnlyIn("relationship", OfRelationship) /\ AskEmpty
  \/ OnlyIn("relationship", OfRelationship) /\ AskCount
  \/ OnlyIn("relationship", OfRelationship) /\ Insert
  \/ OnlyIn("relationship", OfRelationship) /\ RelReload
  \/ OnlyIn("relationship", OfRelationship) /\ BeginLoad
  \/ OnlyIn("relationship", OfRelationship) /\ NextElement
  \/ OnlyIn("relationship", OfRelationship) /\ EndLoad
  \/ OnlyIn("relationship", OfRelationship) /\ RelFails
  \/ OnlyIn("stream", OfStream) /\ BeginReadAll
  \/ OnlyIn("stream", OfStream) /\ RewindFirst
  \/ OnlyIn("stream", OfStream) /\ ReadBlock
  \/ OnlyIn("stream", OfStream) /\ MoveOn
  \/ OnlyIn("stream", OfStream) /\ ReadAllRaises
  \/ OnlyIn("stream", OfStream) /\ Moves
  \/ OnlyIn("stream", OfStream) /\ Write
  \/ OnlyIn("stream", OfStream) /\ OthersMove
  \/ OnlyIn("stream", OfStream) /\ OthersAppend

RubySpec == RubyInit /\ [][RubyNext]_<<part, vars, OfMetadata>>

\* The types of all of them.
RubyTypeOK ==
  /\ TypeOK /\ ClassTypeOK /\ SchemaTypeOK /\ RecTypeOK /\ RelTypeOK /\ StreamTypeOK
=============================================================================
