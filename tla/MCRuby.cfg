SPECIFICATION RubySpec
CHECK_DEADLOCK FALSE
CONSTANTS
  t1 = t1
  t2 = t2
  Lists = {"reflector", "properties", "relations", "transient_attributes", "relation_names"}
  Threads = {t1, t2}
  Contended = {"properties", "relations"}
  EmptyNames = {"accepted", "refused"}
  MaxVersion = 1
  MaxAsks = 2
  MaxFaults = 1
  MaxDirty = 1
  Person = Person
  Employee = Employee
  Address = Address
  person = person
  employee = employee
  Rubies = {Person, Employee, Address}
  Names = {person, employee, other}
  DefaultName <- OwnNames
  NoName = NoName
  Bare = Bare
  NoClass = NoClass
  Stamp = Stamp
  Tag = Tag
  stamp = stamp
  tag = tag
  people = people
  Serials = {Stamp, Tag}
  Types = {stamp, tag}
  DefaultTable <- OwnTables
  Models = {people}
  ColumnType <- StampedColumns
  Adapters = {a1, a2}
  Nobody = Nobody
  Columns <- TableColumns
  Calculated = {"age"}
  Serial = "ts"
  Fields <- SerialFields
  MaxAssigned = 2
  MaxOthers = 1
  MaxRecFaults = 1
  MaxItems = 3
  MaxRelFaults = 1
  BLOCK_SIZE = 2
  MaxContent = 4
  MaxDisturbed = 1
SYMMETRY Alike
INVARIANT RubyTypeOK
INVARIANT ForcedIsFresh
INVARIANT ForcedIsWhole
INVARIANT ClearedIsGone
INVARIANT SourceIsNewest
INVARIANT ObjectsBecomeTheirs
INVARIANT MapLeadsToOwner
INVARIANT ViewsAgree
INVARIANT OneRowPerRecord
INVARIANT AnswersOnceTrue
INVARIANT ListAsCounted
INVARIANT ShortReadsLoseTheirTail
PROPERTY SavedMeansStored
PROPERTY UntouchedStays
