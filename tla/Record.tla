------------------------------- MODULE Record -------------------------------
(***************************************************************************)
(* A record and the row it stands for: create and update of                *)
(* lib/active_record/ext/persistence.rb, the native object of ext/base.rb, *)
(* the serial object of lib/intersys/bindings/serial.rb with its generated *)
(* accessor, and #id of object.rb.                                         *)
(*                                                                         *)
(* A record has up to four copies of its row: ActiveRecord's attributes,   *)
(* the native object, the serial object and the native object of that.     *)
(* Each is made when it is first needed and kept.  A step is one call to   *)
(* the server, which may raise; other clients write between any two.       *)
(***************************************************************************)
EXTENDS Integers, Sequences, FiniteSets, SequencesExt

CONSTANTS
  Columns,      \* the columns of the table but the id, in their order
  Calculated,   \* those the server computes
  Serial,       \* the one that is a serial object
  Fields,       \* the attributes of the serial object, in their order
  MaxAssigned,  \* bounds on the assignments of the program, the writes of other
  MaxOthers,    \*   clients and the calls that fail
  MaxRecFaults

ASSUME ColumnsAssumption ==
  /\ \A i, j \in DOMAIN Columns : i < j => Columns[i] # Columns[j]
  /\ Serial \in ToSet(Columns) \ Calculated
  /\ ToSet(Fields) \cap ToSet(Columns) = {}   \* fields go by joined names

Plain == ToSet(Columns) \ (Calculated \cup {Serial})
Data  == Plain \cup ToSet(Fields)   \* what a row holds

VARIABLES
  rows,      \* the rows on the server; the id of a row is its place
  attrs,     \* @attributes, those of the serial object under their joined names
  changed,   \* @changed_attributes: a changed column's value before
  recId,     \* id, 0 for nil
  newRecord, \* @new_record
  native,    \* @intersys_object: the row it is of, its copy, what was set in it
  objectId,  \* @object_id of the native object, or Unknown
  serial,    \* the serial object's attributes, and those of its native object
             \*   as long as it is its own and not part of the record's
  saving,    \* the save in progress and the calls left to make before %Save
  fixed,     \* what %Save writes; whether the serial class has setters of its own
  wish,      \* what the program assigned last to each field
  asked,     \* fields assigned and not saved since
  dropped,   \* fields assigned and then forgotten by a reload
  behind,    \* data written by others since each copy was taken
  ended,     \* whether the last thing the program did was a save that returned
  counts     \* assignments, writes of others and faults so far

record  == <<attrs, changed, recId, newRecord>>
objects == <<native, objectId, serial>>
history == <<wish, asked, dropped, behind>>
recVars == <<rows, record, objects, saving, fixed, history, ended, counts>>

Unknown == -1
NoValue == 0   \* nil, which a new object has everywhere
Empty   == 2   \* false or an empty text, which is blank and not nil
Theirs  == 9   \* what other clients write

Values    == {NoValue, 1, Empty, Theirs}
Attrs     == ToSet(Fields)
BlankRow  == [d \in Data |-> NoValue]
NoNative  == [state |-> "none", row |-> 0, copy |-> BlankRow, set |-> {}]
BlankAttrs == [f \in Attrs |-> NoValue]
NoSerial  == [state |-> "none", attrs |-> BlankAttrs, copy |-> BlankAttrs]
NotSaving == [kind |-> "none", todo |-> {}]

RecTypeOK ==
  /\ rows \in Seq([Data -> Values]) /\ attrs \in [Data -> Values]
  /\ DOMAIN changed \subseteq Plain \cup {Serial} /\ \A c \in DOMAIN changed : changed[c] \in Values
  /\ recId \in 0..Len(rows) /\ newRecord \in {"no", "yes"}
  /\ native \in [state: {"none", "open"}, row: 0..Len(rows),
                 copy: [Data -> Values], set: SUBSET Data]
  /\ objectId \in (0..Len(rows)) \cup {Unknown}
  /\ serial \in [state: {"none", "own", "part"}, attrs: [Attrs -> Values], copy: [Attrs -> Values]]
  /\ saving \in [kind: {"none", "create", "created", "update"},
                 todo: SUBSET (Plain \cup {Serial} \cup Attrs)]
  /\ wish \in [Attrs -> Values] /\ asked \subseteq Attrs /\ dropped \subseteq Attrs
  /\ ended \in {"saved", "other"}
  /\ behind \in [attrs: SUBSET Data, native: SUBSET Data, serial: SUBSET Attrs]

\* A record made by new, or one found by a query, whose fields may be empty.
RecInit ==
  /\ attrs \in [Data -> {NoValue, Empty}] /\ \A c \in Plain : attrs[c] = NoValue
  /\ \/ newRecord = "yes" /\ attrs = BlankRow /\ rows = <<>> /\ recId = 0
     \/ newRecord = "no" /\ rows = <<attrs>> /\ recId = 1
  /\ changed = <<>>
  /\ native = NoNative /\ objectId = Unknown /\ serial = NoSerial /\ saving = NotSaving
  /\ fixed \in [writes: {"all", "modified"}, setter: {"generated", "own"}]
  /\ wish = BlankAttrs /\ asked = {} /\ dropped = {}
  /\ behind = [attrs |-> {}, native |-> {}, serial |-> {}]
  /\ ended = "other" /\ counts = [assigned |-> 0, others |-> 0, faults |-> 0]

-----------------------------------------------------------------------------
(* The native object and the serial object, made when first needed.        *)

\* intersys_object: Object.new for a record that is new, Object.open of its id
\* otherwise.  Once made it is the record's for good.
IntersysObject ==
  /\ native.state = "none"
  /\ native' = IF newRecord = "yes"
               THEN [NoNative EXCEPT !.state = "open"]
               ELSE [state |-> "open", row |-> recId, copy |-> rows[recId], set |-> {}]
  /\ behind' = [behind EXCEPT !.native = {}]
  /\ UNCHANGED <<rows, record, objectId, serial, saving, fixed, wish, asked, dropped, counts, ended>>

\* Slip: the attributes of the owner are not taken over.
SerialObjectBlank ==
  /\ serial.state = "none"
  /\ newRecord = "yes" \/ native.state = "open"
  /\ serial' = [NoSerial EXCEPT !.state = IF newRecord = "yes" THEN "own" ELSE "part"]
  /\ behind' = [behind EXCEPT !.serial = behind.attrs \cap Attrs]
  /\ UNCHANGED <<rows, record, native, objectId, saving, fixed, wish, asked, dropped, counts, ended>>

\* The accessor of the serial column, with Serial::Object#initialize: for a record
\* that is new an object of its own, else the part of the record's native object.
\* Its attributes are those the owner was loaded with, whatever the native object says.
SerialObject ==
  /\ serial.state = "none"
  /\ newRecord = "yes" \/ native.state = "open"
  /\ serial' = [NoSerial EXCEPT !.state = IF newRecord = "yes" THEN "own" ELSE "part",
                                !.attrs = [f \in Attrs |-> attrs[f]]]
  /\ behind' = [behind EXCEPT !.serial = behind.attrs \cap Attrs]
  /\ UNCHANGED <<rows, record, native, objectId, saving, fixed, wish, asked, dropped, counts, ended>>

\* The native object is asked for its id, by == or by the program.
IdOfNative ==
  /\ saving = NotSaving /\ native.state = "open" /\ objectId = Unknown
  /\ objectId' = native.row
  /\ UNCHANGED <<rows, record, history, native, serial, saving, fixed, counts, ended>>

-----------------------------------------------------------------------------
(* The program assigns, reloads.                                           *)

Assigns ==
  /\ saving = NotSaving
  /\ counts.assigned < MaxAssigned /\ counts' = [counts EXCEPT !.assigned = @ + 1]
  /\ ended' = "other"

\* will_change!: the value before is remembered once.
Dirty(c, was) ==
  [d \in DOMAIN changed \cup {c} |-> IF d \in DOMAIN changed THEN changed[d] ELSE was]

WillChange(c, was) == changed' = Dirty(c, was)

\* A column; one that gets its old value back is not changed.
Assign(c, value) ==
  /\ Assigns
  /\ attrs' = [attrs EXCEPT ![c] = value]
  /\ changed' = LET all == Dirty(c, attrs[c])
                IN  [d \in {e \in DOMAIN all : e = c => all[e] # value} |-> all[d]]
  /\ UNCHANGED <<rows, objects, history, recId, newRecord, saving, fixed>>

\* What the setter define_attribute_methods makes comes to.  Where the class has one
\* of its own it is called as overrited_f, which is the name of no method: it raises
\* NoMethodError, and no field has been assigned.
FieldSet(f, value) ==
  IF fixed.setter = "own" THEN UNCHANGED <<serial, wish, asked, dropped>>
  ELSE /\ serial' = [serial EXCEPT !.attrs[f] = value]
       /\ wish' = [wish EXCEPT ![f] = value]
       /\ asked' = asked \cup {f} /\ dropped' = dropped \ {f}

\* Slip: the owner is not told.
AssignFieldQuietly(f, value) ==
  /\ Assigns /\ serial.state # "none"
  /\ FieldSet(f, value)
  /\ UNCHANGED <<rows, record, native, objectId, saving, fixed, behind>>

\* A field: the owner is told first.
AssignField(f, value) ==
  /\ Assigns /\ serial.state # "none"
  /\ WillChange(Serial, NoValue)
  /\ FieldSet(f, value)
  /\ UNCHANGED <<rows, attrs, recId, newRecord, native, objectId, saving, fixed, behind>>

\* The setter of the column, with a serial object that was made without an owner.
ReplaceSerial ==
  /\ Assigns /\ serial.state # "none"
  /\ WillChange(Serial, NoValue)
  /\ serial' = [NoSerial EXCEPT !.state = "own"]
  /\ wish' = BlankAttrs /\ asked' = Attrs /\ dropped' = {}
  /\ behind' = [behind EXCEPT !.serial = {}]
  /\ UNCHANGED <<rows, attrs, recId, newRecord, native, objectId, saving, fixed>>

\* reload of ActiveRecord: the attributes are read again, no other copy is.
ReloadRecord ==
  /\ saving = NotSaving /\ newRecord = "no" /\ recId # 0
  /\ attrs' = rows[recId] /\ changed' = <<>> /\ ended' = "other"
  /\ asked' = {} /\ dropped' = dropped \cup asked
  /\ behind' = [behind EXCEPT !.attrs = {}]
  /\ UNCHANGED <<rows, objects, recId, newRecord, saving, fixed, wish, counts>>

\* Another client writes the row.
OthersWrite(d) ==
  /\ rows # <<>> /\ rows[1][d] # Theirs
  /\ counts.others < MaxOthers /\ counts' = [counts EXCEPT !.others = @ + 1]
  /\ rows' = [rows EXCEPT ![1][d] = Theirs]
  /\ behind' = [attrs |-> behind.attrs \cup {d}, native |-> behind.native \cup {d},
                serial |-> behind.serial \cup ({d} \cap Attrs)]
  /\ UNCHANGED <<record, objects, saving, fixed, wish, asked, dropped, ended>>

-----------------------------------------------------------------------------
(* Saving.                                                                 *)

\* Slip: of the serial object only the column is set.
CallsUnsynced(columns) == columns \ Calculated

\* intersys_set_attributes: a call per column, with that of the serial column one per
\* field (sync_attributes!); calculated columns are passed over.
Calls(columns) ==
  (columns \ Calculated) \cup (IF Serial \in columns \ Calculated THEN Attrs ELSE {})

\* Their order: that of the columns, and the fields before the column they are in.
Earlier(seq, x, y) == \E i, j \in DOMAIN seq : i < j /\ seq[i] = x /\ seq[j] = y

Column(call) == IF call \in Attrs THEN Serial ELSE call

Before(call, other) ==
  \/ Earlier(Columns, Column(call), Column(other))
  \/ Column(call) = Column(other) /\ call \in Attrs /\ (other = Serial \/ Earlier(Fields, call, other))

\* create, with every attribute there is.
BeginCreate ==
  /\ saving = NotSaving /\ newRecord = "yes"
  /\ saving' = [kind |-> "create", todo |-> Calls(ToSet(Columns))]
  /\ UNCHANGED <<rows, record, objects, history, fixed, counts, ended>>

\* update_with_serial_objects: the serial column is among the changed ones.
BeginUpdate ==
  /\ saving = NotSaving /\ newRecord = "no" /\ Serial \in DOMAIN changed
  /\ saving' = [kind |-> "update", todo |-> Calls(DOMAIN changed)]
  /\ UNCHANGED <<rows, record, objects, history, fixed, counts, ended>>

\* A save that returns: nothing is changed any more.
Returns == saving' = NotSaving /\ changed' = <<>> /\ asked' = {} /\ ended' = "saved"

\* It is not: ActiveRecord's own update, by SQL and by id, past the native object.
UpdateBySql ==
  /\ saving = NotSaving /\ newRecord = "no" /\ Serial \notin DOMAIN changed
  /\ rows' = [r \in DOMAIN rows |->
               IF r # recId THEN rows[r]
               ELSE [d \in Data |-> IF d \in DOMAIN changed THEN attrs[d] ELSE rows[r][d]]]
  /\ behind' = [behind EXCEPT !.attrs = @ \ DOMAIN changed, !.native = @ \cup DOMAIN changed]
  /\ Returns
  /\ UNCHANGED <<objects, attrs, recId, newRecord, fixed, wish, dropped, counts>>

Due(call) == call \in saving.todo /\ \A other \in saving.todo \ {call} : Before(call, other)

CallDone(call) == saving' = [saving EXCEPT !.todo = @ \ {call}]

\* intersys_set of a column, or the SetObjectId of a reference.
SetColumn(c) ==
  /\ Due(c) /\ native.state = "open"
  /\ CallDone(c)
  /\ native' = [native EXCEPT !.copy[c] = attrs[c], !.set = @ \cup {c}]
  /\ UNCHANGED <<rows, record, history, objectId, serial, fixed, counts, ended>>

\* What is sent of a field: nil for all that is blank.
Synced(value) == IF value = Empty THEN NoValue ELSE value

\* A field in sync_attributes!, of those not touched too: in the native object of the
\* serial object, which is part of the record's or will be.
SyncField(f) ==
  /\ Due(f) /\ serial.state # "none"
  /\ CallDone(f)
  /\ LET sent == Synced(serial.attrs[f])
     IN  IF serial.state = "part"
         THEN native' = [native EXCEPT !.copy[f] = sent, !.set = @ \cup {f}] /\ UNCHANGED serial
         ELSE serial' = [serial EXCEPT !.copy[f] = sent] /\ UNCHANGED native
  /\ UNCHANGED <<rows, record, history, objectId, fixed, counts, ended>>

\* intersys_set of the serial column, which makes the one part of the other.
SetSerial ==
  /\ Due(Serial) /\ native.state = "open"
  /\ CallDone(Serial)
  /\ native' = [native EXCEPT !.set = @ \cup Attrs,
                 !.copy = [d \in Data |-> IF serial.state = "own" /\ d \in Attrs
                                          THEN serial.copy[d] ELSE @[d]]]
  /\ serial' = [serial EXCEPT !.state = "part"]
  /\ UNCHANGED <<rows, record, history, objectId, fixed, counts, ended>>

\* What %Save writes over a row.
Written == IF fixed.writes = "all" THEN Data ELSE native.set

\* %Save, when nothing is left to set: a new row, or the row of the native object.
\* An update returns with it.
Save ==
  /\ saving.kind \in {"create", "update"} /\ saving.todo = {} /\ native.state = "open"
  /\ LET new == native.row = 0
         r   == IF new THEN Len(rows) + 1 ELSE native.row
     IN  /\ rows' = IF new THEN Append(rows, native.copy)
                    ELSE [rows EXCEPT ![r] =
                           [d \in Data |-> IF d \in Written THEN native.copy[d] ELSE @[d]]]
         /\ native' = [native EXCEPT !.row = r, !.set = {}]
  /\ behind' = [attrs |-> behind.attrs \ DOMAIN changed,
                native |-> behind.native \ Written, serial |-> {}]
  /\ dropped' = {}
  /\ IF saving.kind = "update" THEN Returns
     ELSE saving' = [saving EXCEPT !.kind = "created"] /\ UNCHANGED <<changed, asked, ended>>
  /\ UNCHANGED <<attrs, recId, newRecord, objectId, serial, fixed, wish, counts>>

\* The id of the native object becomes the record's.
TakeId ==
  /\ saving.kind = "created"
  /\ objectId' = IF objectId = Unknown THEN native.row ELSE objectId
  /\ recId' = objectId' /\ newRecord' = "no"
  /\ Returns
  /\ UNCHANGED <<rows, attrs, native, serial, fixed, wish, dropped, behind, counts>>

\* Slip: a save that raised gives up the objects it was made with.
SaveRaisesAnew ==
  /\ saving # NotSaving
  /\ counts.faults < MaxRecFaults /\ counts' = [counts EXCEPT !.faults = @ + 1]
  /\ saving' = NotSaving
  /\ native' = NoNative /\ serial' = NoSerial /\ objectId' = Unknown
  /\ UNCHANGED <<rows, record, history, fixed, ended>>

\* A call raises: what was set before stays set in the native object, for the next
\* attempt to save with.
SaveRaises ==
  /\ saving # NotSaving
  /\ counts.faults < MaxRecFaults /\ counts' = [counts EXCEPT !.faults = @ + 1]
  /\ saving' = NotSaving
  /\ UNCHANGED <<rows, record, objects, history, fixed, ended>>

RecNext ==
  \/ IntersysObject \/ SerialObject \/ IdOfNative
  \/ \E c \in Plain, value \in {NoValue, 1} : Assign(c, value)
  \/ \E f \in Attrs, value \in {NoValue, 1, Empty} : AssignField(f, value)
  \/ ReplaceSerial \/ ReloadRecord
  \/ \E d \in Data : OthersWrite(d)
  \/ BeginCreate \/ BeginUpdate \/ UpdateBySql
  \/ \E c \in Plain : SetColumn(c)
  \/ \E f \in Attrs : SyncField(f)
  \/ SetSerial \/ Save \/ TakeId \/ SaveRaises

RecSpec == RecInit /\ [][RecNext]_recVars

-----------------------------------------------------------------------------
(* Properties.                                                             *)

\* However often a create is tried again after it raised, before or after %Save,
\* one row comes of it, and a record that is not new any more has the id of that
\* row; the exception is a native object that was asked for its id before it had
\* one, and answers 0 for good.
OneRowPerRecord ==
  /\ Len(rows) <= 1
  /\ newRecord = "no" => Len(rows) = 1 /\ (recId = 1 \/ objectId = 0)

\* The row has it, or somebody wrote it between %Save and the id of a create.
Stored(d, value) ==
  rows'[1][d] = value \/ (saving.kind = "created" /\ rows'[1][d] = Theirs)

AllStored ==
  /\ \A c \in DOMAIN changed \cap Plain : Stored(c, attrs[c])
  /\ \A f \in asked : Stored(f, Synced(wish[f]))

\* A save that returns has stored what the program assigned, by SQL or through the
\* native object, after any number of attempts that raised: every changed column
\* and every field assigned, one that was given false or an empty text as nil, unless
\* somebody wrote it again before the save returned.  Records whose native object
\* knows no id are excepted.
SavedMeansStored == [][ended' = "saved" /\ recId' # 0 => AllStored]_recVars

OthersUntouched ==
  \A r \in DOMAIN rows, d \in Data :
    rows'[r][d] # rows[r][d] =>
      \/ d \in asked \cup dropped \cup DOMAIN changed \cup (native.set \ Attrs)
      \/ d \in Attrs /\ rows'[r][d] = Synced(rows[r][d])
      \/ d \in behind.serial
      \/ d \in behind.native /\ fixed.writes = "all"

\* An update changes nothing else, but in four cases.  A field the program assigned
\* and reloaded away, or a column set by an attempt that raised, is still in a copy.
\* A field that was false or empty becomes nil with any update of the serial object,
\* touched or not.  A field somebody wrote after the serial object was made, or, where
\* %Save writes everything, a datum written after the native object was, falls back
\* to the copy.
UntouchedStays ==
  [][saving.kind \in {"none", "update"} /\ (saving' # saving \/ changed' # changed) =>
       OthersUntouched]_recVars
=============================================================================
