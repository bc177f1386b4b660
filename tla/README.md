# Verification of activerecord-intersys-adapter

TLA+ models of the adapter that lets ActiveRecord talk to InterSystems Caché: a C extension (`ext/`) that binds
Caché's C API (`cbind_*`, `c_api.h`), a Ruby layer over it (`lib/intersys/bindings/`) and an ActiveRecord adapter
(`lib/active_record/`, `lib/arel/`). The models are translated from the source; the binding and the server are not
part of the repository and are modelled from how the extension uses them.

    tlc -workers 2 -config MCDatabase.cfg MCDatabase      check a run
    tlapm DatabaseProofs.tla                              check the proofs of a module

## 1. The system

| part | state it keeps | operations | what makes it hard |
|---|---|---|---|
| **Connection** `ext/database.c` | connection and database handle, `closed`, the class variables of `sql.rb` | connect, reconnect!, close, collection | every call may fail halfway; handles that are given up stay in the struct; `run` lets negative codes pass |
| **Statement** `ext/query.c`, `sql.rb`, `exec_query` | statement handle, `executed`, `closed` | prepare, bind, execute, close, collection | statements share a connection and its pool of handles; code 460 reconnects in the middle of a prepare and takes the link from every other statement; the collector sweeps in any order |
| **Reading** `ext/query.c`, `sql.rb` | position, `closed`, limit, offset, `@rows` | fetch, each, rows, fill, limit=, offset= | two loops with different ends, silent codes, a memo assigned before it is filled |
| **Objects** `ext/object.c` | an oref per Ruby object, references counted by the server | new, open, objects as results, collection | two owners of one reference, `%New` before every open, orefs that outlive their link |
| **Calls** `ext/definition.c`, `callable.rb` | the argument list of the connection, the parameter iterator of a Method, `passed_args` | call!, get, set, each_argument, method_missing | Ruby code runs in the middle of collecting arguments and may make calls of its own; arguments that fill no slot; calls tried under two names |
| **Definitions** `ext/definition.c` | two handles of the binding per property, method or argument | initialize, load, collection | made for every call, freed one handle after the other by the collector; every error of a look-up is a NoMethodError |
| **Marshalling** `ext/definition.c`, `ext/query.c` | none | argument_set, extract_retval, get_data, bind_params, lists | day numbers, leap years, time zones; the class of a value that was read decides what it is bound as |
| **Metadata** `callable.rb`, `reflection.rb` | eighteen memoised lists per class, the relationship objects they are read from | the lists, forced or not; metadata_cache_was_dirty! | threads, partial loads, lists sharing a name, clearing one name after another |
| **Transactions** `object.rb`, `ext/database.c` | the server's transaction level | transaction, start, commit, rollback, level | nesting, rescued exceptions, exceptions that are not rescued, loss of the link |
| **Class registry** `object.rb` | names to classes | register_name!, inherited, lookup | a class with two names, two classes with one |
| **Relationships** `reflection.rb` | `@list`, `@loaded`, `@count`, `@empty` | each, [], to_a, <<, reload | memos that an insertion does not touch |
| **Streams** `stream.rb` | position on the server | read_all, write, rewind, move_to | short reads; one position for everybody |
| **Records** `persistence.rb`, `base.rb`, `serial.rb` | up to four copies of a row: attributes, native object, serial object and the native object of that; the id the native object memoises | create, update, accessors, sync_attributes!, reload | attributes set one by one, saves that raise and are tried again, others who write meanwhile |
| **Schema** `serial.rb`, `schema_statements.rb`, `base.rb`, `attribute_methods.rb` | table map; the columns of a table kept per connection, the serial columns of a model, its accessors | table_name=, columns, serial_columns, define_method_attribute | caches filled at different times, over different connections, before a serial class is loaded |
| **SQL text** `lib/arel/`, `schema_statements.rb`, `intersys_adapter.rb` | none | visitors, quoting, names | text only |

How they interact. The adapter prepares, reads and closes a **statement** on the **connection**; preparing may
reconnect. Reconnecting empties the **metadata**, which was read by **calls** through **objects** of the old link. A
**call** uses the connection's argument list, and its conversions may be calls themselves (a stream given as a string
argument reads itself). Objects that calls answer are looked up in the **class registry**. A **record** is saved
through the native object behind it, its serial columns by what **schema** remembers of them. A call needs a
**definition**, which the look-up by name makes. Transactions are calls on the connection around blocks of Ruby code
that do all of this. The collector frees statements, objects and the connection at any time after the program has let
go of them.

What makes each part correct is stated as the properties of section 3. `PROJECT.json` lists the hazards of the code
line by line, with the properties that watch them.

## 2. The modules

`Cbind` holds the error convention used everywhere: `run` of `ext/common.c` raises for positive codes, lets zero and
negative ones pass, and tells two codes (461, 12104) as lost connections.

**Database** (`ext/database.c`; composed into Query). `base` is `struct rbDatabase`. `conns` and `dbs` are the handles
the binding holds open, `issued` and `lost` the links ever opened and dropped by the server, `memo` the link each
class's metadata was read through. reconnect! is one action per place at which it can end, since each leaves another
state: `ReconnectKeepsDatabase`, `ReconnectKeepsConnection`, `ReconnectRefused`, and so on to `AfterReopening`, the
callback and the preloader. Which codes the binding answers for stale handles, for handles of lost links and for
refused connections are constants; so is what the host application may define (`Hosts`). The library alone is `plain`,
whose callback is missing: reconnect! raises NoMethodError and the metadata stays. With a `hook` it is emptied; a
`preloader` then reads it again through the new link and may leave reconnect! with any exception, those of the binding
included, part of the metadata read and the link lost again or not. The run explores all three.

**Query** EXTENDS Database and composes with it: the pool of handles per link, one statement's prepare with the 460
path that calls reconnect!, execute, close and the sweep by the collector. Every action is composed of one of
Database, or leaves the database alone, so that Database's theorems carry over (`StatementsKeepItsPromises`).

**Cursor** is the reading of one executed statement, rows being numbers. A step is one fetch with what `each` does
with it. It implements **ResultSet**, the abstract promise of a reader: the requested slice, in order, each once. A
reading ends in one of three ways, and ResultSet tells them apart: it `returned`, which it may only with the whole
slice delivered; it `raised`, and the reader has the exception; or the reader `left` the block. `result` is how the
Cursor's last reading ended. The promise is of connections that announce their errors (`wire`): on the others a sql
code other than 0 and 100 reads as the end of the data (`query.c:307`), and there is nothing to promise.

**Transaction** is `Intersys::Object.transaction`: frames of nested blocks over the server's level, with exceptions
passing through. It implements **AtomicBlock** for programs that do not rescue inner exceptions. The fixed variables
`program` and `emptyCommit` say which kind of program and which server a behaviour is of, so that one run and one
theorem speak of all of them.

**ObjectRefs** is `ext/object.c` with the object case of extract_retval: Ruby objects, the orefs they name, and the
reference counts of the server, in its kindest reading: the server counts what it hands out and keeps an object open
until as many were released. An answer takes two steps, as in the code: `Answer` (or `AnswerNew`, that of `%New`) gets
the reference; then `lookup` and `klass.new` run, and either the new struct gets it (`Wrap`, `New`, `OpenById`) or
one of them raises and nothing has it (`AnswerLost`). What runs between the two may reconnect: the struct then has an
oref of the old link and the database of the new one (`Strays`). `doubles` counts the objects that were given a
reference not theirs alone.

**MethodCall** is `ext/definition.c` with `method_missing`. `slots` is the connection's argument list, each slot
labelled with the call and the argument that filled it; `at` the iterator of each Method; `stack` the calls in
progress, innermost last. A call with arguments takes one step per argument begun (`Takes`) and one when it has filled
its slot (`Sets`) or filled none (`SetsNothing`); between the two, the conversion, any other call may begin. `Raises`
unwinds the innermost call; `Unwound` is what method_missing rescues. `owner`, `rewinder` and `last` only record
history. What a value is converted to is abstracted to whether it fills a slot.

**Metadata** is `callable.rb` with the relationship objects of `reflection.rb`: `Source` says what each list is made
from, `Key` the name it is kept under, `opened` the reflectors with their two relationships, `hashes` the Hashes a
name has had, its own last. Each thread has a stack of blocks being evaluated (`levels`), each with the Hash its list
will be put in: `intersys_memoized` takes the Hash (`Take`), or gives the name one (`Make`), looks whether it holds a
list (`Test`), evaluates its block if not, puts the list in the Hash it took (`Store`) and reads that Hash once more
for its answer (`Read`). `Open`, `BeginFill`, `EndFill` and `Build` are what the blocks do, `Answers` hands a list to
the block that asked for it or to the program, `Fails` is the exception that leaves all blocks. `BeginClear` and
`Clear` are metadata_cache_was_dirty!, a name at a time; `Compile` is the class changing on the server. `since`,
`cleared` and `overtaken` record history: the version of the class when a reload was forced or a clearing begun, and
whether another thread's list was read where one's own had been put.

**Definitions** is `struct rbDefinition`: the class definition and the definition's own handle, where making it fails
(`ClassDefRefused`, `OwnDefRefused`, `DetailsRefused`, `MethodRefused`, `NoSuchMethod`), and the collection that frees
them in order and may raise in between. `caller` is a call by method_missing, with its two attempts, over a link that
`LinkLost` and `LinkRenewed` change; an attempt ends by NoMethodError where the name is missing, the link lost, or the
server answers any other error for it. `asks` says whether class definitions are answered by the server or from a
copy: the binding may do either.

**Horolog** is the `CBIND_DATE_ID` case of argument_set against a calendar that runs day by day. **Marshal** is the
other types: what get_data and extract_retval make of a stored value, and what is stored when the program gives it
back as a parameter or an argument. The conversions lose what those of the code lose: `CInt` keeps the low word of an
integer, `Double` is what a double leaves of a decimal, `Cut` ends a text at its first NUL, and a query's at the end
of its buffer too. **Dlist** extracts the elements of a list; a `VALUE` is a number there, since that is what the code
confuses. An integer is taken for a word: an odd one passes; of an even one `NUM2INT` may raise, crash, or make any
number (`Strays`), which is a word in its turn.

**Relationship** is RelationshipObject of `reflection.rb` over a collection others change: `seen` records every state
of the collection since the last reload. **Stream** is `stream.rb`; a character is the place it was at first.
**ClassNames** is the registry of `object.rb`; `reading` tells how Ruby understands `def register_name!(class_name =
class_name)`: as a call of the method before 2.2, as nil since. **Schema** is the table map of serial classes and the
four places that remember what a column is: the cache of each connection, the memo and the accessor of the model, and
the projection that asks the map itself.

**Record** is `create` and `update` of `persistence.rb`, one step per call of the server, in the code's order: set the
columns (`SetColumn`), write the serial object (`SyncField` per attribute, `SetSerial`), `Save`, `TakeId`, and
`SaveRaises` anywhere. `saving.todo` is the set of calls still to make before `%Save`; `Before` is their order, that
of the columns, with the fields of a serial object before the object. `attrs`, `native`, `serial` and the row are the
copies. What a program cannot see, `wish`, `asked`, `behind` and `dropped`, records history for the properties. What
is not the adapter's to say is in `fixed`: whether `%Save` writes all of an object or what was set, and whether a
serial class has setters of its own. `Synced` is `value.blank? ? nil : value` of `serial.rb:129`: `false` and `""` are
sent as nil, with every field of the object whether it was assigned or not. In a class with a setter of its own,
`FieldSet` assigns nothing: the generated one marks the owner as changed, then calls `overrited_<name>` without the
`=` it was kept under, and the NoMethodError leaves it (`serial.rb:153-157`).

`MCConversions`, `MCDatabase` and `MCRuby` check several modules each, as a sum: the first state chooses one of them
and every step is a step of that one. Where parts share no variable, their product would show nothing more and be
checked at the price of all of their interleavings. `LayerIsItsParts`, `ConversionsAreTheirParts` and
`HandlesAreTheirParts` prove that nothing is lost by it: a behaviour of the sum is, for every one of its modules, one
of that module's specification, so that each theorem of section 4 holds of the sum.

The `MC` modules give the constants; `*Proofs` modules hold the theorems. In all modules an operator commented `Slip:`
is a plausible mistake in the action after it; nothing uses it but the test that the properties notice it.

## 3. The runs

| run | question | bounds |
|---|---|---|
| `database` | what connect, reconnect!, close and the collector leave behind when any call fails or the link is lost; the same of definitions, and which methods are reported missing | 3 links, 2 classes; 3 definitions, 1 new link |
| `query_sharing` | what statements sharing a database and its pool do to each other, to the database and to the collector | 2 statements, 2 links, a pool of 1, all bindings and hosts |
| `query_shipped` | finding: the second allocation is never reached | the library as shipped |
| `cursor` | is a slice what was asked for, what survives failures, does every reading end | 3 rows, 2 readings, 2 faults, limits and offsets below, at and beyond the size, zero and negative |
| `transaction_blocks` | what a call of transaction that returns or raises has made durable | 3 writes, 3 nested blocks, level up to 5 |
| `transaction_interrupted` | finding: an exception outside StandardError leaves the transaction open | the same |
| `objects_sharing` | which references are given back, and do the objects keep theirs | 4 objects, 2 orefs, 2 links |
| `objects_new` | finding: a new object loses its reference to the collector | 3 objects |
| `method_calls` | does what reaches the server belong to the call, and is the answer its own | 3 calls, 2 Methods with 2 parameters |
| `ruby_layer` | metadata: are lists fresh and whole, after a clearing as well | 5 lists, 2 versions, 2 asks, 1 clearing; 1 thread asking for all of them with 1 fault, or 2 without, asking for `relations` or `properties` and then for `properties` |
| | class names: does an object become one of its class | 3 classes, 3 names, two classes with one default name |
| | schema: do the views of a column agree | 2 serial classes, 1 model, 2 connections |
| | records: one row, with what was assigned and nothing else | a plain column, a calculated one and a serial object of 2 fields; 2 assignments, 1 write of others, 1 fault |
| | relationships: was what is remembered ever true | 3 objects ever, 1 fault |
| | streams: what is read | blocks of 2, 4 characters, 1 disturbance |
| `conversions` | which dates get another day number than Caché's | every day from 1841 to 2301 |
| | which values survive being read and given back | every type of column and answer, 2 copies, 2 to 4 values of each |
| | what arrives of a list | 3 elements of every kind, integers from -5 to 5 |
| `horolog_documented` | finding: the number is not the documented one | the calendar alone |

Why the bounds are enough to be interesting. Two links are one reconnection, three are one reconnection that fails
halfway and one that repairs it. The hosts are all three, so that each property has to hold of the library as it is
shipped as well as of one whose callback is supplied. A pool of one handle makes every second statement meet 460.
Three rows with two readings put limit and offset below, at and beyond the end and read again from a closed cursor.
Three nested blocks have an outermost, an inner and a middle one. Two orefs and four objects make the server issue a
number again while an older owner still waits for the collector, and an answer that a reconnection or an exception
meets on its way. Three calls are one in the conversion of another and one more, before, inside or after it, or
method_missing with both its attempts around a nested call. Two asks, a clearing and a compilation, in two threads,
are a slow reader overtaken by a forced reload or by a clearing; the five lists have the three levels of sources and
both lists under the empty name. Three definitions are a method, one tried in its place under a second name, and an
argument. Three classes and three names have a class with two names, two with one, and a name that has passed from one
to the other. One model in two connections has all of its views filled at different times. In a record, two
assignments, one write by others and one fault are what it takes to save again what a failed save has left set, over
what another has written since. A block of two with four characters has sizes below, at and beyond a multiple of the
block, and a list of three every pair of neighbours. 460 years of calendar contain every kind of century and a whole
cycle of 400 years.

What the properties say, by the questions they answer:

* *Does an operation that ends leave the state its outcome announces?* `OutcomeTellsLink` (reconnect! raises an
  exception of the binding exactly when no usable link is left; a preloader that raises is the one exception, and then
  the struct names the new link and nothing of the old metadata is left), `StaleIsAnnounced` (metadata outlives its
  link only where reconnect! has raised NoMethodError), `SoleLink`, `ReturnMeansDurable`,
  `RaiseMeansNothing`, `BlocksAreAtomic`, `FullSlice`, `ReadsAsPromised` (one that returned has delivered all),
  `SavedMeansStored` (a save that returns has stored what was assigned, blanks of serial fields as NULL, after any
  attempts that raised), `UntouchedStays` (and nothing else, but that the blanks beside a serial field become NULL),
  `ExistingIsNotMissing`.
* *Does one user of shared state disturb another?* `QuietSweep`, `RegularErrorEmptiesPool`, `OwnersKeepTheirs`,
  `SentAsGiven`, `OwnComeLast`, `ParametersInTurn`, `ClearedIsGone`, `ForcedIsFresh`,
  `MapLeadsToOwner`, `ObjectsBecomeTheirs`.
* *Is anything left behind, lost or done twice?* `LeakIsExact` (closed statements leak their handle; those that fail
  between execute and close do not), `OnlyLostAnswersLeak` (every reference has its Ruby owner or was lost on the way
  to one, unless one was shared), `DefinitionsGiveBack`, `StrandedNeverDurable`, `OneRowPerRecord`,
  `ShortReadsLoseTheirTail`.
* *Is what is remembered still true?* `StaleIsAnnounced`, `SourceIsNewest`, `ForcedIsWhole`, `ViewsAgree`,
  `AnswersOnceTrue`, `ListAsCounted`.
* *Is a value the right one?* `DeviationIsExact`, `CopiesKeepTheRest`, `IntegersAreQuartered`, `AnswerIsOwn`.
* *Does it end?* `ReadingEnds`.

`RubyTypeOK` is the type invariant of the six modules of `ruby_layer`; the other modules' type invariants are proved
and not run (section 4).

### What the models showed about the code

Findings, each with a run that exhibits it:

1. `prepare` announces that it reconnects and allocates once again after a 460 (`query.c:47`). reconnect! calls
   `connection_restored!` on the instance (`database.c:94`), and only the class has it (`sql.rb:34`): NoMethodError
   leaves prepare after the new link is open. For the same reason reconnect! never comes to "mark cached data dirty
   to reload cached objects, because oref is not valid anymore" (`database.c:102`), and the metadata read through the
   old link is used through the new one: `StaleIsAnnounced` says that this is the only ending that does it. With
   the method supplied by a host and a binding that tolerates stale handles, the retry works
   (`RegularErrorIsRetriedHolds`).
2. "In case of exception ROLLBACK TRANSACTION is called" (`object.rb:127`): not for exceptions outside StandardError.
   For every StandardError it is true, in any program (`StandardErrorRollsBack`).
3. "Days elapsed since December 31, 1840" (`definition.c:550`): years before 1900 that follow a leap year are a day
   short, because C divides a negative number towards zero.
4. "valid Cache new object" (`intersys.h:145`): the struct of the object `%New` was wrapped in is copied, both own the
   one reference, and the collection of the wrapper takes it away.

Other behaviour worth knowing, which the properties delimit rather than refute: a closed statement never gives its
handle back; an offset beyond the end fetches once more from a closed cursor; the rows read before an exception are
answered as all of them by the next `rows`; a rollback in an inner block ends the outer transaction, whose commit then
raises, if the server's does; the reference of an answer whose class cannot be found or made is never given back
(`definition.c:318-328`); a call that raises NoMethodError after it was sent, out of the Ruby code that wraps its
answer, is sent again by method_missing under the second name; a call made by a conversion empties the arguments
collected for the call around it, and an argument that fills no slot shifts the result out of reach; a list that is
renewed leaves the lists made from it old; after a failed load, an unforced list has its first elements twice; and a
forced reload may answer an older list of another thread's after all, because the Hash is read again after it was
written (`callable.rb:166`), which is what `ForcedIsFresh` leaves out. Of the parts that are closer to a program:

* A definition whose class was not found is freed by the collector as if it were a property with a handle, and raises
  there; one whose own handle could not be had leaks its class definition (`definition.c:3-20`). Every error of the
  look-up of a method is a NoMethodError (`definition.c:139`), whatever its code, a lost link included, so that
  method_missing may report a method missing that exists.
* The integers of a list that a method answers are divided by four (`definition.c:183`): `NUM2INT` halves what is no
  `VALUE`, and the result is taken for one again. Zero raises, and even ones become anything or end the program.
* A NULL that was read by a query is bound as an empty string or as zero; a bit that was read as true or false cannot
  be bound; a timestamp loses its fraction, and in the hour the clocks skip moves by an hour. An integer beyond 32
  bits is read as its low word (`query.c:207-219`), a decimal as a double, a text as what stands before its first NUL
  or within 32767 characters.
* A serial field that was assigned `false` or `""` is stored as NULL, and so is one that nobody touched, as soon as
  another field of its object is saved (`serial.rb:129`). Where a class has a setter of its own, assigning the field
  raises NoMethodError after the owner was told of a change (`serial.rb:153-157`). A save that is tried again
  keeps its one row, but a native object that was asked for its id too early answers 0 for good, and the record takes
  that for its own.
* Since Ruby 2.2, `register_name!` without an argument is given nil (`object.rb:61`), and names set in the body of a
  class are not heard. A name asked for before the first serial class is defined raises NameError in TableMap.
* read_all loses the rest of every block that was answered short, and only that.

### Fairness

Only Cursor states any: weak fairness of `Step`. The two loops of `each` run in the calling thread without handing
control to anyone but the block, so a reading that can take its next step does. A block given to `each` may leave the
loop; it is assumed to return. Everything else is safety: nothing in this code waits.

### Deadlock

The configurations say `CHECK_DEADLOCK FALSE`: a program may stop making calls, and the bounds on links, calls,
objects and faults run out.

## 4. The proofs

For every value of the constants, and from the assumptions the modules name:

* **DatabaseProofs**: `TypeCorrect`; `SoleLinkHolds`, `StaleIsAnnouncedHolds`, `OutcomeTellsLinkHolds`,
  `BrokenStaysBrokenHolds`, `HealthyEndIsCleanHolds`, of every host, the library as shipped included. The invariants
  relate the struct to the handles held and the link the metadata came from; the statements name what the binding has
  to do for them (refuse stale handles, free what is let through). For definitions, any number of them: `Accounts`
  says which handles a definition of each stage of life still holds, and gives `DefinitionsGiveBackHolds`; `Lookups`
  relates the attempt of a call to the links renewed since it began, and gives `ExistingIsNotMissingHolds`. For
  statements: `LeakIsExact`, `QuietSweep`, `RegularErrorEmptiesPool`, from what a statement's flags say of its handle.
  Every step of Query is one of Database, and so `StatementsKeepItsPromises`: the connection's own theorems, stated of
  Database, hold of a connection whose links are lost and renewed in the middle of a prepare as well.
* **CursorProofs**: the inductive invariant `IInv` adds to `OutContiguous` where the position stands in each loop; on
  it rests `CleanProgress`, which ties the rows yielded to the slice asked for as long as nothing silent happened, and
  from it `FullSlice` and the refinement to ResultSet, whose `Return` asks for the whole slice. Limits that are not
  positive are why `IInv` says that a call's limit is -1 or positive. `EndsNearerHolds` is the half of `ReadingEnds`
  that needs no fairness: each step of a reading lowers `Left`, the rows that are left and the loops it has yet to
  leave, so that no loop goes round without a row whatever the binding answers.
* **TransactionProofs**: `Orderly` bounds the level by the depth, `InStep` ties them together in plain programs,
  `Together` says that what a call wrote is pending, durable or lost as a whole; from them the properties and the
  refinement to AtomicBlock. `StandardErrorRollsBack` says where the sentence of finding 2 holds, from `Cleaned`.
* **ObjectRefsProofs**: counting, for every oref on the link in use, the owners it has, those it is on its way to and
  those it was lost on the way to; while nothing was given out twice that is the count of the server, from which
  `OnlyLostAnswersLeak` and `OwnersKeepTheirs` follow.
* **ConversionProofs**: a closed form for the calendar's count (`CalendarCounts`), and with it the difference to the
  formula of the C code for every year and every shift of the zone; `IntegersAreQuarteredHolds` for every list and
  integer, and whatever `NUM2INT` makes of the even ones, from the invariant that the elements extracted so far are
  what the ones before `p` become. `CopiesKeepTheRestHolds` for every type, value and number of copies, and every hour
  the clocks may skip: `Copied` says, type by type, what Ruby and the server hold after any number of readings and
  givings back (`NullCopied`, `StampCopied`, `TimeCopied`, `PlainCopied`, `OtherCopied`), whatever the width of an int
  and the precision of a double are. It needs `TimeIsRead`, that the digits a time is printed with, blanks included,
  are read as the time they were printed from. `ClockAssumption` says that hours and sixtieths are those of a clock.
* **MethodCallProofs**: for any number of calls and any depth of nesting. Calls in progress are numbered in the order
  they were begun in, only the innermost has slots in the list, its last ones and all of them if nobody else emptied
  it meanwhile; the iterator of a Method nobody rewound stands at the argument its last caller has reached. The four
  properties and the types follow.
* **MetadataProofs**: for any number of threads, any choice of lists that has their sources, and any number of
  changes, clearings and faults. All of it rests on `Wellformed`: the blocks on a thread's stack are each the source
  of the one outside it, their Hashes exist, and what a Hash or a thread holds was read through a reflector that was
  opened.
  * `ForcedIsFreshHolds`: in `Fresh`, what a forced reload has read is no older than the class was at the call, as no
    level of it looks at what is kept (`test` is never reached).
  * `ClearedIsGoneHolds` in two steps. `ClearingInOrder`: a name cleared sooner was told of clearings at least as
    late, and of the last complete one. `Rising`: nothing kept is older than the clearing its Hash was told of, and
    the Hashes a thread has taken were told of later ones the further in they are, since the outer Hash is taken
    before the source is asked for. So a thread that was reading meanwhile has put its list in a Hash that the name no
    longer has, or has read it anew. Lists under the empty name are outside both: two of them share a Hash.
  * `SourceIsNewestHolds`: `NewestOrder` orders what is kept along the sources and `CallNewest` says where a lone
    thread is in renewing them; `Above` is all that a name is made from, since a name half way up may be without a
    list after a clearing.
  * `ForcedIsWholeHolds`, of one thread as well: `WholeRead`, by which a forced reload loads the relationships of a
    reflector that nobody has begun to load.
  * `AnsweredAsAskedHolds`: a list of the kind asked for is answered. `KeptAsNamed` says what kind is kept where
    all the lists of a name are of one; `Owes` says which calls have to have read the source of their list: all for
    such a list, and for one under the empty name, or made from one of those, only a forced reload into whose Hash no
    other thread has put its own list.
  * `EndsNearerHolds`: no thread waits for another one. `LeftToDo` counts the steps a call may still take, at most 35
    for a list and one per name for a clearing; every step of a call lowers it, and others' steps leave the call
    alone. `Nested` bounds the blocks on its stack by the distance of their lists from the reflector (`Depth`).
* **RubyProofs**, each part for any number of what it is about:
  * Classes: `Registry` (a name leads to the class that claimed it last and still has it) for
    `ObjectsBecomeTheirsHolds`.
  * Schema: `MapInOrder` and `MemosInOrder` for the table map and the views of columns, in which a memo names the
    connection it came from.
  * Relationships: `Remembered` for `AnswersOnceTrueHold`, which says that the collection as it is has been seen;
    `Counted` for `ListAsCountedHolds`, which follows the list being loaded, after the `before` elements that a failed
    load has left in it.
  * Records: `RecordInOrder`, from the assumption that no field is a column (`ColumnsAssumption`). Of its parts,
    `OneRow` says which row a record, its native object and its id belong to and gives `OneRowPerRecordHolds`;
    `Bookkeeping` ties what the program asked for to what is marked as changed; `SetSoFar` says that what a save need
    not set any more is set; `StoredByCreate` bridges `%Save` and the id; `CopiesBehind` says that a copy differs from
    the row only where others have written or the program has set it. Together they give `SavedMeansStoredHolds`, over
    any number of saves that raise and are tried again, and `UntouchedStaysHolds`. `SyncedTwice` (what was sent once
    as nil stays it) is why a second save sends the same.
  * Streams: `ReadSoFar` for `ShortReadsLoseTheirTailHolds`: an undisturbed read_all stands at a multiple of the block
    and has read of every block before it (`Made`) the beginning, at least one character.

Each component's type invariant is proved too; what ConversionProofs needs of types is part of its invariants. Those
of Database, Definitions, Cursor, Query, Transaction, ObjectRefs and MethodCall are proved only, no run repeats them.
`RubyTypeOK` is the conjunction of the six of `ruby_layer`, which are proved one by one, each over the specification
of its own module; `LayerIsItsParts` puts them together to `RubyTypeCorrect`.

Some properties are proved and not run, because a run has better ones to spend its time on: `BrokenStaysBroken`,
`HealthyEndIsClean`, `OutContiguous`, `OverreadsByOne`, `LevelBelowDepth`, `ConsecutiveDays`,
`AnsweredAsAsked` and the two `EndsNearer`.

Every invariant and action property that a run checks is proved. Only model-checked: `ReadingEnds`, which is liveness
and out of the prover's reach; with `EndsNearer` proved, what is left of it is that the next fetch is made. The
models have no recursive definitions: where the proofs need a sequence or a count, it is one that grows by a step.
That the four runs of findings are violated is TLC's to show, and nothing to prove.

## 5. What is left out

* Text: SQL, quoting, conversions of character sets, most of the arel visitor. What `LIMIT` and `OFFSET` make of a
  number is in Cursor; how the number is found in the text is not (`sql.rb:44` cuts it out wherever it stands, in a
  subquery or a string as well).
* Arguments by reference and their defaults (`argument_default_value`), status results, and the getters of
  definitions, which hand on what the binding answers.
* Undefined behaviour below the level of these models: `Data_Get_Struct` on foreign values (`definition.c:642`, where
  a list argument is refused or worse because the element takes the place of the argument), the struct pointer passed
  as a Ruby object (`object.c:48`).
* `global.c` has empty bodies. Build files and tests have no state. `ext/sql_include/` is the header files of ODBC,
  copied into the tree: 5137 of the 6938 lines of C and headers, with nothing in them to model;
  `intersys.h` adds 218 of declarations, which are the variables of the modules. Of the code that runs,
  `definition.c`, `query.c`, `database.c`, `object.c` and the bindings, the greater part is modelled.
* ActiveRecord's own transactions: the adapter does not define begin, commit and rollback, so that they never reach
  the server (`intersys_adapter.rb:89`). Transaction models the ones the bindings offer.

## 6. Plan

Every component with behaviour of its own is modelled, and every safety property of a run is proved over the
specification of its module and, with the sums, over what the run explores. What is left, in the order of its worth:

1. How old the lists under the empty name may be, and those made from them, where Ruby accepts the name:
   `AnsweredAsAsked` says of which kind they are, and `ClearedIsGone` leaves them out because the code does not keep
   it for them.
2. Lists as arguments (`definition.c:642`), if the code comes to read the argument and not the struct of its element.
