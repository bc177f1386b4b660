------------------------------- MODULE Schema -------------------------------
(***************************************************************************)
(* Which columns are serial objects: TableMap and the table names of       *)
(* lib/intersys/bindings/serial.rb, the columns of schema_statements.rb,   *)
(* the memo of ext/base.rb, the generated accessors of                     *)
(* attribute_methods.rb and the projections of lib/arel/visitors.          *)
(*                                                                         *)
(* Each of them keeps what it found when it was first asked; serial        *)
(* classes are loaded, and named, at any time.                             *)
(***************************************************************************)
EXTENDS Integers, FiniteSets

CONSTANTS
  Serials,      \* the classes that inherit from Serial::Object
  Types,        \* the types columns have, which are the names of serial tables
  DefaultTable, \* the table name each class has by its own
  Models,       \* the models, of one table each
  ColumnType,   \* the type of the one column of it that may be serial
  Adapters,     \* connections of ActiveRecord's pool
  Nobody        \* no class, no name, no answer yet

ASSUME TablesAssumption ==
  DefaultTable \in [Serials -> Types] /\ ColumnType \in [Models -> Types]

ASSUME NobodyAssumption ==
  /\ Nobody \notin Serials \cup Types \cup {"plain", "serial", "none"} /\ "none" \notin Serials
  /\ \A k \in {"plain", "serial"}, a \in Adapters : Nobody # [kind |-> k, from |-> a]

VARIABLES
  tables,      \* @@tables, Nobody for a key it does not have
  initialized, \* whether the class variable has been assigned at all
  table_name,  \* @table_name of each serial class
  cached,      \* regular_columns_cache of each adapter, by model
  columns,     \* what ActiveRecord's class of each model has for its columns, and from
               \*   which adapter (columns_hash)
  serial_columns, \* @serial_columns of the class of each model, likewise
  accessor,    \* the class its generated accessor makes objects of
  raised,      \* how the last question ended
  shared       \* names that two classes have had at a time

schemaVars == <<tables, initialized, table_name, cached, columns, serial_columns,
                accessor, raised, shared>>

Kinds == {"plain", "serial"}
Memo  == [kind: Kinds, from: Adapters]

SchemaTypeOK ==
  /\ tables \in [Types -> Serials \cup {Nobody}] /\ initialized \in {"no", "yes"}
  /\ table_name \in [Serials -> Types \cup {Nobody}]
  /\ cached \in [Adapters \X Models -> Kinds \cup {Nobody}]
  /\ columns \in [Models -> Memo \cup {Nobody}]
  /\ serial_columns \in [Models -> Memo \cup {Nobody}]
  /\ accessor \in [Models -> Serials \cup {"none", Nobody}]
  /\ raised \in {"nothing", "NameError", "SyntaxError", "NoMethodError"}
  /\ shared \subseteq Types

SchemaInit ==
  /\ tables = [t \in Types |-> Nobody] /\ initialized = "no"
  /\ table_name = [k \in Serials |-> Nobody]
  /\ cached = [cm \in Adapters \X Models |-> Nobody]
  /\ columns = [m \in Models |-> Nobody] /\ serial_columns = columns /\ accessor = columns
  /\ raised = "nothing" /\ shared = {}

-----------------------------------------------------------------------------
(* The serial classes.                                                     *)

Named(k, t) ==
  /\ table_name' = [table_name EXCEPT ![k] = t]
  /\ initialized' = "yes"
  /\ shared' = IF \E other \in Serials \ {k} : table_name[other] = t THEN shared \cup {t} ELSE shared
  /\ UNCHANGED <<cached, columns, serial_columns, accessor, raised>>

\* A class is defined, and added under the name it has by its own.
InheritedSerial(k) ==
  /\ table_name[k] = Nobody
  /\ Named(k, DefaultTable[k])
  /\ tables' = [tables EXCEPT ![DefaultTable[k]] = k]

\* Slip: the old name stays in the map.
RenameAdding(k, t) ==
  /\ table_name[k] # Nobody
  /\ Named(k, t)
  /\ tables' = [tables EXCEPT ![t] = k]

\* table_name=: the old name is removed, whoever is found under it, and the new one added.
Rename(k, t) ==
  /\ table_name[k] # Nobody
  /\ Named(k, t)
  /\ tables' = [tables EXCEPT ![table_name[k]] = Nobody, ![t] = k]

-----------------------------------------------------------------------------
(* What a table's columns are.                                             *)

\* Slip: nothing is kept.
KindUncached(a, m) == IF tables[ColumnType[m]] # Nobody THEN "serial" ELSE "plain"

\* The kind of a model's column, by its adapter's cache or, where that has none, by
\* the map.
Kind(a, m) ==
  IF cached[<<a, m>>] # Nobody THEN cached[<<a, m>>]
  ELSE IF tables[ColumnType[m]] # Nobody THEN "serial" ELSE "plain"

\* columns of an adapter can be answered: from its cache, or because the map exists.
Answered(a, m) == cached[<<a, m>>] # Nobody \/ initialized = "yes"

Caches(a, m) == cached' = [cached EXCEPT ![<<a, m>>] = Kind(a, m)]

Unnamed == UNCHANGED <<tables, initialized, table_name, shared>>

\* Before the first serial class is defined, "@@tables" is not a class variable yet,
\* and no column of any table can be told.
AskTooEarly(a, m) ==
  /\ ~Answered(a, m)
  /\ raised' = "NameError"
  /\ Unnamed /\ UNCHANGED <<cached, columns, serial_columns, accessor>>

\* The columns as ActiveRecord keeps them, for column_for_attribute.
AskColumns(a, m) ==
  /\ Answered(a, m) /\ columns[m] = Nobody
  /\ Caches(a, m)
  /\ columns' = [columns EXCEPT ![m] = [kind |-> Kind(a, m), from |-> a]]
  /\ raised' = "nothing"
  /\ Unnamed /\ UNCHANGED <<serial_columns, accessor>>

\* serial_columns of the class, for update_with_serial_objects.
AskSerialColumns(a, m) ==
  /\ Answered(a, m) /\ serial_columns[m] = Nobody
  /\ Caches(a, m)
  /\ serial_columns' = [serial_columns EXCEPT ![m] = [kind |-> Kind(a, m), from |-> a]]
  /\ raised' = "nothing"
  /\ Unnamed /\ UNCHANGED <<columns, accessor>>

\* define_serial_attribute_methods, once, from serial_columns; with the name of no
\* class, the method is not Ruby.
DefineAccessor(m) ==
  /\ serial_columns[m] # Nobody /\ accessor[m] = Nobody
  /\ LET k == IF serial_columns[m].kind = "serial" THEN tables[ColumnType[m]] ELSE "none"
     IN  /\ accessor' = [accessor EXCEPT ![m] = k]
         /\ raised' = IF k = Nobody THEN "SyntaxError" ELSE "nothing"
  /\ Unnamed /\ UNCHANGED <<cached, columns, serial_columns>>

\* visit_Arel_Nodes_SelectCore, for a projection that names the column: it becomes
\* those of its class.
Project(a, m) ==
  /\ Answered(a, m)
  /\ Caches(a, m)
  /\ raised' = IF Kind(a, m) = "serial" /\ tables[ColumnType[m]] = Nobody
               THEN "NoMethodError" ELSE "nothing"
  /\ Unnamed /\ UNCHANGED <<columns, serial_columns, accessor>>

SchemaNext ==
  \/ \E k \in Serials : InheritedSerial(k)
  \/ \E k \in Serials, t \in Types : Rename(k, t)
  \/ \E a \in Adapters, m \in Models :
       \/ AskTooEarly(a, m) \/ AskColumns(a, m) \/ AskSerialColumns(a, m) \/ Project(a, m)
  \/ \E m \in Models : DefineAccessor(m)

SchemaSpec == SchemaInit /\ [][SchemaNext]_schemaVars

-----------------------------------------------------------------------------
(* Properties.                                                             *)

\* As long as no two classes have had a name at the same time, the map leads from every
\* name to the class that has it and from no other name to any; once two have, a class
\* can lose its entry to the renaming of the other.
MapLeadsToOwner ==
  /\ \A k \in Serials : table_name[k] \notin shared \cup {Nobody} => tables[table_name[k]] = k
  /\ \A t \in Types : tables[t] # Nobody => table_name[tables[t]] = t

\* update asks the one memo whether a column is serial and sets it by the other: they
\* agree, and with the accessor, unless they were made over two connections.
ViewsAgree ==
  \A m \in Models :
    /\ columns[m] # Nobody /\ serial_columns[m] # Nobody /\ columns[m] # serial_columns[m]
         => columns[m].from # serial_columns[m].from
    /\ accessor[m] \notin {Nobody, "none"} => serial_columns[m].kind = "serial"
    /\ accessor[m] = "none" => serial_columns[m].kind = "plain"
=============================================================================
