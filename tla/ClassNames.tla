----------------------------- MODULE ClassNames -----------------------------
(***************************************************************************)
(* The registry of classes of lib/intersys/bindings/object.rb: under which *)
(* name of a Cache class which Ruby class is found when the server answers *)
(* an object (intersys_method_extract_retval).                             *)
(***************************************************************************)
EXTENDS Integers, FiniteSets

CONSTANTS
  Rubies,       \* the classes that inherit from Intersys::Object
  Names,        \* names of Cache classes
  DefaultName,  \* the name a class has by its own: prefix and to_s
  NoName,       \* nil, as a name
  Bare,         \* Intersys::Object itself
  NoClass

VARIABLES
  className,   \* @class_name of each class, or NoName
  class_names, \* the registry, with nil among the names
  reading,     \* "class_name = class_name" in the head of register_name!: before
               \*   Ruby 2.2 the default is what the method answers, since then nil
  claimant     \* who took each name last

classVars == <<className, class_names, reading, claimant>>

ASSUME NoClassAssumption ==
  DefaultName \in [Rubies -> Names] /\ NoName \notin Names /\ NoClass \notin Rubies

ClassTypeOK ==
  /\ className \in [Rubies -> Names \cup {NoName}]
  /\ class_names \in [Names \cup {NoName} -> Rubies \cup {NoClass}]
  /\ reading \in {"method", "nil"}
  /\ claimant \in [Names -> Rubies \cup {NoClass}]

ClassInit ==
  /\ className = [k \in Rubies |-> NoName]
  /\ class_names = [n \in Names \cup {NoName} |-> NoClass]
  /\ reading \in {"method", "nil"}
  /\ claimant = [n \in Names |-> NoClass]

\* Slip: the old name is given up whoever it leads to by now.
RegisteredByName(k, n) ==
  [m \in DOMAIN class_names |->
     IF m = (IF reading = "method" THEN n ELSE NoName) THEN k
     ELSE IF m = className[k] THEN NoClass ELSE class_names[m]]

\* register_name! of a class: the first name it is found under is given up, nil, which
\* comes first where it is a key at all, counting as none.
Registered(k, n) ==
  [m \in DOMAIN class_names |->
     IF m = (IF reading = "method" THEN n ELSE NoName) THEN k
     ELSE IF class_names[m] = k /\ class_names[NoName] # k THEN NoClass
     ELSE class_names[m]]

Claims(k, n) ==
  /\ className' = [className EXCEPT ![k] = n]
  /\ claimant' = [claimant EXCEPT ![n] = k]
  /\ UNCHANGED reading

\* The hook of a class definition: asked for its name, the class takes its default
\* and registers, and is entered under it once more.
Inherited(k) ==
  /\ className[k] = NoName
  /\ Claims(k, DefaultName[k])
  /\ class_names' = [Registered(k, DefaultName[k]) EXCEPT ![DefaultName[k]] = k]

\* class_name, intersys_name and prefix in its body, or later.
SetName(k, n) ==
  /\ className[k] # NoName
  /\ Claims(k, n)
  /\ class_names' = Registered(k, n)

ClassNext ==
  \/ \E k \in Rubies : Inherited(k)
  \/ \E k \in Rubies, n \in Names : SetName(k, n)

ClassSpec == ClassInit /\ [][ClassNext]_classVars

\* lookup: which class an object of a Cache class becomes.
lookup(n) == IF class_names[n] = NoClass THEN Bare ELSE class_names[n]

-----------------------------------------------------------------------------
(* Properties.                                                             *)

\* Where the default argument is what the author meant, every object becomes one of
\* the class that took its name last and still has it, whoever had the name before or
\* had another, and no object becomes one of a class that goes by another name.
\* Since Ruby 2.2 a class is found under the name it would have by its own, or not
\* at all: what its body says of its name is not heard.
ObjectsBecomeTheirs ==
  \A n \in Names :
    IF reading = "method"
    THEN lookup(n) = IF claimant[n] # NoClass /\ className[claimant[n]] = n
                     THEN claimant[n] ELSE Bare
    ELSE lookup(n) # Bare => n = DefaultName[lookup(n)]
=============================================================================
