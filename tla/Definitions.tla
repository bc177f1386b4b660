---------------------------- MODULE Definitions ----------------------------
(***************************************************************************)
(* The definitions of properties, methods and arguments, made for every    *)
(* call and left to the collector: struct rbDefinition of                  *)
(* ext/definition.c with the two handles behind each, and how              *)
(* method_missing of callable.rb finds a method by making its definition.  *)
(*                                                                         *)
(* A definition is made in C, without a change of threads; what can happen *)
(* meanwhile is that the link is lost.                                     *)
(***************************************************************************)
EXTENDS Integers, Cbind

CONSTANTS
  Definitions,  \* the objects that may be made (bounds their number)
  MaxRenewals,  \* bound on the connections made
  BadFree       \* codes of freeing a handle that is not open

ASSUME BadFreeAssumption == BadFree \subseteq Int /\ MaxRenewals \in Nat

VARIABLES
  definition, \* struct rbDefinition of each object: its type, whether def names a handle,
              \*   the link of the database it came through; and its life
  classDefs,  \* definitions whose class definition the binding holds for the link in use
  ownDefs,    \* ... whose definition of a property, method or argument it holds
  renewals,   \* connections made after the first
  linkState,  \* whether the link in use is up or lost
  asks,       \* fixed: class definitions are asked for over the link, or "copied"
  caller,     \* the last call of a method, by name or by method_missing: the name that
              \*   is tried, those there is a method under, those whose look-up met a
              \*   link lost since the class definition or another error of the server,
              \*   renewals when it began, result
  sweepRaised \* definitions whose collection raised

defVars == <<definition, classDefs, ownDefs, renewals, linkState, asks, caller, sweepRaised>>

DefLives == {"none", "making", "made", "dropped", "dead"}
DefTypes == {"property", "method", "argument"}

\* method_missing tries the name it is given, then the name with "%".
Attempts == {1, 2}

Callers == [attempt: Attempts, exists: SUBSET Attempts, late: SUBSET Attempts,
            odd: SUBSET Attempts, since: 0..MaxRenewals,
            result: {"asked", "called", "NoMethodError"} \cup LibraryErrors]

DefTypeOK ==
  /\ definition \in [Definitions -> [type: DefTypes, link: 0..MaxRenewals,
                                     def: {"null", "named"}, life: DefLives]]
  /\ classDefs \subseteq Definitions /\ ownDefs \subseteq Definitions
  /\ renewals \in 0..MaxRenewals /\ linkState \in {"up", "lost"} /\ asks \in {"remote", "copied"}
  /\ caller \in Callers
  /\ sweepRaised \subseteq Definitions

\* A struct without handles: the type is D_PROPERTY, being zero.
Zeroed(link, life) == [type |-> "property", link |-> link, def |-> "null", life |-> life]

DefInit ==
  /\ definition = [d \in Definitions |-> Zeroed(0, "none")]
  /\ classDefs = {} /\ ownDefs = {}
  /\ renewals = 0 /\ linkState = "up" /\ asks \in {"remote", "copied"}
  /\ caller = [attempt |-> 1, exists |-> {}, late |-> {}, odd |-> {}, since |-> 0,
                result |-> "called"]
  /\ sweepRaised = {}

Link == <<renewals, linkState, asks>>

-----------------------------------------------------------------------------
(* Calls.                                                                  *)

\* method_missing, or intersys_call, which has one attempt.
AskMethod ==
  /\ caller.result # "asked"
  /\ \E first \in Attempts, exists \in SUBSET Attempts :
       /\ \A a \in exists : a >= first
       /\ caller' = [attempt |-> first, exists |-> exists, late |-> {},
                     odd |-> {}, since |-> renewals, result |-> "asked"]
  /\ UNCHANGED <<definition, classDefs, ownDefs, Link, sweepRaised>>

\* The call ends so, or is tried under the second name.
EndsCall(asked, result) ==
  caller' = IF result = "NoMethodError" /\ asked.attempt = 1
            THEN [asked EXCEPT !.attempt = 2]
            ELSE [asked EXCEPT !.result = result]
Answers(result) == EndsCall(caller, result)

-----------------------------------------------------------------------------
(* Making a definition.                                                    *)

\* Methods are made for a call that was asked for, arguments for one that is made.
Due(type) ==
  /\ \A d \in Definitions : definition[d].life # "making"
  /\ type = "method" => caller.result = "asked"
  /\ type = "argument" => \E m \in Definitions :
                            definition[m].type = "method" /\ definition[m].life = "made"

\* intersys_definition_initialize.
ClassDef(d, type) ==
  /\ definition[d].life = "none" /\ Due(type)
  /\ linkState = "lost" => asks = "copied"
  /\ definition' = [definition EXCEPT ![d] =
       [type |-> type, link |-> renewals, def |-> "null", life |-> "making"]]
  /\ classDefs' = classDefs \cup {d}
  /\ UNCHANGED <<ownDefs, Link, caller, sweepRaised>>

\* Slip: the exception is taken for a missing method.
ClassDefMissing(d, type) ==
  /\ definition[d].life = "none" /\ Due(type)
  /\ definition' = [definition EXCEPT ![d] = Zeroed(renewals, "dropped")]
  /\ IF type = "method" THEN Answers("NoMethodError") ELSE UNCHANGED caller
  /\ UNCHANGED <<classDefs, ownDefs, Link, sweepRaised>>

\* It raises: there is no such class, or the link is lost.  The type is not set yet.
ClassDefRefused(d, type) ==
  /\ definition[d].life = "none" /\ Due(type)
  /\ definition' = [definition EXCEPT ![d] = Zeroed(renewals, "dropped")]
  /\ IF type = "method"
       THEN Answers(run(IF linkState = "lost" THEN 461 ELSE 5001)) ELSE UNCHANGED caller
  /\ UNCHANGED <<classDefs, ownDefs, Link, sweepRaised>>

Becomes(d, life, def) ==
  /\ definition' = [definition EXCEPT ![d].life = life, ![d].def = def]
  /\ ownDefs' = IF def = "named" THEN ownDefs \cup {d} ELSE ownDefs
  /\ UNCHANGED <<classDefs, Link, sweepRaised>>

\* cbind_alloc_prop_def and its like raise.
OwnDefRefused(d) ==
  /\ definition[d].life = "making"
  /\ Becomes(d, "dropped", "null")
  /\ IF definition[d].type = "method"
       THEN Answers(run(5001)) ELSE UNCHANGED caller

\* What the definition is about is not found, or its properties are not read: no such
\* property, no next argument, a lost link.
DetailsRefused(d) ==
  /\ definition[d].life = "making" /\ definition[d].type # "method"
  /\ Becomes(d, "dropped", "named")
  /\ UNCHANGED caller

\* cbind_get_mtd_def answers any code but 0, and all of them are a NoMethodError: there is
\* no such method, the link is lost, or the server has some other error.
NoSuchMethod(d) ==
  /\ definition[d].life = "making" /\ definition[d].type = "method"
  /\ Becomes(d, "dropped", "named")
  /\ \/ /\ linkState = "lost"
        /\ EndsCall([caller EXCEPT !.late = @ \cup {caller.attempt}], "NoMethodError")
     \/ /\ linkState = "up" /\ caller.attempt \notin caller.exists
        /\ EndsCall(caller, "NoMethodError")
     \/ /\ linkState = "up"
        /\ EndsCall([caller EXCEPT !.odd = @ \cup {caller.attempt}], "NoMethodError")

\* The method was found, and the link is lost before it is described.
MethodRefused(d) ==
  /\ definition[d].life = "making" /\ definition[d].type = "method"
  /\ linkState = "lost" /\ caller.attempt \in caller.exists
  /\ Becomes(d, "dropped", "named")
  /\ Answers(run(461))

\* What is read may have come with the class definition.
Describes(d) ==
  /\ definition[d].life = "making"
  /\ definition[d].type = "method" => caller.attempt \in caller.exists
  /\ Becomes(d, "made", "named")
  /\ IF definition[d].type = "method" THEN Answers("called") ELSE UNCHANGED caller

-----------------------------------------------------------------------------
(* The end of a definition, and of the link.                               *)

DropDefinition(d) ==
  /\ definition[d].life = "made"
  /\ definition' = [definition EXCEPT ![d].life = "dropped"]
  /\ UNCHANGED <<classDefs, ownDefs, Link, caller, sweepRaised>>

\* Answers of freeing the one handle and the other.
OwnDefCodes(d)   == IF definition[d].def = "named" THEN {0} ELSE BadFree
ClassDefCodes(d) ==
  IF d \notin classDefs THEN BadFree ELSE IF linkState = "lost" THEN {0} \cup BadFree ELSE {0}

\* Slip: arguments have no case of their own.
CollectDefinitionButArguments(d) ==
  /\ definition[d].life = "dropped"
  /\ definition' = [definition EXCEPT ![d].life = "dead"]
  /\ ownDefs' = IF definition[d].type = "argument" THEN ownDefs ELSE ownDefs \ {d}
  /\ classDefs' = classDefs \ {d}
  /\ UNCHANGED <<sweepRaised, Link, caller>>

\* intersys_definition_free: what raises leaves the rest undone.
CollectDefinition(d) ==
  /\ definition[d].life = "dropped"
  /\ definition' = [definition EXCEPT ![d].life = "dead"]
  /\ \E own \in OwnDefCodes(d), class \in ClassDefCodes(d) :
       /\ ownDefs' = ownDefs \ {d}
       /\ classDefs' = IF Passes(own) /\ class = 0 THEN classDefs \ {d} ELSE classDefs
       /\ sweepRaised' = IF Passes(own) /\ Passes(class) THEN sweepRaised
                         ELSE sweepRaised \cup {d}
  /\ UNCHANGED <<Link, caller>>

LinkLost ==
  /\ linkState = "up" /\ linkState' = "lost"
  /\ UNCHANGED <<definition, classDefs, ownDefs, renewals, asks, caller, sweepRaised>>

\* reconnect!, which ends what was allocated through the database.
LinkRenewed ==
  /\ renewals < MaxRenewals /\ \A d \in Definitions : definition[d].life # "making"
  /\ renewals' = renewals + 1 /\ linkState' = "up" /\ classDefs' = {}
  /\ UNCHANGED <<definition, ownDefs, asks, caller, sweepRaised>>

DefNext ==
  \/ AskMethod
  \/ \E d \in Definitions, type \in DefTypes : ClassDef(d, type) \/ ClassDefRefused(d, type)
  \/ \E d \in Definitions :
       \/ OwnDefRefused(d) \/ DetailsRefused(d) \/ NoSuchMethod(d) \/ MethodRefused(d)
       \/ Describes(d) \/ DropDefinition(d) \/ CollectDefinition(d)
  \/ LinkLost \/ LinkRenewed

DefSpec == DefInit /\ [][DefNext]_defVars

-----------------------------------------------------------------------------
(* Properties.                                                             *)

\* A definition that is gone has given back both its handles and raised nothing in the
\* collector, wherever making it failed, but for two kinds: one for which the first or
\* the second handle was never allocated, and one whose link was lost or given up.
DefinitionsGiveBack ==
  \A d \in Definitions : definition[d].life = "dead" =>
    /\ d \notin ownDefs
    /\ d \in classDefs \cup sweepRaised =>
         definition[d].def = "null" \/ definition[d].link # renewals \/ linkState = "lost"

\* A method that exists is reported missing only if its very look-up, after the class was
\* found, met a lost link or another error of the server: each of the names it is under.
\* The loss alone makes method_missing, which looks twice, miss a method without "%" only
\* if somebody has renewed the link between the two.  Where class definitions are copied,
\* the second look-up needs no link to miss it.
ExistingIsNotMissing ==
  caller.result = "NoMethodError" =>
    /\ caller.exists \subseteq caller.late \cup caller.odd
    /\ asks = "remote" /\ 1 \in caller.late => renewals > caller.since
=============================================================================
