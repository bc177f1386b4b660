----------------------------- MODULE ObjectRefs -----------------------------
(***************************************************************************)
(* The Intersys::Object instances of one program and the orefs behind      *)
(* them.  An oref names an object that the server process of a connection  *)
(* holds open; struct rbObject keeps the number and the database it came   *)
(* through, and the garbage collector gives it back.                       *)
(*                                                                         *)
(* The binding is taken to count the references it hands out and to keep   *)
(* an object open until as many have been released, the reading that is    *)
(* kindest to the extension; it may issue the number of a closed object    *)
(* again.                                                                  *)
(***************************************************************************)
EXTENDS Integers, FiniteSets

CONSTANTS
  Objects,   \* Ruby objects that may be made (bounds their number)
  Nobody,
  Orefs,     \* numbers the server has for open objects
  MaxLink    \* bound on the connections made one after the other

ASSUME NobodyAssumption == Nobody \notin Objects
ASSUME ObjectsAssumption == IsFiniteSet(Objects)
ASSUME OrefsAssumption == Orefs \subseteq Nat \ {0}
ASSUME LinkAssumption == MaxLink \in Nat

VARIABLES
  server,  \* per oref, the references handed out and the object it names; an
           \*   object of the server is named by the Ruby object it was opened for
  object,  \* struct rbObject of each Ruby object, the object of the server it
           \*   was made for, and its life
  link,    \* connections made so far: the last one is in use
  doubles  \* times a Ruby object got a reference on this connection that is not
           \*   its own alone: Class.new and Class.open of an id that cannot be
           \*   opened leave two with one, and an object made while the link was
           \*   renewed has one that the new link never handed out

vars == <<server, object, link, doubles>>

\* "coming" is an answer whose reference was handed out and has no Ruby object
\* yet, "made" the same of the answer of %New, "lost" one that never gets any.
Lives == {"none", "coming", "made", "lost", "held", "dropped", "dead"}

TypeOK ==
  /\ server \in [Orefs -> [refs: Nat, of: Objects \cup {Nobody}]]
  /\ object \in [Objects -> [oref: Orefs \cup {0}, link: Nat,
                             of: Objects \cup {Nobody}, life: Lives]]
  /\ link \in Nat
  /\ doubles \in Nat

Closed == [refs |-> 0, of |-> Nobody]

Init ==
  /\ server = [r \in Orefs |-> Closed]
  /\ object = [o \in Objects |-> [oref |-> 0, link |-> 0, of |-> Nobody, life |-> "none"]]
  /\ link = 1
  /\ doubles = 0

Unborn(o) == object[o].life = "none"

-----------------------------------------------------------------------------
(* The server.                                                             *)

\* One more reference to the object behind r; a closed one is opened for o.
Opened(s, r, o) ==
  [s EXCEPT ![r] = [refs |-> @.refs + 1, of |-> IF @.refs = 0 THEN o ELSE @.of]]

\* One reference less; releasing what is closed changes nothing.
Released(s, r) ==
  [s EXCEPT ![r] = IF @.refs <= 1 THEN Closed ELSE [refs |-> @.refs - 1, of |-> @.of]]

\* A struct that names the object the server has behind r.
Naming(s, r, life) == [oref |-> r, link |-> link, of |-> s[r].of, life |-> life]

\* A struct that was allocated and never filled.
Blank == [oref |-> 0, link |-> 0, of |-> Nobody, life |-> "dropped"]

-----------------------------------------------------------------------------
(* Objects that methods and properties return: intersys_method_extract_retval. *)

\* cbind_get_arg_as_obj hands out the oref of the answer: an object that is open
\* already, or one that is opened for it.
Answer(o) ==
  /\ Unborn(o)
  /\ \E r \in Orefs :
       /\ server' = Opened(server, r, o)
       /\ object' = [object EXCEPT ![o] = Naming(server', r, "coming")]
  /\ UNCHANGED <<link, doubles>>

\* The answer of %New is an object that nobody has yet.
AnswerNew(o) ==
  /\ Unborn(o)
  /\ \E r \in Orefs :
       /\ server[r] = Closed
       /\ server' = Opened(server, r, o)
       /\ object' = [object EXCEPT ![o] = Naming(server', r, "made")]
  /\ UNCHANGED <<link, doubles>>

\* The struct klass.new made gets the oref; its database is the one klass has by
\* now, which is not the one of the answer if the Ruby code of lookup and new, or
\* what ran meanwhile, has reconnected.
Filled(o, life) == [object[o] EXCEPT !.link = link, !.life = life]

Strays(o) == object[o].link # link

Wrap(o) ==
  /\ object[o].life = "coming"
  /\ object' = [object EXCEPT ![o] = Filled(o, "held")]
  /\ doubles' = IF Strays(o) THEN doubles + 1 ELSE doubles
  /\ UNCHANGED <<server, link>>

\* lookup or klass.new raises (no database, a class whose initialize takes other
\* arguments): no struct has the oref, and nothing gives it back.
AnswerLost(o) ==
  /\ object[o].life \in {"coming", "made"}
  /\ object' = [object EXCEPT ![o].life = "lost"]
  /\ UNCHANGED <<server, link, doubles>>

-----------------------------------------------------------------------------
(* Class.new: intersys_object_initialize with %New.                        *)

\* A struct that klass.new leaves without an oref: %New is refused, the class has
\* none, or its answer is lost.
NewRefused(o) ==
  /\ Unborn(o)
  /\ object' = [object EXCEPT ![o] = Blank]
  /\ UNCHANGED <<server, link, doubles>>

\* The answer of %New is wrapped in an object t of its own; its struct is
\* copied over the one of o, and t is left to the collector.
New(o, t) ==
  /\ Unborn(o) /\ object[t].life = "made"
  /\ object' = [object EXCEPT ![o] = Filled(t, "held"), ![t] = Filled(t, "dropped")]
  /\ doubles' = doubles + 1
  /\ UNCHANGED <<server, link>>

-----------------------------------------------------------------------------
(* Class.open: intersys_object_open_by_id.  It starts with new(false).     *)

\* The id is opened behind an oref other than that of %New.
OpensApart(o, t, r) ==
  /\ Unborn(o) /\ object[t].life = "made"
  /\ ~Strays(t) => r # object[t].oref
  /\ server' = Opened(server, r, o)

\* Slip: the object %New's answer was wrapped in does not get the oref.
OpenByIdForgetsNew(o, t) ==
  /\ \E r \in Orefs :
       /\ OpensApart(o, t, r)
       /\ object' = [object EXCEPT ![o] = Naming(server', r, "held"), ![t] = Blank]
  /\ doubles' = IF Strays(t) THEN doubles + 1 ELSE doubles
  /\ UNCHANGED link

\* Slip: the copy of the struct is made after the id is opened.
OpenByIdCopiesLate(o, t) ==
  /\ \E r \in Orefs :
       /\ OpensApart(o, t, r)
       /\ object' = [object EXCEPT ![o] = Naming(server', r, "held"),
                                   ![t] = Naming(server', r, "dropped")]
  /\ doubles' = IF Strays(t) THEN doubles + 1 ELSE doubles
  /\ UNCHANGED link

\* cbind_openid writes the oref of the id over the one of %New, which stays
\* with t alone.
OpenById(o, t) ==
  /\ \E r \in Orefs :
       /\ OpensApart(o, t, r)
       /\ object' = [object EXCEPT ![o] = Naming(server', r, "held"),
                                   ![t] = Filled(t, "dropped")]
  /\ doubles' = IF Strays(t) THEN doubles + 1 ELSE doubles
  /\ UNCHANGED link

\* ObjectNotFound, another exception or nil: the caller gets no object, and the
\* reference of %New is left with both.
OpenMisses(o, t) ==
  /\ Unborn(o) /\ object[t].life = "made"
  /\ object' = [object EXCEPT ![o] = Filled(t, "dropped"), ![t] = Filled(t, "dropped")]
  /\ doubles' = doubles + 1
  /\ UNCHANGED <<server, link>>

-----------------------------------------------------------------------------
(* Use and end.                                                            *)

\* Nothing in Ruby refers to the object any more.
Drop(o) ==
  /\ object[o].life = "held"
  /\ object' = [object EXCEPT ![o].life = "dropped"]
  /\ UNCHANGED <<server, link, doubles>>

\* Slip: the reference is released through the database of today.
CollectThroughCurrent(o) ==
  /\ object[o].life = "dropped"
  /\ object' = [object EXCEPT ![o].life = "dead"]
  /\ server' = IF object[o].oref > 0 THEN Released(server, object[o].oref) ELSE server
  /\ UNCHANGED <<link, doubles>>

\* intersys_object_free: the reference goes back through the database the
\* struct kept; a link that was given up has nothing left to release.
Collect(o) ==
  /\ object[o].life = "dropped"
  /\ object' = [object EXCEPT ![o].life = "dead"]
  /\ server' = IF object[o].oref > 0 /\ object[o].link = link
                 THEN Released(server, object[o].oref)
                 ELSE server
  /\ UNCHANGED <<link, doubles>>

\* reconnect!, or the reconnection of a statement that met 460: the server
\* process ends with everything it held open, and a new one counts anew.
Reconnect ==
  /\ link < MaxLink
  /\ link' = link + 1
  /\ server' = [r \in Orefs |-> Closed]
  /\ doubles' = 0
  /\ UNCHANGED object

Next ==
  \/ \E o \in Objects : Answer(o) \/ AnswerNew(o) \/ Wrap(o) \/ AnswerLost(o)
  \/ \E o \in Objects : NewRefused(o) \/ Drop(o) \/ Collect(o)
  \/ \E o, t \in Objects : New(o, t) \/ OpenById(o, t) \/ OpenMisses(o, t)
  \/ Reconnect

Spec == Init /\ [][Next]_vars

-----------------------------------------------------------------------------
(* Properties.                                                             *)

\* The Ruby objects that will give back a reference to r on this link.
Holders(r) ==
  {o \in Objects : object[o].life \in {"held", "dropped"}
                   /\ object[o].oref = r /\ object[o].link = link}

\* The answers that have the reference to r without a struct: on their way to
\* one, or lost on it.
Unowned(r) ==
  {o \in Objects : object[o].life \in {"coming", "made", "lost"}
                   /\ object[o].oref = r /\ object[o].link = link}

\* An object stays open on the server for nobody only where the Ruby code between
\* cbind_get_arg_as_obj and the struct raised (definition.c:318-328): every other
\* reference the server handed out is with a Ruby object the collector will meet,
\* or on its way to one, whatever was made, opened, missed or reconnected (the
\* %New of every open, object.c:85 and 94, included).
OnlyLostAnswersLeak ==
  \A r \in Orefs : server[r].refs <= Cardinality(Holders(r) \cup Unowned(r))

\* As long as nothing on this link called Class.new, missed an id or was caught
\* by a reconnection while an answer was wrapped, references are counted exactly,
\* those of lost answers being the only ones that nobody will give back, and every
\* Ruby object names the object of the server it was made for, however objects of
\* earlier links end: a call through it meets its own.
OwnersKeepTheirs ==
  doubles = 0 =>
     \A r \in Orefs :
       /\ server[r].refs = Cardinality(Holders(r)) + Cardinality(Unowned(r))
       /\ \A o \in Holders(r) : object[o].of = server[r].of

\* "Initializer will create ... valid Cache new object" (intersys.h:145-146): as
\* long as the program holds it and the link stands, it names an open object.
NewIsValid ==
  \A o \in Objects :
    (object[o].life = "held" /\ object[o].oref > 0 /\ object[o].link = link)
      => server[object[o].oref].of = object[o].of
=============================================================================
