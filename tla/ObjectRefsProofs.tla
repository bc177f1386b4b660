-------------------------- MODULE ObjectRefsProofs --------------------------
(***************************************************************************)
(* The references of any number of objects, orefs and connections.         *)
(***************************************************************************)
EXTENDS ObjectRefs, FiniteSetTheorems, TLAPS

ObjectType == [oref: Orefs \cup {0}, link: Nat, of: Objects \cup {Nobody}, life: Lives]
ServerType == [refs: Nat, of: Objects \cup {Nobody}]

\* Opening and releasing keep the server's records.
LEMMA ServerKept ==
  ASSUME NEW s \in [Orefs -> ServerType], NEW r \in Orefs
  PROVE  /\ Released(s, r) \in [Orefs -> ServerType]
         /\ \A o \in Objects : Opened(s, r, o) \in [Orefs -> ServerType]
BY DEF Opened, Released, Closed, ServerType

\* What Opened does at its oref and elsewhere.
LEMMA OpenedAt ==
  ASSUME NEW s \in [Orefs -> ServerType], NEW r \in Orefs, NEW o \in Objects
  PROVE  /\ Opened(s, r, o)[r].refs = s[r].refs + 1
         /\ Opened(s, r, o)[r].of = IF s[r].refs = 0 THEN o ELSE s[r].of
         /\ \A p \in Orefs \ {r} : Opened(s, r, o)[p] = s[p]
BY DEF Opened, ServerType

\* What Released does.
LEMMA ReleasedAt ==
  ASSUME NEW s \in [Orefs -> ServerType], NEW r \in Orefs
  PROVE  /\ s[r].refs > 0 => Released(s, r)[r].refs = s[r].refs - 1
         /\ s[r].refs = 0 => Released(s, r)[r].refs = 0
         /\ s[r].refs > 1 => Released(s, r)[r].of = s[r].of
         /\ \A p \in Orefs \ {r} : Released(s, r)[p] = s[p]
BY DEF Released, Closed, ServerType

-----------------------------------------------------------------------------
(* Type correctness.                                                       *)

\* A struct made for an open object has the type of a struct.
LEMMA NamingType ==
  ASSUME NEW s \in [Orefs -> ServerType], NEW r \in Orefs, NEW life \in Lives, link \in Nat
  PROVE  Naming(s, r, life) \in ObjectType
BY DEF Naming, ServerType, ObjectType

\* ... and so has one that is filled from an answer.
LEMMA FilledType ==
  ASSUME object \in [Objects -> ObjectType], link \in Nat, NEW o \in Objects, NEW life \in Lives
  PROVE  Filled(o, life) \in ObjectType
BY DEF Filled, ObjectType

\* Making, opening, dropping and collecting objects and reconnecting keep the
\* types of the structs and of the server's records.
THEOREM TypeCorrect == Spec => []TypeOK
<1>1. Init => TypeOK
  BY DEF Init, TypeOK, Closed, Lives
<1>2. TypeOK /\ [Next]_vars => TypeOK'
  <2> SUFFICES ASSUME TypeOK, [Next]_vars PROVE TypeOK'
    OBVIOUS
  <2>1. /\ server \in [Orefs -> ServerType] /\ object \in [Objects -> ObjectType]
        /\ link \in Nat /\ doubles \in Nat
    BY DEF TypeOK, ServerType, ObjectType
  <2>2. {"held", "dropped", "coming", "made", "lost", "dead"} \subseteq Lives
    BY DEF Lives
  <2> SUFFICES /\ server' \in [Orefs -> ServerType] /\ object' \in [Objects -> ObjectType]
               /\ link' \in Nat /\ doubles' \in Nat
    BY DEF TypeOK, ServerType, ObjectType
  <2>3. ASSUME NEW o \in Objects, Answer(o)
        PROVE  server' \in [Orefs -> ServerType] /\ object' \in [Objects -> ObjectType]
    <3>1. PICK r \in Orefs : /\ server' = Opened(server, r, o)
                             /\ object' = [object EXCEPT ![o] = Naming(server', r, "coming")]
      BY <2>3 DEF Answer
    <3>2. server' \in [Orefs -> ServerType]
      BY <2>1, <3>1, ServerKept
    <3>3. Naming(server', r, "coming") \in ObjectType
      BY <2>1, <2>2, <3>2, NamingType
    <3>4. QED
      BY <2>1, <3>1, <3>2, <3>3
  <2>4. ASSUME NEW o \in Objects, AnswerNew(o)
        PROVE  server' \in [Orefs -> ServerType] /\ object' \in [Objects -> ObjectType]
    <3>1. PICK r \in Orefs : /\ server' = Opened(server, r, o)
                             /\ object' = [object EXCEPT ![o] = Naming(server', r, "made")]
      BY <2>4 DEF AnswerNew
    <3>2. server' \in [Orefs -> ServerType]
      BY <2>1, <3>1, ServerKept
    <3>3. Naming(server', r, "made") \in ObjectType
      BY <2>1, <2>2, <3>2, NamingType
    <3>4. QED
      BY <2>1, <3>1, <3>2, <3>3
  <2>5. ASSUME NEW o \in Objects, Wrap(o) \/ AnswerLost(o) \/ NewRefused(o)
        PROVE  object' \in [Objects -> ObjectType]
    <3>1. Filled(o, "held") \in ObjectType /\ Blank \in ObjectType
          /\ [object[o] EXCEPT !.life = "lost"] \in ObjectType
      BY <2>1, <2>2, FilledType DEF Blank, ObjectType
    <3>2. QED
      BY <2>1, <2>5, <3>1 DEF Wrap, AnswerLost, NewRefused
  <2>6. ASSUME NEW o \in Objects, NEW t \in Objects, New(o, t) \/ OpenMisses(o, t)
        PROVE  object' \in [Objects -> ObjectType]
    <3>1. Filled(t, "held") \in ObjectType /\ Filled(t, "dropped") \in ObjectType
      BY <2>1, <2>2, FilledType
    <3>2. QED
      BY <2>1, <2>6, <3>1 DEF New, OpenMisses
  <2>7. ASSUME NEW o \in Objects, NEW t \in Objects, OpenById(o, t)
        PROVE  server' \in [Orefs -> ServerType] /\ object' \in [Objects -> ObjectType]
    <3>1. PICK r \in Orefs :
            /\ server' = Opened(server, r, o)
            /\ object' = [object EXCEPT ![o] = Naming(server', r, "held"),
                                        ![t] = Filled(t, "dropped")]
      BY <2>7 DEF OpenById, OpensApart
    <3>2. server' \in [Orefs -> ServerType]
      BY <2>1, <3>1, ServerKept
    <3>3. Naming(server', r, "held") \in ObjectType /\ Filled(t, "dropped") \in ObjectType
      BY <2>1, <2>2, <3>2, NamingType, FilledType
    <3>4. QED
      BY <2>1, <3>1, <3>2, <3>3
  <2>8. ASSUME NEW o \in Objects, Drop(o)
        PROVE  object' \in [Objects -> ObjectType]
    BY <2>1, <2>2, <2>8 DEF Drop, ObjectType
  <2>9. ASSUME NEW o \in Objects, Collect(o)
        PROVE  server' \in [Orefs -> ServerType] /\ object' \in [Objects -> ObjectType]
    <3>1. object' \in [Objects -> ObjectType]
      BY <2>1, <2>2, <2>9 DEF Collect, ObjectType
    <3>2. CASE object[o].oref > 0 /\ object[o].link = link
      <4>1. object[o].oref \in Orefs
        BY <2>1, <3>2, OrefsAssumption DEF ObjectType
      <4>2. server' = Released(server, object[o].oref)
        BY <2>9, <3>2 DEF Collect
      <4>3. QED
        BY <2>1, <3>1, <4>1, <4>2, ServerKept
    <3>3. CASE ~(object[o].oref > 0 /\ object[o].link = link)
      BY <2>1, <2>9, <3>1, <3>3 DEF Collect
    <3>4. QED
      BY <3>2, <3>3
  <2>10. CASE Reconnect
    BY <2>1, <2>10 DEF Reconnect, Closed, ServerType
  <2>11. CASE UNCHANGED vars
    BY <2>1, <2>11 DEF vars
  <2>12. CASE Next
    BY <2>1, <2>3, <2>4, <2>5, <2>6, <2>7, <2>8, <2>9, <2>10, <2>12
       DEF Next, Answer, AnswerNew, Wrap, AnswerLost, NewRefused, New, OpenById, OpenMisses, Drop, Collect,
           Reconnect
  <2>13. QED
    BY <2>11, <2>12
<1>3. QED
  BY <1>1, <1>2, PTL DEF Spec

-----------------------------------------------------------------------------
(* Counting the claims to the object behind an oref.                       *)

\* The structs and answers that have a reference to r on the link in use.
Claims(r) ==
  {o \in Objects : object[o].life \notin {"none", "dead"} /\ object[o].oref = r /\ object[o].link = link}

Covered(r) == server[r].refs <= Cardinality(Claims(r))

Exact(r) ==
  /\ server[r].refs = Cardinality(Claims(r))
  /\ \A o \in Claims(r) : object[o].of = server[r].of

LEMMA ClaimsFinite ==
  ASSUME NEW r
  PROVE  IsFiniteSet(Claims(r)) /\ Cardinality(Claims(r)) \in Nat
<1>1. Claims(r) \in SUBSET Objects
  BY DEF Claims
<1>2. IsFiniteSet(Claims(r))
  BY <1>1, ObjectsAssumption, FS_Subset
<1>3. QED
  BY <1>2, FS_CardinalityType

LEMMA SomeClaim ==
  ASSUME NEW r, NEW o \in Claims(r)
  PROVE  Cardinality(Claims(r)) > 0
<1>1. Claims(r) # {}
  OBVIOUS
<1>2. Cardinality(Claims(r)) # 0
  BY <1>1, ClaimsFinite, FS_EmptySet
<1>3. QED
  BY <1>2, ClaimsFinite

\* An oref nothing happened to.
LEMMA Untouched ==
  ASSUME NEW r, Claims(r)' = Claims(r), server'[r] = server[r],
         \A y \in Claims(r) : object'[y].of = object[y].of
  PROVE  (Covered(r) => Covered(r)') /\ (Exact(r) => Exact(r)')
BY DEF Covered, Exact

\* One more reference goes to one more holder.
LEMMA Joined ==
  ASSUME NEW r, NEW o, NEW x, o \notin Claims(r),
         server[r].refs \in Nat,
         Claims(r)' = Claims(r) \cup {o},
         server'[r].refs = server[r].refs + 1,
         server'[r].of = IF server[r].refs = 0 THEN x ELSE server[r].of,
         object'[o].of = server'[r].of,
         \A y \in Claims(r) : object'[y].of = object[y].of
  PROVE  (Covered(r) => Covered(r)') /\ (Exact(r) => Exact(r)')
<1>1. IsFiniteSet(Claims(r)) /\ Cardinality(Claims(r)) \in Nat
  BY ClaimsFinite
<1>2. Cardinality(Claims(r) \cup {o}) = Cardinality(Claims(r)) + 1
  BY <1>1, FS_AddElement
<1>3. Cardinality(Claims(r))' = Cardinality(Claims(r)) + 1
  BY <1>2
<1>4. Covered(r) => Covered(r)'
  BY <1>1, <1>3 DEF Covered
<1>5. ASSUME Exact(r) PROVE Exact(r)'
  <2>1. server'[r].refs = Cardinality(Claims(r))'
    BY <1>3, <1>5 DEF Exact
  <2>2. ASSUME NEW y \in Claims(r) PROVE object'[y].of = server'[r].of
    <3>1. server[r].refs # 0
      BY <1>5, SomeClaim DEF Exact
    <3>2. QED
      BY <1>5, <3>1 DEF Exact
  <2>3. QED
    BY <2>1, <2>2 DEF Exact
<1>6. QED
  BY <1>4, <1>5

\* A holder gives one reference back.
LEMMA Left ==
  ASSUME NEW r \in Orefs, NEW o \in Claims(r),
         server \in [Orefs -> ServerType],
         Claims(r)' = Claims(r) \ {o},
         server' = Released(server, r),
         \A y \in Claims(r) \ {o} : object'[y].of = object[y].of
  PROVE  (Covered(r) => Covered(r)') /\ (Exact(r) => Exact(r)')
<1>1. /\ IsFiniteSet(Claims(r)) /\ Cardinality(Claims(r)) \in Nat
      /\ Cardinality(Claims(r)) > 0
  BY ClaimsFinite, SomeClaim
<1>2. Cardinality(Claims(r) \ {o}) = Cardinality(Claims(r)) - 1
  BY <1>1, FS_RemoveElement
<1>3. Cardinality(Claims(r))' = Cardinality(Claims(r)) - 1
  BY <1>2
<1>4. server[r].refs \in Nat
  BY DEF ServerType
<1>5. /\ server[r].refs > 0 => server'[r].refs = server[r].refs - 1
      /\ server[r].refs = 0 => server'[r].refs = 0
      /\ server[r].refs > 1 => server'[r].of = server[r].of
  BY ReleasedAt
<1>6. Covered(r) => Covered(r)'
  BY <1>1, <1>3, <1>4, <1>5 DEF Covered
<1>7. ASSUME Exact(r) PROVE Exact(r)'
  <2>1. server'[r].refs = Cardinality(Claims(r))'
    BY <1>1, <1>3, <1>4, <1>5, <1>7 DEF Exact
  <2>2. ASSUME NEW y \in Claims(r) \ {o} PROVE object'[y].of = server'[r].of
    <3>1. Claims(r) \ {o} # {}
      OBVIOUS
    <3>2. IsFiniteSet(Claims(r) \ {o})
      BY <1>1, FS_RemoveElement
    <3>3. Cardinality(Claims(r) \ {o}) # 0
      BY <3>1, <3>2, FS_EmptySet
    <3>4. server[r].refs > 1
      BY <1>1, <1>2, <1>7, <3>3 DEF Exact
    <3>5. QED
      BY <1>5, <1>7, <3>4 DEF Exact
  <2>3. QED
    BY <2>1, <2>2 DEF Exact
<1>8. QED
  BY <1>6, <1>7

-----------------------------------------------------------------------------
(* The invariant.                                                          *)

\* An oref that was handed out came through a link that was made.
Linked == \A o \in Objects : object[o].link <= link

\* What the steps have to show.
Counted == (\A r \in Orefs : Covered(r)) /\ (doubles = 0 => \A r \in Orefs : Exact(r))

IInv == TypeOK /\ Linked /\ Counted

\* What the steps need of the state they start from.
LEMMA Facts ==
  ASSUME IInv
  PROVE  /\ server \in [Orefs -> ServerType] /\ object \in [Objects -> ObjectType]
         /\ link \in Nat /\ doubles \in Nat
         /\ \A r \in Orefs : server[r].refs \in Nat
         /\ \A o \in Objects : /\ object[o].link \in Nat /\ object[o].link <= link
                               /\ object[o].oref \in Orefs \cup {0}
                               /\ Unborn(o) => \A r : o \notin Claims(r)
         /\ \A r \in Orefs : Covered(r)
         /\ doubles = 0 => \A r \in Orefs : Exact(r)
<1>1. /\ server \in [Orefs -> ServerType] /\ object \in [Objects -> ObjectType] /\ link \in Nat
      /\ doubles \in Nat
  BY DEF IInv, TypeOK, ServerType, ObjectType
<1>2. \A r \in Orefs : server[r].refs \in Nat
  BY <1>1 DEF ServerType
<1>3. \A o \in Objects : /\ object[o].link \in Nat /\ object[o].link <= link
                         /\ object[o].oref \in Orefs \cup {0}
  BY <1>1 DEF ObjectType, IInv, Linked
<1>4. \A o \in Objects : Unborn(o) => \A r : o \notin Claims(r)
  BY DEF Unborn, Claims
<1>5. \A r \in Orefs : Covered(r)
  BY DEF IInv, Counted
<1>6. doubles = 0 => \A r \in Orefs : Exact(r)
  BY DEF IInv, Counted
<1>7. QED
  BY <1>1, <1>2, <1>3, <1>4, <1>5, <1>6

\* The claims are those of structs and those of answers.
LEMMA TwoKinds ==
  ASSUME IInv, NEW r
  PROVE  /\ Claims(r) = Holders(r) \cup Unowned(r)
         /\ Cardinality(Claims(r)) = Cardinality(Holders(r)) + Cardinality(Unowned(r))
<1>1. \A o \in Objects : object[o].life \in Lives
  BY Facts DEF ObjectType
<1>2. Claims(r) = Holders(r) \cup Unowned(r) /\ Holders(r) \cap Unowned(r) = {}
  BY <1>1 DEF Claims, Holders, Unowned, Lives
<1>3. Holders(r) \in SUBSET Objects /\ Unowned(r) \in SUBSET Objects
  BY DEF Holders, Unowned
<1>4. /\ IsFiniteSet(Holders(r)) /\ Cardinality(Holders(r)) \in Nat
      /\ IsFiniteSet(Unowned(r)) /\ Cardinality(Unowned(r)) \in Nat
  BY <1>3, ObjectsAssumption, FS_Subset, FS_CardinalityType
<1>5. Cardinality(Holders(r) \cap Unowned(r)) = 0
  BY <1>2, FS_EmptySet
<1>6. Cardinality(Holders(r) \cup Unowned(r))
        = Cardinality(Holders(r)) + Cardinality(Unowned(r)) - Cardinality(Holders(r) \cap Unowned(r))
  BY <1>4, FS_Union, Zenon
<1>7. QED
  BY <1>2, <1>4, <1>5, <1>6

LEMMA Suffices == IInv => OnlyLostAnswersLeak /\ OwnersKeepTheirs
<1> SUFFICES ASSUME IInv PROVE OnlyLostAnswersLeak /\ OwnersKeepTheirs
  OBVIOUS
<1>1. OnlyLostAnswersLeak
  BY Facts, TwoKinds DEF OnlyLostAnswersLeak, Covered
<1>2. ASSUME doubles = 0, NEW r \in Orefs
      PROVE  /\ server[r].refs = Cardinality(Holders(r)) + Cardinality(Unowned(r))
             /\ \A o \in Holders(r) : object[o].of = server[r].of
  <2>1. Exact(r)
    BY <1>2, Facts
  <2>2. Holders(r) \subseteq Claims(r)
    BY TwoKinds
  <2>3. QED
    BY <2>1, <2>2, TwoKinds DEF Exact
<1>3. QED
  BY <1>1, <1>2 DEF OwnersKeepTheirs

\* A struct filled in from the server names its oref on the link in use.
LEMMA NamingHolds ==
  ASSUME NEW s, NEW r, NEW life
  PROVE  /\ Naming(s, r, life).oref = r /\ Naming(s, r, life).link = link
         /\ Naming(s, r, life).of = s[r].of /\ Naming(s, r, life).life = life
BY DEF Naming

\* The reference of an answer is the claim of the answer.
LEMMA AnswerCounts ==
  ASSUME IInv, NEW o \in Objects, NEW life \in Lives \ {"none", "dead"}, NEW r \in Orefs, Unborn(o),
         server' = Opened(server, r, o), object' = [object EXCEPT ![o] = Naming(server', r, life)],
         UNCHANGED <<link, doubles>>
  PROVE  Counted' /\ Linked'
<1>1. server' = Opened(server, r, o) /\ object' = [object EXCEPT ![o] = Naming(server', r, life)]
  OBVIOUS
<1>2. link' = link /\ Unborn(o) /\ doubles' = doubles
  OBVIOUS
<1>3. /\ object'[o].oref = r /\ object'[o].link = link /\ object'[o].life = life
      /\ object'[o].of = server'[r].of
      /\ \A y \in Objects \ {o} : object'[y] = object[y]
  BY <1>1, Facts, NamingHolds
<1>4. Claims(r)' = Claims(r) \cup {o}
  BY <1>2, <1>3 DEF Claims
<1>5. ASSUME NEW p \in Orefs \ {r} PROVE Claims(p)' = Claims(p)
  BY <1>2, <1>3, <1>5, Facts DEF Claims
<1>6. \A p \in Orefs : \A y \in Claims(p) : object'[y].of = object[y].of
  BY <1>2, <1>3, Facts DEF Claims
<1>7. (Covered(r) => Covered(r)') /\ (Exact(r) => Exact(r)')
  <2>1. /\ server'[r].refs = server[r].refs + 1
        /\ server'[r].of = IF server[r].refs = 0 THEN o ELSE server[r].of
    BY <1>1, Facts, OpenedAt
  <2>2. o \notin Claims(r) /\ server[r].refs \in Nat
    BY <1>2, Facts
  <2>3. QED
    BY <1>3, <1>4, <1>6, <2>1, <2>2, Joined
<1>8. ASSUME NEW p \in Orefs \ {r}
      PROVE  (Covered(p) => Covered(p)') /\ (Exact(p) => Exact(p)')
  BY <1>1, <1>5, <1>6, <1>8, Facts, OpenedAt, Untouched
<1>9. Counted'
  BY <1>2, <1>7, <1>8, Facts DEF Counted
<1>10. Linked'
  BY <1>2, <1>3, Facts DEF Linked
<1>11. QED
  BY <1>9, <1>10

\* No oref changes hands.
LEMMA StillCounts ==
  ASSUME IInv, server' = server, link' = link, doubles' = doubles,
         \A r \in Orefs : Claims(r)' = Claims(r)
                          /\ \A y \in Claims(r) : object'[y].of = object[y].of,
         \A o \in Objects : object'[o].link \in {0, link, object[o].link}
  PROVE  Counted' /\ Linked'
<1>1. ASSUME NEW r \in Orefs
      PROVE  (Covered(r) => Covered(r)') /\ (Exact(r) => Exact(r)')
  BY <1>1, Untouched
<1>2. Counted'
  BY <1>1, Facts DEF Counted
<1>3. Linked'
  BY Facts DEF Linked
<1>4. QED
  BY <1>2, <1>3

\* No fewer claims to the same references, where exactness is given up.
LEMMA MoreClaims ==
  ASSUME IInv, doubles' # 0, link' = link,
         \A r \in Orefs : Claims(r) \subseteq Claims(r)' /\ server'[r] = server[r],
         \A o \in Objects : object'[o].link \in {0, link, object[o].link}
  PROVE  Counted' /\ Linked'
<1>1. ASSUME NEW r \in Orefs PROVE Covered(r)'
  <2>1. Claims(r)' \in SUBSET Objects
    BY DEF Claims
  <2>2. IsFiniteSet(Claims(r)') /\ Cardinality(Claims(r)') \in Nat
    BY <2>1, ObjectsAssumption, FS_Subset, FS_CardinalityType
  <2>3. Cardinality(Claims(r)) <= Cardinality(Claims(r)')
    BY <1>1, <2>2, FS_Subset
  <2>4. server'[r].refs = server[r].refs /\ server[r].refs <= Cardinality(Claims(r))
    BY <1>1, Facts DEF Covered
  <2>5. server[r].refs \in Nat /\ Cardinality(Claims(r)) \in Nat
    BY <1>1, Facts, ClaimsFinite
  <2>6. QED
    BY <2>2, <2>3, <2>4, <2>5 DEF Covered
<1>2. Linked'
  BY Facts DEF Linked
<1>3. QED
  BY <1>1, <1>2 DEF Counted

\* What an answer becomes.
LEMMA FilledHolds ==
  ASSUME IInv, NEW o \in Objects, NEW life
  PROVE  /\ Filled(o, life).oref = object[o].oref /\ Filled(o, life).link = link
         /\ Filled(o, life).of = object[o].of /\ Filled(o, life).life = life
BY Facts DEF Filled, ObjectType

LEMMA WrapCounts ==
  ASSUME IInv, NEW o \in Objects, Wrap(o)
  PROVE  Counted' /\ Linked'
<1>1. /\ server' = server /\ link' = link /\ object[o].life = "coming"
      /\ object'[o].oref = object[o].oref /\ object'[o].link = link
      /\ object'[o].of = object[o].of /\ object'[o].life = "held"
      /\ \A y \in Objects \ {o} : object'[y] = object[y]
  BY Facts, FilledHolds DEF Wrap
<1>2. \A r \in Orefs : Claims(r) \subseteq Claims(r)'
  BY <1>1 DEF Claims
<1>3. CASE Strays(o)
  <2>1. doubles' # 0
    BY <1>3, Facts DEF Wrap
  <2>2. QED
    BY <1>1, <1>2, <2>1, MoreClaims
<1>4. CASE ~Strays(o)
  <2>1. doubles' = doubles
    BY <1>4 DEF Wrap
  <2>2. \A r \in Orefs : Claims(r)' = Claims(r)
    BY <1>1, <1>4 DEF Claims, Strays
  <2>3. \A r \in Orefs : \A y \in Claims(r) : object'[y].of = object[y].of
    BY <1>1 DEF Claims
  <2>4. QED
    BY <1>1, <2>1, <2>2, <2>3, StillCounts
<1>5. QED
  BY <1>3, <1>4

LEMMA AnswerLostCounts ==
  ASSUME IInv, NEW o \in Objects, AnswerLost(o)
  PROVE  Counted' /\ Linked'
<1>1. /\ server' = server /\ link' = link /\ doubles' = doubles /\ object[o].life \in {"coming", "made"}
      /\ object'[o].oref = object[o].oref /\ object'[o].link = object[o].link
      /\ object'[o].of = object[o].of /\ object'[o].life = "lost"
      /\ \A y \in Objects \ {o} : object'[y] = object[y]
  BY Facts DEF AnswerLost, ObjectType
<1>2. \A r \in Orefs : Claims(r)' = Claims(r) /\ \A y \in Claims(r) : object'[y].of = object[y].of
  BY <1>1 DEF Claims
<1>3. QED
  BY <1>1, <1>2, StillCounts

\* New and a missed open: two structs share one reference.
LEMMA SharedCounts ==
  ASSUME IInv, NEW o \in Objects, NEW t \in Objects, NEW life \in Lives \ {"none", "dead"},
         Unborn(o), object[t].life = "made", server' = server, link' = link, doubles' = doubles + 1,
         object' = [object EXCEPT ![o] = Filled(t, life), ![t] = Filled(t, "dropped")]
  PROVE  Counted' /\ Linked'
<1>1. /\ o # t /\ object'[o].link = link
      /\ object'[t].oref = object[t].oref /\ object'[t].link = link /\ object'[t].life = "dropped"
      /\ \A y \in Objects \ {o, t} : object'[y] = object[y]
  BY Facts, FilledHolds DEF Unborn
<1>2. \A r \in Orefs : Claims(r) \subseteq Claims(r)'
  BY <1>1 DEF Claims, Unborn
<1>3. doubles' # 0
  BY Facts
<1>4. QED
  BY <1>1, <1>2, <1>3, MoreClaims

LEMMA OpenByIdCounts ==
  ASSUME IInv, NEW o \in Objects, NEW t \in Objects, OpenById(o, t)
  PROVE  Counted' /\ Linked'
<1>1. PICK r \in Orefs :
        /\ OpensApart(o, t, r)
        /\ object' = [object EXCEPT ![o] = Naming(server', r, "held"), ![t] = Filled(t, "dropped")]
  BY DEF OpenById
<1>2. /\ link' = link /\ Unborn(o) /\ object[t].life = "made" /\ o # t
      /\ server' = Opened(server, r, o) /\ doubles' = IF Strays(t) THEN doubles + 1 ELSE doubles
  BY <1>1 DEF OpenById, OpensApart, Unborn
<1>3. /\ object'[o].oref = r /\ object'[o].link = link /\ object'[o].life = "held"
      /\ object'[o].of = server'[r].of
      /\ object'[t].oref = object[t].oref /\ object'[t].link = link /\ object'[t].life = "dropped"
      /\ object'[t].of = object[t].of
      /\ \A y \in Objects \ {o, t} : object'[y] = object[y]
  BY <1>1, <1>2, Facts, NamingHolds, FilledHolds
<1>4. /\ server'[r].refs = server[r].refs + 1
      /\ server'[r].of = IF server[r].refs = 0 THEN o ELSE server[r].of
      /\ \A p \in Orefs \ {r} : server'[p] = server[p]
  BY <1>2, Facts, OpenedAt
<1>5. \A p \in Orefs : \A y \in Claims(p) : object'[y].of = object[y].of
  BY <1>2, <1>3, Facts DEF Claims
<1>6. Linked'
  BY <1>2, <1>3, Facts DEF Linked
<1>7. CASE Strays(t)
  <2>1. doubles' # 0
    BY <1>2, <1>7, Facts
  <2>2. ASSUME NEW p \in Orefs PROVE Covered(p)'
    <3>1. Claims(p) \subseteq Claims(p)' /\ (p = r => o \in Claims(p)') /\ o \notin Claims(p)
      BY <1>2, <1>3 DEF Claims, Unborn
    <3>2. IsFiniteSet(Claims(p)) /\ Cardinality(Claims(p)) \in Nat /\ IsFiniteSet(Claims(p)')
      <4>1. Claims(p)' \in SUBSET Objects
        BY DEF Claims
      <4>2. QED
        BY <4>1, ClaimsFinite, ObjectsAssumption, FS_Subset
    <3>3. Cardinality(Claims(p)') \in Nat /\ Cardinality(Claims(p)) <= Cardinality(Claims(p)')
      BY <3>1, <3>2, FS_Subset, FS_CardinalityType
    <3>4. server[p].refs \in Nat /\ server[p].refs <= Cardinality(Claims(p))
      BY Facts DEF Covered
    <3>5. CASE p = r
      <4>1. Claims(p) \cup {o} \in SUBSET Claims(p)'
        BY <3>1, <3>5
      <4>2. Cardinality(Claims(p) \cup {o}) = Cardinality(Claims(p)) + 1
        BY <3>1, <3>2, FS_AddElement
      <4>3. Cardinality(Claims(p)) + 1 <= Cardinality(Claims(p)')
        BY <3>2, <4>1, <4>2, FS_Subset
      <4>4. QED
        BY <1>4, <3>2, <3>3, <3>4, <3>5, <4>3 DEF Covered
    <3>6. CASE p # r
      BY <1>4, <3>2, <3>3, <3>4, <3>6 DEF Covered
    <3>7. QED
      BY <3>5, <3>6
  <2>3. QED
    BY <1>6, <2>1, <2>2 DEF Counted
<1>8. CASE ~Strays(t)
  <2>1. doubles' = doubles /\ object[t].link = link
    BY <1>2, <1>8 DEF Strays
  <2>2. Claims(r)' = Claims(r) \cup {o}
    BY <1>2, <1>3, <2>1 DEF Claims, Unborn
  <2>3. ASSUME NEW p \in Orefs \ {r} PROVE Claims(p)' = Claims(p)
    BY <1>2, <1>3, <2>1, <2>3 DEF Claims, Unborn
  <2>4. o \notin Claims(r) /\ server[r].refs \in Nat
    BY <1>2, Facts
  <2>5. (Covered(r) => Covered(r)') /\ (Exact(r) => Exact(r)')
    BY <1>3, <1>4, <1>5, <2>2, <2>4, Joined
  <2>6. ASSUME NEW p \in Orefs \ {r}
        PROVE  (Covered(p) => Covered(p)') /\ (Exact(p) => Exact(p)')
    BY <1>4, <1>5, <2>3, <2>6, Untouched
  <2>7. Counted'
    BY <2>1, <2>5, <2>6, Facts DEF Counted
  <2>8. QED
    BY <1>6, <2>7
<1>9. QED
  BY <1>7, <1>8

LEMMA CollectCounts ==
  ASSUME IInv, NEW o \in Objects, Collect(o)
  PROVE  Counted' /\ Linked'
<1>1. /\ object[o].life = "dropped" /\ link' = link /\ doubles' = doubles
      /\ object' = [object EXCEPT ![o].life = "dead"]
  BY DEF Collect
<1>2. /\ \A y \in Objects \ {o} : object'[y] = object[y]
      /\ object'[o].life = "dead" /\ object'[o].link = object[o].link
      /\ object'[o].of = object[o].of
  BY <1>1, Facts DEF ObjectType
<1>3. CASE object[o].oref > 0 /\ object[o].link = link
  <2>1. PICK r \in Orefs : r = object[o].oref
    BY <1>3, Facts
  <2>2. server' = Released(server, r)
    BY <1>3, <2>1 DEF Collect
  <2>3. o \in Claims(r)
    BY <1>1, <1>3, <2>1 DEF Claims
  <2>4. Claims(r)' = Claims(r) \ {o}
    BY <1>1, <1>2 DEF Claims
  <2>5. ASSUME NEW p \in Orefs \ {r} PROVE Claims(p)' = Claims(p)
    BY <1>1, <1>2, <2>1, <2>5 DEF Claims
  <2>6. \A p : \A y \in Claims(p) : object'[y].of = object[y].of
    BY <1>2 DEF Claims
  <2>7. (Covered(r) => Covered(r)') /\ (Exact(r) => Exact(r)')
    BY <2>1, <2>2, <2>3, <2>4, <2>6, Facts, Left
  <2>8. ASSUME NEW p \in Orefs \ {r}
        PROVE  (Covered(p) => Covered(p)') /\ (Exact(p) => Exact(p)')
    BY <2>1, <2>2, <2>5, <2>6, <2>8, Facts, ReleasedAt, Untouched
  <2>9. Counted'
    BY <1>1, <2>7, <2>8, Facts DEF Counted
  <2>10. Linked'
    BY <1>1, <1>2, Facts DEF Linked
  <2>11. QED
    BY <2>9, <2>10
<1>4. CASE ~(object[o].oref > 0 /\ object[o].link = link)
  <2>1. server' = server
    BY <1>4 DEF Collect
  <2>2. ASSUME NEW r \in Orefs PROVE o \notin Claims(r)
    BY <1>4, <2>2, OrefsAssumption DEF Claims
  <2>3. \A r \in Orefs : Claims(r)' = Claims(r)
    BY <1>1, <1>2, <2>2 DEF Claims
  <2>4. \A r \in Orefs : \A y \in Claims(r) : object'[y].of = object[y].of
    BY <1>2 DEF Claims
  <2>5. \A y \in Objects : object'[y].link \in {0, link, object[y].link}
    BY <1>2
  <2>6. QED
    BY <1>1, <2>1, <2>3, <2>4, <2>5, StillCounts
<1>5. QED
  BY <1>3, <1>4

\* A new link starts with nothing open and nothing claimed.
LEMMA ReconnectCounts ==
  ASSUME IInv, Reconnect
  PROVE  Counted' /\ Linked'
<1>1. link' = link + 1 /\ object' = object /\ server' = [r \in Orefs |-> Closed]
  BY DEF Reconnect
<1>2. ASSUME NEW r \in Orefs PROVE Claims(r)' = {}
  BY <1>1, <1>2, Facts DEF Claims
<1>3. \A r \in Orefs : server'[r].refs = 0
  BY <1>1 DEF Closed
<1>4. Cardinality({}) = 0
  BY FS_EmptySet
<1>5. ASSUME NEW r \in Orefs PROVE Covered(r)' /\ Exact(r)'
  <2>1. Cardinality(Claims(r))' = 0
    BY <1>2, <1>4
  <2>2. QED
    BY <1>2, <1>3, <2>1 DEF Covered, Exact
<1>6. QED
  BY <1>1, <1>5, Facts DEF Counted, Linked

\* The invariant is kept by every step.
LEMMA Inductive ==
  ASSUME IInv, [Next]_vars, TypeOK'
  PROVE  IInv'
<1>1. ASSUME NEW o \in Objects, Answer(o) \/ AnswerNew(o) \/ Wrap(o) \/ AnswerLost(o)
      PROVE  Counted' /\ Linked'
  <2>1. {"coming", "made"} \subseteq Lives \ {"none", "dead"}
    BY DEF Lives
  <2>2. CASE Answer(o)
    BY <2>1, <2>2, AnswerCounts DEF Answer
  <2>3. CASE AnswerNew(o)
    BY <2>1, <2>3, AnswerCounts DEF AnswerNew
  <2>4. QED
    BY <1>1, <2>2, <2>3, WrapCounts, AnswerLostCounts
<1>2. ASSUME NEW o \in Objects, NewRefused(o) PROVE Counted' /\ Linked'
  <2>1. /\ server' = server /\ link' = link /\ doubles' = doubles
        /\ object' = [object EXCEPT ![o] = Blank]
    BY <1>2 DEF NewRefused
  <2>2. Unborn(o) /\ Blank.oref = 0 /\ Blank.link = 0 /\ 0 \notin Orefs
    BY <1>2, OrefsAssumption DEF NewRefused, Blank
  <2>3. ASSUME NEW r \in Orefs
        PROVE  Claims(r)' = Claims(r) /\ \A y \in Claims(r) : object'[y].of = object[y].of
    <3>1. o \notin Claims(r) /\ o \notin Claims(r)'
      BY <2>1, <2>2, <2>3, Facts DEF Claims
    <3>2. \A y \in Objects \ {o} : object'[y] = object[y]
      BY <2>1, Facts
    <3>3. QED
      BY <2>1, <3>1, <3>2 DEF Claims
  <2>4. \A y \in Objects : object'[y].link \in {0, link, object[y].link}
    BY <2>1, <2>2, Facts
  <2>5. QED
    BY <2>1, <2>3, <2>4, StillCounts
<1>3. ASSUME NEW o \in Objects, NEW t \in Objects, New(o, t) PROVE Counted' /\ Linked'
  <2>1. "held" \in Lives \ {"none", "dead"}
    BY DEF Lives
  <2>2. QED
    BY <1>3, <2>1, SharedCounts DEF New
<1>4. ASSUME NEW o \in Objects, NEW t \in Objects, OpenById(o, t) PROVE Counted' /\ Linked'
  BY <1>4, OpenByIdCounts
<1>5. ASSUME NEW o \in Objects, NEW t \in Objects, OpenMisses(o, t) PROVE Counted' /\ Linked'
  <2>1. "dropped" \in Lives \ {"none", "dead"}
    BY DEF Lives
  <2>2. QED
    BY <1>5, <2>1, SharedCounts DEF OpenMisses
<1>6. ASSUME NEW o \in Objects, Drop(o) PROVE Counted' /\ Linked'
  <2>1. /\ server' = server /\ link' = link /\ object[o].life = "held" /\ doubles' = doubles
        /\ object' = [object EXCEPT ![o].life = "dropped"]
    BY <1>6 DEF Drop
  <2>2. /\ \A y \in Objects \ {o} : object'[y] = object[y]
        /\ object'[o].life = "dropped" /\ object'[o].link = object[o].link
        /\ object'[o].of = object[o].of /\ object'[o].oref = object[o].oref
    BY <2>1, Facts DEF ObjectType
  <2>3. \A r \in Orefs : Claims(r)' = Claims(r)
                         /\ \A y \in Claims(r) : object'[y].of = object[y].of
    BY <2>1, <2>2 DEF Claims
  <2>4. \A y \in Objects : object'[y].link \in {0, link, object[y].link}
    BY <2>2
  <2>5. QED
    BY <2>1, <2>3, <2>4, StillCounts
<1>7. ASSUME NEW o \in Objects, Collect(o) PROVE Counted' /\ Linked'
  BY <1>7, CollectCounts
<1>8. ASSUME Reconnect PROVE Counted' /\ Linked'
  BY <1>8, ReconnectCounts
<1>9. ASSUME UNCHANGED <<server, object, link, doubles>> PROVE Counted' /\ Linked'
  <2>1. \A r \in Orefs : Claims(r)' = Claims(r)
                         /\ \A y \in Claims(r) : object'[y].of = object[y].of
    BY <1>9 DEF Claims
  <2>2. QED
    BY <1>9, <2>1, StillCounts
<1>10. ASSUME UNCHANGED vars PROVE Counted' /\ Linked'
  BY <1>9, <1>10 DEF vars
<1>11. Counted' /\ Linked'
  BY <1>1, <1>2, <1>3, <1>4, <1>5, <1>6, <1>7, <1>8, <1>10 DEF Next
<1>12. QED
  BY <1>11 DEF IInv

\* The invariant holds from the start.
THEOREM InvariantHolds == Spec => []IInv
<1>1. Init => IInv
  <2> SUFFICES ASSUME Init PROVE IInv
    OBVIOUS
  <2>1. TypeOK
    BY DEF Init, TypeOK, Closed, Lives
  <2>2. Linked
    BY DEF Init, Linked
  <2>3. ASSUME NEW r \in Orefs PROVE Claims(r) = {} /\ server[r].refs = 0
    BY <2>3 DEF Init, Claims, Closed
  <2>4. Cardinality({}) = 0
    BY FS_EmptySet
  <2>5. ASSUME NEW r \in Orefs PROVE Covered(r) /\ Exact(r)
    <3>1. Cardinality(Claims(r)) = 0 /\ Claims(r) = {} /\ server[r].refs = 0
      BY <2>3, <2>4
    <3>2. QED
      BY <3>1 DEF Covered, Exact
  <2>6. QED
    BY <2>1, <2>2, <2>5 DEF IInv, Counted
<1>2. IInv /\ TypeOK' /\ [Next]_vars => IInv'
  BY Inductive
<1>3. QED
  BY <1>1, <1>2, TypeCorrect, PTL DEF Spec

\* For any number of objects, orefs and connections: whatever the program makes,
\* opens, misses and drops, the server holds nothing open that no Ruby object
\* will give back, but for the answers that were lost on their way to one.
THEOREM OnlyLostAnswersLeakHolds == Spec => []OnlyLostAnswersLeak
<1>1. IInv => OnlyLostAnswersLeak
  BY Suffices
<1>2. QED
  BY <1>1, InvariantHolds, PTL

\* A link on which no struct got a reference that is not its own alone has every
\* reference counted, and every object names its own object of the server.
THEOREM OwnersKeepTheirsHold == Spec => []OwnersKeepTheirs
<1>1. IInv => OwnersKeepTheirs
  BY Suffices
<1>2. QED
  BY <1>1, InvariantHolds, PTL
=============================================================================
