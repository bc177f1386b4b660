--------------------------- MODULE MetadataProofs ---------------------------
(***************************************************************************)
(* What holds of Metadata for every number of threads, of versions of the  *)
(* class, of calls and of failures, and however the clearings and the      *)
(* calls for lists meet.  Wellformed says where a call is in its blocks;   *)
(* the properties of the lists each rest on an invariant of their own.     *)
(***************************************************************************)
EXTENDS Metadata, SequenceTheorems, FiniteSetTheorems, TLAPS

-----------------------------------------------------------------------------
(* Calls, the blocks they are in, and the Hashes of those.                 *)

Level == [list: Lists, hash: Nat]

CallState == [pc: {"idle", "take", "make", "test", "open", "build", "fill", "store", "read", "clear"},
              want: Lists, forced: BOOLEAN, levels: Seq(Level), val: List, since: 0..MaxVersion,
              todo: SUBSET Cleared, overtaken: BOOLEAN]

\* A list that was read from the server.
Proper(v) == v.ref \in 1..Len(opened)

InBlock == {"build", "fill", "store", "read"}
Reading == {"take", "make", "test", "open"} \cup InBlock

HashOf(level) == hashes[Key(level.list)][level.hash]

\* A sequence grown by one element.
LEMMA Grown ==
  ASSUME NEW S, NEW s \in Seq(S), NEW e \in S
  PROVE  /\ Append(s, e) \in Seq(S) /\ Append(s, e) # <<>>
         /\ Len(s) \in Nat /\ DOMAIN s = 1..Len(s)
         /\ Len(Append(s, e)) = Len(s) + 1 /\ DOMAIN Append(s, e) = 1..(Len(s) + 1)
         /\ \A i \in 1..Len(s) : Append(s, e)[i] = s[i]
         /\ Append(s, e)[Len(s) + 1] = e /\ Last(Append(s, e)) = e
BY AppendProperties, LenProperties DEF Last

\* A sequence without its last element, and that one.
LEMMA FrontAndLast ==
  ASSUME NEW S, NEW s \in Seq(S), s # <<>>
  PROVE  /\ Len(s) \in Nat \ {0} /\ DOMAIN s = 1..Len(s)
         /\ Last(s) = s[Len(s)] /\ Last(s) \in S
         /\ Front(s) \in Seq(S) /\ Len(Front(s)) = Len(s) - 1 /\ DOMAIN Front(s) = 1..(Len(s) - 1)
         /\ Len(s) > 1 <=> Front(s) # <<>>
         /\ \A i \in 1..(Len(s) - 1) : Front(s)[i] = s[i]
<1>1. Len(s) \in Nat \ {0} /\ DOMAIN s = 1..Len(s)
  BY EmptySeq, LenProperties
<1>2. Last(s) = s[Len(s)] /\ Last(s) \in S
  BY <1>1, ElementOfSeq DEF Last
<1>3. \A i \in 1..(Len(s) - 1) : s[i] \in S
  BY <1>1, ElementOfSeq
<1>4. /\ Front(s) \in Seq(S) /\ Len(Front(s)) = Len(s) - 1
      /\ \A i \in 1..(Len(s) - 1) : Front(s)[i] = s[i]
  BY <1>1, <1>3, SubSeqProperties DEF Front
<1>5. QED
  BY <1>1, <1>2, <1>4, LenProperties, EmptySeq

\* The levels of a call.
LEMMA Levels ==
  ASSUME NEW c \in CallState
  PROVE  /\ c.levels \in Seq(Level) /\ Len(c.levels) \in Nat /\ DOMAIN c.levels = 1..Len(c.levels)
         /\ \A i \in DOMAIN c.levels : /\ c.levels[i].list \in Lists /\ c.levels[i].hash \in Nat
                                       /\ Key(c.levels[i].list) \in Keys
         /\ c.levels # <<>> =>
              /\ Len(c.levels) \in DOMAIN c.levels /\ Last(c.levels) = c.levels[Len(c.levels)]
              /\ Last(c.levels).list \in Lists /\ Key(Last(c.levels).list) \in Keys
<1>1. c.levels \in Seq(Level)
  BY DEF CallState
<1> DEFINE s == c.levels
<1>2. s \in Seq(Level)
  BY <1>1
<1> HIDE DEF s
<1>3. Len(s) \in Nat /\ DOMAIN s = 1..Len(s)
  BY <1>2, LenProperties
<1>4. \A i \in DOMAIN s : s[i] \in Level
  BY <1>2, <1>3, ElementOfSeq
<1>5. \A i \in DOMAIN s : s[i].list \in Lists /\ s[i].hash \in Nat /\ Key(s[i].list) \in Keys
  BY <1>4 DEF Level, Keys
<1>6. s # <<>> => Len(s) \in DOMAIN s /\ Last(s) = s[Len(s)]
  <2> SUFFICES ASSUME s # <<>> PROVE Len(s) \in DOMAIN s /\ Last(s) = s[Len(s)]
    OBVIOUS
  <2>1. Len(s) \in Nat \ {0} /\ Last(s) = s[Len(s)]
    BY <1>2, FrontAndLast
  <2>2. QED
    BY <1>3, <2>1
<1>7. QED
  BY <1>2, <1>3, <1>5, <1>6 DEF s

\* A name given one more Hash.
LEMMA HashMade ==
  ASSUME hashes \in [Keys -> Seq(Hash)], NEW k \in Keys, NEW s \in 0..MaxVersion,
         hashes' = [hashes EXCEPT ![k] = Append(@, [val |-> None, since |-> s])]
  PROVE  /\ hashes' \in [Keys -> Seq(Hash)]
         /\ \A j \in Keys : j # k => hashes'[j] = hashes[j]
         /\ hashes[k] \in Seq(Hash) /\ Len(hashes[k]) \in Nat /\ DOMAIN hashes[k] = 1..Len(hashes[k])
         /\ hashes'[k] # <<>> /\ Len(hashes'[k]) = Len(hashes[k]) + 1
         /\ DOMAIN hashes'[k] = 1..(Len(hashes[k]) + 1)
         /\ \A h \in DOMAIN hashes[k] : hashes'[k][h] = hashes[k][h]
         /\ hashes'[k][Len(hashes[k]) + 1].val = None
         /\ hashes'[k][Len(hashes[k]) + 1].since = s
<1> DEFINE e == [val |-> None, since |-> s]
<1>1. e \in Hash
  BY ListsAssumption DEF Hash, None, List
<1>2. hashes[k] \in Seq(Hash) /\ hashes'[k] = Append(hashes[k], e)
  OBVIOUS
<1> HIDE DEF e
<1>3. /\ hashes'[k] \in Seq(Hash) /\ hashes'[k] # <<>> /\ DOMAIN hashes[k] = 1..Len(hashes[k])
      /\ Len(hashes[k]) \in Nat
      /\ Len(hashes'[k]) = Len(hashes[k]) + 1 /\ DOMAIN hashes'[k] = 1..(Len(hashes[k]) + 1)
      /\ \A h \in 1..Len(hashes[k]) : hashes'[k][h] = hashes[k][h]
      /\ hashes'[k][Len(hashes[k]) + 1] = e
  BY <1>1, <1>2, Grown
<1>4. e.val = None /\ e.since = s
  BY DEF e
<1>5. hashes' \in [Keys -> Seq(Hash)] /\ \A j \in Keys : j # k => hashes'[j] = hashes[j]
  BY <1>3
<1>6. QED
  BY <1>2, <1>3, <1>4, <1>5

\* A list put in a Hash.
Puts(k, h, v) == hashes' = [hashes EXCEPT ![k][h].val = v]

\* What that does to the Hashes.
LEMMA HashFilled ==
  ASSUME hashes \in [Keys -> Seq(Hash)], NEW k \in Keys, NEW h \in DOMAIN hashes[k], NEW v \in List,
         Puts(k, h, v)
  PROVE  /\ hashes' \in [Keys -> Seq(Hash)]
         /\ \A j \in Keys : /\ DOMAIN hashes'[j] = DOMAIN hashes[j]
                            /\ Len(hashes'[j]) = Len(hashes[j])
                            /\ j # k => hashes'[j] = hashes[j]
         /\ \A g \in DOMAIN hashes[k] :
              /\ hashes'[k][g].since = hashes[k][g].since
              /\ hashes'[k][g].val = IF g = h THEN v ELSE hashes[k][g].val
<1>1. hashes[k] \in Seq(Hash) /\ DOMAIN hashes[k] = 1..Len(hashes[k]) /\ h \in 1..Len(hashes[k])
  BY LenProperties
<1> DEFINE e == [hashes[k][h] EXCEPT !.val = v]
<1>2. hashes[k][h] \in Hash
  BY <1>1, ElementOfSeq
<1>3. e \in Hash /\ e.val = v /\ e.since = hashes[k][h].since
  BY <1>2 DEF Hash
<1>4. hashes' = [hashes EXCEPT ![k] = [hashes[k] EXCEPT ![h] = e]]
  BY DEF Puts
<1> HIDE DEF e
<1>5. hashes'[k] \in Seq(Hash) /\ Len(hashes'[k]) = Len(hashes[k])
      /\ \A g \in 1..Len(hashes[k]) : hashes'[k][g] = IF g = h THEN e ELSE hashes[k][g]
  <2>1. /\ [hashes[k] EXCEPT ![h] = e] \in Seq(Hash)
        /\ Len([hashes[k] EXCEPT ![h] = e]) = Len(hashes[k])
        /\ \A g \in 1..Len(hashes[k]) :
             [hashes[k] EXCEPT ![h] = e][g] = IF g = h THEN e ELSE hashes[k][g]
    BY <1>1, <1>3, ExceptSeq
  <2>2. QED
    BY <1>4, <2>1
<1>6. DOMAIN hashes'[k] = DOMAIN hashes[k]
  BY <1>1, <1>5, LenProperties
<1>7. hashes' \in [Keys -> Seq(Hash)] /\ \A j \in Keys : j # k => hashes'[j] = hashes[j]
  BY <1>4, <1>5
<1>8. QED
  BY <1>1, <1>3, <1>5, <1>6, <1>7

\* A call as it is when a block of it is left or entered.
Same(c, d) == d.forced = c.forced /\ d.since = c.since /\ d.todo = c.todo

Evaluating(l, d) ==
  \/ l = "reflector" /\ d.pc = "open"
  \/ l # "reflector" /\ d.pc = "take" /\ d.want = Source[l]

\* The block of a list is begun with a call for its source.
LEMMA Evaluation ==
  ASSUME NEW c \in CallState, c.levels # <<>>
  PROVE  /\ Evaluates(c) \in CallState /\ Same(c, Evaluates(c))
         /\ Evaluates(c).levels = c.levels /\ Evaluates(c).val = c.val
         /\ Evaluates(c).overtaken = c.overtaken
         /\ Evaluating(Last(c.levels).list, Evaluates(c))
<1> DEFINE l == Last(c.levels).list
<1>1. c.levels \in Seq(Level)
  BY DEF CallState
<1>2. l \in Lists
  BY Levels
<1>3. CASE l = "reflector"
  <2>1. Evaluates(c) = [c EXCEPT !.pc = "open"]
    BY <1>3 DEF Evaluates
  <2>2. QED
    BY <1>3, <2>1 DEF CallState, Same, Evaluating
<1>4. CASE l # "reflector"
  <2>1. Evaluates(c) = [c EXCEPT !.pc = "take", !.want = Source[l]] /\ Source[l] \in Lists
    BY <1>2, <1>4, ListsAssumption DEF Evaluates
  <2> HIDE DEF l
  <2>2. Evaluates(c) \in CallState
    BY <2>1 DEF CallState
  <2>3. Evaluating(l, Evaluates(c))
    BY <1>4, <2>1 DEF CallState, Evaluating
  <2>4. QED
    BY <2>1, <2>2, <2>3 DEF CallState, Same, l
<1>5. QED
  BY <1>3, <1>4

\* A call that is given a Hash for the list it wants.
LEMMA Entry ==
  ASSUME NEW c \in CallState, NEW h \in Nat
  PROVE  /\ Took(c, h) \in CallState /\ Same(c, Took(c, h))
         /\ Took(c, h).levels = Append(c.levels, [list |-> c.want, hash |-> h])
         /\ Took(c, h).val = c.val /\ Took(c, h).overtaken = c.overtaken
         /\ \/ ~c.forced /\ Took(c, h).pc = "test"
            \/ c.forced /\ Evaluating(c.want, Took(c, h))
<1> DEFINE e == [list |-> c.want, hash |-> h]
           inside == [c EXCEPT !.levels = Append(@, e)]
<1>1. e \in Level /\ c.levels \in Seq(Level) /\ e.list = c.want
  BY DEF CallState, Level
<1> HIDE DEF e
<1>2. Append(c.levels, e) \in Seq(Level) /\ Append(c.levels, e) # <<>> /\ Last(Append(c.levels, e)) = e
  BY <1>1, Grown
<1>3. /\ inside \in CallState /\ Same(c, inside) /\ inside.levels = Append(c.levels, e)
      /\ inside.val = c.val /\ inside.overtaken = c.overtaken
  BY <1>2 DEF CallState, Same
<1>4. Took(c, h) = IF c.forced THEN Evaluates(inside) ELSE [inside EXCEPT !.pc = "test"]
  BY DEF Took, e
<1> HIDE DEF inside
<1>5. CASE c.forced
  <2>1. Took(c, h) = Evaluates(inside) /\ inside.levels # <<>> /\ Last(inside.levels).list = c.want
    BY <1>1, <1>2, <1>3, <1>4, <1>5
  <2>2. QED
    BY <1>3, <1>5, <2>1, Evaluation, Zenon DEF Same, e
<1>6. CASE ~c.forced
  <2>1. Took(c, h) = [inside EXCEPT !.pc = "test"]
    BY <1>4, <1>6
  <2>2. QED
    BY <1>3, <1>6, <2>1 DEF CallState, Same, e
<1>7. QED
  BY <1>5, <1>6

\* The types alone.
WellTyped ==
  /\ schema \in 0..MaxVersion
  /\ opened \in Seq([version: 0..MaxVersion, methods: Fill, properties: Fill])
  /\ hashes \in [Keys -> Seq(Hash)]
  /\ call \in [Threads -> CallState]
  /\ crew \subseteq Threads /\ emptyName \in EmptyNames
  /\ faults \in Nat /\ asks \in Nat /\ clearings \in Nat
  /\ cleared \in 0..MaxVersion
  /\ answer \in [list: Lists, val: List, forced: BOOLEAN, since: 0..MaxVersion,
                 overtaken: BOOLEAN]

\* Of a call whose block is being evaluated: where it is, and what it has read.
CallFormed(t) ==
  LET c == call[t] IN
  /\ c.pc \in {"test", "open", "build", "fill", "store", "read"} => c.levels # <<>>
  /\ c.levels # <<>> => c.pc \in Reading
  /\ \A i \in DOMAIN c.levels : c.levels[i].hash \in DOMAIN hashes[Key(c.levels[i].list)]
  /\ c.pc \in InBlock => Proper(c.val)
  /\ c.pc = "fill" => Last(c.levels).list \in {"methods", "properties"}
  /\ c.pc = "open" => Last(c.levels).list = "reflector"
  /\ c.pc = "build" => Last(c.levels).list # "reflector"
  /\ c.pc = "read" => HashOf(Last(c.levels)).val # None

KeptFormed ==
  \A k \in Keys : \A h \in DOMAIN hashes[k] : hashes[k][h].val # None => Proper(hashes[k][h].val)

\* A call of the lists further in, and the one it is for.
CallChained(t) ==
  LET c == call[t] IN
  /\ \A i \in DOMAIN c.levels : i > 1 =>
       c.levels[i - 1].list # "reflector" /\ c.levels[i].list = Source[c.levels[i - 1].list]
  /\ (c.pc \in {"take", "make"} /\ c.levels # <<>>) =>
       Last(c.levels).list # "reflector" /\ c.want = Source[Last(c.levels).list]

Wellformed ==
  /\ WellTyped /\ KeptFormed /\ (answer.val # None => Proper(answer.val))
  /\ \A t \in Threads : CallFormed(t) /\ CallChained(t)

\* What no step undoes.
Widens ==
  /\ Len(opened) <= Len(opened')
  /\ \A r \in 1..Len(opened) : opened'[r].version = opened[r].version
  /\ \A k \in Keys : \A h \in DOMAIN hashes[k] :
       /\ h \in DOMAIN hashes'[k] /\ hashes'[k][h].since = hashes[k][h].since
       /\ hashes[k][h].val # None => hashes'[k][h].val # None

\* The calls that do not move stay in order.
LEMMA OthersFormed ==
  ASSUME WellTyped, Widens, opened' \in Seq([version: 0..MaxVersion, methods: Fill, properties: Fill]),
         NEW u \in Threads, CallFormed(u), CallChained(u), call'[u] = call[u]
  PROVE  CallFormed(u)' /\ CallChained(u)'
<1>1. Len(opened) \in Nat /\ Len(opened') \in Nat
  BY LenProperties DEF WellTyped
<1>2. \A v \in List : Proper(v) => Proper(v)'
  BY <1>1 DEF Proper, Widens, List
<1>3. call[u] \in CallState /\ call[u].val \in List /\ call[u].levels \in Seq(Level)
  BY DEF WellTyped, CallState
<1>4. \A i \in DOMAIN call[u].levels : Key(call[u].levels[i].list) \in Keys
  BY <1>3, Levels
<1>5. call[u].levels # <<>> => Last(call[u].levels) = call[u].levels[Len(call[u].levels)]
                               /\ Len(call[u].levels) \in DOMAIN call[u].levels
  BY <1>3, Levels
<1>6. CallChained(u)'
  BY DEF CallChained
<1>7. CallFormed(u)'
  <2> DEFINE c == call[u]
  <2>1. \A i \in DOMAIN c.levels : c.levels[i].hash \in DOMAIN hashes'[Key(c.levels[i].list)]
    BY <1>4, Zenon DEF CallFormed, Widens
  <2>2. c.pc \in InBlock => Proper(c.val)'
    BY <1>2, <1>3 DEF CallFormed
  <2>3. c.pc = "read" => HashOf(Last(c.levels))'.val # None
    BY <1>4, <1>5 DEF CallFormed, Widens, HashOf
  <2>4. QED
    BY <2>1, <2>2, <2>3 DEF CallFormed
<1>8. QED
  BY <1>6, <1>7

\* What a name holds and was told of.
LEMMA NamesTyped ==
  ASSUME WellTyped, NEW k \in Keys
  PROVE  Floor(k) \in 0..MaxVersion /\ Holds(k) \in List
<1>1. hashes[k] \in Seq(Hash)
  BY DEF WellTyped
<1>2. CASE hashes[k] = <<>>
  BY <1>2, VersionAssumption, ListsAssumption DEF Floor, Holds, None, List
<1>3. CASE hashes[k] # <<>>
  <2>1. Last(hashes[k]) \in Hash
    BY <1>1, <1>3, FrontAndLast
  <2>2. QED
    BY <1>3, <2>1 DEF Floor, Holds, Hash
<1>4. QED
  BY <1>2, <1>3

\* A step of one call leaves everything in order if it leaves its own so.
LEMMA Together ==
  ASSUME Wellformed, NEW t \in Threads, WellTyped', Widens, KeptFormed',
         (answer.val # None => Proper(answer.val))', CallFormed(t)', CallChained(t)',
         \A u \in Threads \ {t} : call'[u] = call[u]
  PROVE  Wellformed'
<1>1. \A u \in Threads \ {t} : CallFormed(u)' /\ CallChained(u)'
  BY OthersFormed DEF Wellformed, WellTyped
<1>2. QED
  BY <1>1 DEF Wellformed

\* A step that makes no Hash, keeps no list and opens nothing.
LEMMA OnlyCalls ==
  ASSUME Wellformed, UNCHANGED <<opened, hashes>>
  PROVE  /\ Widens /\ KeptFormed'
         /\ \A v : Proper(v)' <=> Proper(v)
         /\ \A level : HashOf(level)' = HashOf(level)
<1>1. Len(opened) \in Nat
  BY LenProperties DEF Wellformed, WellTyped
<1>2. QED
  BY <1>1 DEF Widens, KeptFormed, Proper, Wellformed, HashOf

\* A call in order is in order once it is given a Hash.
LEMMA EntersInOrder ==
  ASSUME Wellformed, Widens, NEW t \in Threads, call[t].pc \in {"take", "make"},
         NEW h \in DOMAIN hashes'[Key(call[t].want)], h \in Nat,
         call'[t] = Took(call[t], h)
  PROVE  CallFormed(t)' /\ CallChained(t)'
<1> DEFINE c == call[t]
           d == call'[t]
           e == [list |-> c.want, hash |-> h]
           n == Len(c.levels)
<1>1. c \in CallState /\ CallFormed(t) /\ CallChained(t)
  BY DEF Wellformed, WellTyped
<1>2. c.levels \in Seq(Level) /\ c.want \in Lists /\ e \in Level /\ e.list = c.want /\ e.hash = h
  BY <1>1 DEF CallState, Level
<1>3. /\ d.levels = Append(c.levels, e)
      /\ d.pc = "test" \/ Evaluating(c.want, d)
  BY <1>1, Entry
<1>4. /\ n \in Nat /\ d.levels # <<>> /\ Len(d.levels) = n + 1 /\ DOMAIN d.levels = 1..(n + 1)
      /\ \A i \in 1..n : d.levels[i] = c.levels[i]
      /\ d.levels[n + 1] = e /\ Last(d.levels) = e
      /\ DOMAIN c.levels = 1..n
  <2> HIDE DEF e, d
  <2>1. QED
    BY <1>2, <1>3, Grown
<1>5. c.levels # <<>> => /\ n \in 1..n /\ c.levels[n] = Last(c.levels)
                         /\ c.levels[n].list # "reflector" /\ c.want = Source[c.levels[n].list]
  BY <1>1, Levels DEF CallChained
<1>6. \A i \in DOMAIN d.levels : i > 1 =>
        d.levels[i - 1].list # "reflector" /\ d.levels[i].list = Source[d.levels[i - 1].list]
  <2> SUFFICES ASSUME NEW i \in 1..(n + 1), i > 1
               PROVE  d.levels[i - 1].list # "reflector" /\ d.levels[i].list = Source[d.levels[i - 1].list]
    BY <1>4
  <2>1. CASE i <= n
    <3>1. i \in 1..n /\ i - 1 \in 1..n
      BY <1>4, <2>1
    <3>2. c.levels[i - 1].list # "reflector" /\ c.levels[i].list = Source[c.levels[i - 1].list]
      BY <1>1, <1>4, <3>1 DEF CallChained
    <3>3. QED
      BY <1>4, <3>1, <3>2
  <2>2. CASE i = n + 1
    <3>1. n \in 1..n /\ i - 1 = n /\ c.levels # <<>>
      BY <1>4, <2>2, EmptySeq
    <3>2. QED
      BY <1>2, <1>4, <1>5, <2>2, <3>1
  <2>3. QED
    BY <1>4, <2>1, <2>2, SMTT(30)
<1>7. \A i \in DOMAIN d.levels : d.levels[i].hash \in DOMAIN hashes'[Key(d.levels[i].list)]
  <2>1. \A i \in 1..n : d.levels[i].hash \in DOMAIN hashes'[Key(d.levels[i].list)]
    <3>1. \A i \in 1..n : Key(c.levels[i].list) \in Keys
      BY <1>1, <1>4, Levels
    <3>2. \A i \in 1..n : c.levels[i].hash \in DOMAIN hashes'[Key(c.levels[i].list)]
      BY <1>1, <1>4, <3>1 DEF CallFormed, Widens
    <3>3. QED
      BY <1>4, <3>2
  <2>2. QED
    BY <1>2, <1>4, <2>1, SMTT(30)
<1>8. CallFormed(t)'
  BY <1>2, <1>3, <1>4, <1>7, Zenon DEF CallFormed, Evaluating, Reading, InBlock
<1>9. CallChained(t)'
  BY <1>2, <1>3, <1>4, <1>6 DEF CallChained, Evaluating
<1>10. QED
  BY <1>8, <1>9

\* Taking a Hash.
LEMMA TakeKeepsForm ==
  ASSUME Wellformed, NEW t \in Threads, Take(t)
  PROVE  Wellformed' /\ Widens
<1> DEFINE c == call[t]
           k == Key(c.want)
<1>1. c \in CallState /\ c.want \in Lists /\ k \in Keys /\ CallFormed(t) /\ CallChained(t)
  BY DEF Wellformed, WellTyped, CallState, Keys
<1>2. /\ c.pc = "take" /\ UNCHANGED <<opened, hashes, answer>>
      /\ call' = [call EXCEPT ![t] = IF hashes[k] = <<>> THEN [c EXCEPT !.pc = "make"]
                                     ELSE Took(c, Len(hashes[k]))]
  BY DEF Take
<1>3. Widens /\ KeptFormed' /\ \A v : Proper(v)' <=> Proper(v)
  BY <1>2, OnlyCalls
<1>4. (answer.val # None => Proper(answer.val))'
  BY <1>2, <1>3 DEF Wellformed
<1>5. CASE hashes[k] = <<>>
  <2>1. call' = [call EXCEPT ![t] = [c EXCEPT !.pc = "make"]] /\ [c EXCEPT !.pc = "make"] \in CallState
    BY <1>1, <1>2, <1>5 DEF CallState
  <2>2. WellTyped'
    BY <1>2, <2>1, ZenonT(30) DEF Wellformed, WellTyped, Take, Fixed
  <2>3. call'[t] = [c EXCEPT !.pc = "make"] /\ \A u \in Threads \ {t} : call'[u] = call[u]
    BY <2>1 DEF Wellformed, WellTyped
  <2>4. /\ call'[t].pc = "make" /\ call'[t].levels = c.levels /\ call'[t].want = c.want
        /\ call'[t].val = c.val /\ call'[t].forced = c.forced /\ hashes' = hashes
    BY <1>1, <1>2, <2>3 DEF CallState
  <2>5. CallFormed(t)'
    BY <1>1, <1>2, <2>4, Zenon DEF CallFormed, Reading, InBlock, Evaluating
  <2>6. CallChained(t)'
    BY <1>1, <1>2, <2>4 DEF CallChained, Evaluating
  <2>7. QED
    BY <1>3, <1>4, <2>2, <2>3, <2>5, <2>6, Together
<1>6. CASE hashes[k] # <<>>
  <2> DEFINE d == Took(c, Len(hashes[k]))
  <2>1. Len(hashes[k]) \in Nat /\ Len(hashes[k]) \in DOMAIN hashes'[k]
    BY <1>1, <1>2, <1>6, FrontAndLast DEF Wellformed, WellTyped
  <2>2. d \in CallState
    BY <1>1, <2>1, Entry
  <2>3. call' = [call EXCEPT ![t] = d]
    BY <1>2, <1>6
  <2> HIDE DEF d
  <2>4. WellTyped'
    BY <1>2, <2>2, <2>3, ZenonT(30) DEF Wellformed, WellTyped, Take, Fixed
  <2>5. call'[t] = d /\ \A u \in Threads \ {t} : call'[u] = call[u]
    BY <2>3 DEF Wellformed, WellTyped
  <2>6. CallFormed(t)' /\ CallChained(t)'
    BY <1>2, <1>3, <2>1, <2>5, EntersInOrder DEF d
  <2>7. QED
    BY <1>3, <1>4, <2>4, <2>5, <2>6, Together
<1>7. QED
  BY <1>5, <1>6

\* Making one.
LEMMA MakeKeepsForm ==
  ASSUME Wellformed, NEW t \in Threads, Make(t)
  PROVE  Wellformed' /\ Widens
<1> DEFINE c == call[t]
           k == Key(c.want)
           d == Took(c, Len(hashes'[k]))
<1>1. c \in CallState /\ c.want \in Lists /\ k \in Keys /\ CallFormed(t) /\ CallChained(t)
  BY DEF Wellformed, WellTyped, CallState, Keys
<1>2. /\ c.pc = "make" /\ UNCHANGED <<opened, answer>> /\ call' = [call EXCEPT ![t] = d]
      /\ hashes' = [hashes EXCEPT ![k] = Append(@, [val |-> None, since |-> Floor(k)])]
  BY DEF Make
<1>3. Floor(k) \in 0..MaxVersion
  BY <1>1, NamesTyped, Zenon DEF Wellformed
<1>4. /\ hashes' \in [Keys -> Seq(Hash)]
      /\ \A j \in Keys : j # k => hashes'[j] = hashes[j]
      /\ Len(hashes[k]) \in Nat /\ DOMAIN hashes[k] = 1..Len(hashes[k])
      /\ Len(hashes'[k]) = Len(hashes[k]) + 1
      /\ DOMAIN hashes'[k] = 1..(Len(hashes[k]) + 1)
      /\ \A h \in DOMAIN hashes[k] : hashes'[k][h] = hashes[k][h]
      /\ hashes'[k][Len(hashes[k]) + 1].val = None
  BY <1>1, <1>2, <1>3, HashMade DEF Wellformed, WellTyped
<1>5. Widens
  <2>1. opened' = opened /\ Len(opened) \in Nat
    BY <1>2, LenProperties DEF Wellformed, WellTyped
  <2>2. ASSUME NEW j \in Keys, NEW h \in DOMAIN hashes[j]
        PROVE  h \in DOMAIN hashes'[j] /\ hashes'[j][h] = hashes[j][h]
    <3>1. CASE j = k
      <4>1. h \in 1..Len(hashes[k]) /\ Len(hashes[k]) \in Nat /\ hashes'[k][h] = hashes[k][h]
        BY <1>4, <2>2, <3>1, Zenon
      <4>2. h \in 1..(Len(hashes[k]) + 1)
        BY <4>1
      <4>3. QED
        BY <1>4, <3>1, <4>1, <4>2, Zenon
    <3>2. CASE j # k
      BY <1>4, <2>2, <3>2, Zenon
    <3>3. QED
      BY <3>1, <3>2
  <2>3. QED
    BY <2>1, <2>2 DEF Widens
<1>6. \A v : Proper(v)' <=> Proper(v)
  BY <1>2 DEF Proper
<1>7. KeptFormed'
  <2> SUFFICES ASSUME NEW j \in Keys, NEW h \in DOMAIN hashes'[j], hashes'[j][h].val # None
               PROVE  Proper(hashes[j][h].val)'
    BY DEF KeptFormed
  <2>1. h \in DOMAIN hashes[j] /\ hashes'[j][h] = hashes[j][h]
    BY <1>1, <1>4
  <2>2. Proper(hashes[j][h].val)
    BY <2>1 DEF KeptFormed, Wellformed
  <2>3. QED
    BY <1>6, <2>1, <2>2
<1>8. (answer.val # None => Proper(answer.val))'
  BY <1>2, <1>6 DEF Wellformed
<1>9. Len(hashes'[k]) \in Nat /\ Len(hashes'[k]) \in DOMAIN hashes'[k]
  BY <1>4
<1>10. d \in CallState
  BY <1>1, <1>9, Entry
<1> HIDE DEF d
<1>11. WellTyped'
  BY <1>2, <1>4, <1>10 DEF Wellformed, WellTyped, Make, Fixed
<1>12. call'[t] = d /\ \A u \in Threads \ {t} : call'[u] = call[u]
  BY <1>2 DEF Wellformed, WellTyped
<1>13. CallFormed(t)' /\ CallChained(t)'
  BY <1>2, <1>5, <1>9, <1>12, EntersInOrder DEF d
<1>14. QED
  BY <1>5, <1>7, <1>8, <1>11, <1>12, <1>13, Together

Answer == [list: Lists, val: List, forced: BOOLEAN, since: 0..MaxVersion, overtaken: BOOLEAN]

\* An answer to the block further out.
AnsweredInside(t, v, overtaken) ==
  LET c == call[t]
      d == call'[t]
  IN  /\ Len(c.levels) > 1 /\ answer' = answer /\ Same(c, d)
      /\ d.pc = "build" /\ d.levels = Front(c.levels) /\ d.val = v
      /\ d.overtaken = (c.overtaken \/ overtaken)

\* An answer to the program.
AnsweredOutside(t, v, overtaken) ==
  LET c == call[t]
  IN  /\ Len(c.levels) = 1 /\ call'[t] = Idle
      /\ answer'.list = Last(c.levels).list /\ answer'.val = v /\ answer'.forced = c.forced /\ answer'.since = c.since
      /\ answer'.overtaken = (c.overtaken \/ overtaken)

\* A call that does nothing.
LEMMA IdleInOrder ==
  ASSUME Wellformed, NEW t \in Threads, call'[t] = Idle
  PROVE  Idle \in CallState /\ CallFormed(t)' /\ CallChained(t)'
<1>1. Idle \in CallState
  BY ListsAssumption, VersionAssumption, EmptySeq DEF Idle, CallState, None, List
<1>2. QED
  BY <1>1 DEF Idle, CallFormed, CallChained, InBlock, Reading

\* An answer leaves its call in order.
LEMMA Answering ==
  ASSUME Wellformed, UNCHANGED <<opened, hashes>>, NEW t \in Threads, call[t].levels # <<>>,
         NEW v \in List, Proper(v), NEW overtaken \in BOOLEAN, Answers(t, v, overtaken)
  PROVE  /\ call' \in [Threads -> CallState] /\ answer' \in Answer
         /\ (answer.val # None => Proper(answer.val))'
         /\ CallFormed(t)' /\ CallChained(t)'
         /\ \A u \in Threads \ {t} : call'[u] = call[u]
         /\ AnsweredInside(t, v, overtaken) \/ AnsweredOutside(t, v, overtaken)
<1> DEFINE c == call[t]
           late == c.overtaken \/ overtaken
           n == Len(c.levels)
<1>1. c \in CallState /\ call \in [Threads -> CallState] /\ CallFormed(t) /\ CallChained(t)
  BY DEF Wellformed, WellTyped
<1>2. /\ c.levels \in Seq(Level) /\ n \in Nat \ {0} /\ DOMAIN c.levels = 1..n
      /\ Last(c.levels) = c.levels[n] /\ Last(c.levels).list \in Lists
      /\ Front(c.levels) \in Seq(Level) /\ Len(Front(c.levels)) = n - 1
      /\ DOMAIN Front(c.levels) = 1..(n - 1)
      /\ \A i \in 1..(n - 1) : Front(c.levels)[i] = c.levels[i]
      /\ n > 1 <=> Front(c.levels) # <<>>
  BY <1>1, Levels, FrontAndLast
<1>3. Proper(v)' /\ \A w : Proper(w)' <=> Proper(w)
  BY DEF Proper
<1>4. CASE n > 1
  <2> DEFINE d == [c EXCEPT !.pc = "build", !.levels = Front(@), !.val = v, !.overtaken = late]
  <2>1. /\ d \in CallState /\ Same(c, d) /\ d.pc = "build" /\ d.levels = Front(c.levels) /\ d.val = v
        /\ d.overtaken = late
    BY <1>1, <1>2 DEF CallState, Same
  <2>2. call' = [call EXCEPT ![t] = d] /\ answer' = answer
    BY <1>4 DEF Answers
  <2> HIDE DEF d
  <2>3. /\ call' \in [Threads -> CallState] /\ call'[t] = d
        /\ \A u \in Threads \ {t} : call'[u] = call[u]
    BY <1>1, <2>1, <2>2
  <2>4. answer' \in Answer /\ (answer.val # None => Proper(answer.val))'
    BY <1>3, <2>2 DEF Wellformed, WellTyped, Answer
  <2>5. AnsweredInside(t, v, overtaken)
    BY <1>4, <2>1, <2>2, <2>3 DEF AnsweredInside
  <2>6. /\ n - 1 \in 1..(n - 1) /\ Last(d.levels) = c.levels[n - 1]
        /\ c.levels[n - 1].list # "reflector"
    <3>1. n \in 1..n /\ n > 1 /\ n - 1 \in 1..(n - 1)
      BY <1>2, <1>4
    <3>2. Last(Front(c.levels)) = c.levels[n - 1]
      BY <1>2, <3>1 DEF Last
    <3>3. QED
      BY <1>1, <1>2, <2>1, <3>1, <3>2 DEF CallChained
  <2>7. CallFormed(t)'
    <3>1. \A i \in DOMAIN d.levels : d.levels[i].hash \in DOMAIN hashes'[Key(d.levels[i].list)]
      <4>1. \A i \in 1..(n - 1) : i \in 1..n /\ d.levels[i] = c.levels[i]
        BY <1>2, <2>1
      <4>2. \A i \in 1..n : c.levels[i].hash \in DOMAIN hashes'[Key(c.levels[i].list)]
        BY <1>1, <1>2 DEF CallFormed
      <4>3. QED
        BY <1>2, <2>1, <4>1, <4>2
    <3>2. QED
      BY <1>2, <1>3, <1>4, <2>1, <2>3, <2>6, <3>1 DEF CallFormed, Reading, InBlock
  <2>8. CallChained(t)'
    <3>1. ASSUME NEW i \in DOMAIN d.levels, i > 1
          PROVE  d.levels[i - 1].list # "reflector" /\ d.levels[i].list = Source[d.levels[i - 1].list]
      <4>1. i \in 1..n /\ i \in 1..(n - 1) /\ i - 1 \in 1..(n - 1)
        BY <1>2, <2>1, <3>1
      <4>2. c.levels[i - 1].list # "reflector" /\ c.levels[i].list = Source[c.levels[i - 1].list]
        BY <1>1, <1>2, <3>1, <4>1 DEF CallChained
      <4>3. QED
        BY <1>2, <2>1, <4>1, <4>2
    <3>2. QED
      BY <2>1, <2>3, <3>1 DEF CallChained
  <2>9. QED
    BY <2>3, <2>4, <2>5, <2>7, <2>8
<1>5. CASE ~(n > 1)
  <2>1. /\ call' = [call EXCEPT ![t] = Idle]
        /\ answer' = [list |-> Last(c.levels).list, val |-> v, forced |-> c.forced,
                      since |-> c.since, overtaken |-> late]
    BY <1>5 DEF Answers
  <2>2. c.forced \in BOOLEAN /\ c.since \in 0..MaxVersion /\ late \in BOOLEAN
    BY <1>1 DEF CallState
  <2>3. /\ answer' \in Answer /\ answer'.list = Last(c.levels).list
        /\ answer'.val = v /\ answer'.forced = c.forced /\ answer'.since = c.since
        /\ answer'.overtaken = late
    BY <1>2, <2>1, <2>2 DEF Answer
  <2>4. call'[t] = Idle /\ \A u \in Threads \ {t} : call'[u] = call[u]
    BY <1>1, <2>1
  <2>5. call' \in [Threads -> CallState] /\ CallFormed(t)' /\ CallChained(t)'
    BY <1>1, <2>1, <2>4, IdleInOrder
  <2>6. (answer.val # None => Proper(answer.val))'
    BY <1>3, <2>3
  <2>7. AnsweredOutside(t, v, overtaken)
    <3>1. n = 1
      <4>1. n \in Nat \ {0}
        BY <1>2, Zenon
      <4> HIDE DEF n
      <4>2. QED
        BY <1>5, <4>1
    <3>2. QED
      BY <2>3, <2>4, <3>1, Zenon DEF AnsweredOutside
  <2>8. QED
    BY <2>3, <2>4, <2>5, <2>6, <2>7
<1>6. QED
  BY <1>4, <1>5

\* The Hash a call has taken.
LEMMA HashTaken ==
  ASSUME Wellformed, NEW t \in Threads, call[t].levels # <<>>
  PROVE  /\ Last(call[t].levels).list \in Lists /\ Key(Last(call[t].levels).list) \in Keys
         /\ Last(call[t].levels).hash \in DOMAIN hashes[Key(Last(call[t].levels).list)]
         /\ HashOf(Last(call[t].levels)) \in Hash
         /\ HashOf(Last(call[t].levels)).val \in List
         /\ HashOf(Last(call[t].levels)).val # None => Proper(HashOf(Last(call[t].levels)).val)
<1> DEFINE level == Last(call[t].levels)
           k == Key(level.list)
<1>1. call[t] \in CallState /\ CallFormed(t)
  BY DEF Wellformed, WellTyped
<1>2. level.list \in Lists /\ k \in Keys /\ level.hash \in DOMAIN hashes[k]
  BY <1>1, Levels DEF CallFormed
<1>3. hashes[k] \in Seq(Hash)
  BY <1>2 DEF Wellformed, WellTyped
<1>4. hashes[k][level.hash] \in Hash
  BY <1>2, <1>3, LenProperties, ElementOfSeq
<1>5. QED
  BY <1>2, <1>4 DEF Wellformed, KeptFormed, HashOf, Hash

\* Testing it.
LEMMA TestKeepsForm ==
  ASSUME Wellformed, NEW t \in Threads, Test(t)
  PROVE  /\ Wellformed' /\ Widens
         /\ LET v == HashOf(Last(call[t].levels)).val IN
            \/ v # None /\ (AnsweredInside(t, v, FALSE) \/ AnsweredOutside(t, v, FALSE))
            \/ v = None /\ answer' = answer /\ call'[t] = Evaluates(call[t])
         /\ \A u \in Threads \ {t} : call'[u] = call[u]
<1> DEFINE c == call[t]
           v == HashOf(Last(c.levels)).val
<1>1. c \in CallState /\ c.pc = "test" /\ c.levels # <<>> /\ CallFormed(t) /\ CallChained(t)
  BY DEF Wellformed, WellTyped, CallFormed, Test
<1>2. v \in List /\ (v # None => Proper(v))
  BY <1>1, HashTaken
<1>3. Widens /\ KeptFormed' /\ \A w : Proper(w)' <=> Proper(w)
  BY OnlyCalls DEF Test
<1>4. CASE v # None
  <2>1. Answers(t, v, FALSE)
    BY <1>4 DEF Test, HashOf
  <2>2. /\ call' \in [Threads -> CallState] /\ answer' \in Answer
        /\ (answer.val # None => Proper(answer.val))'
        /\ CallFormed(t)' /\ CallChained(t)'
        /\ \A u \in Threads \ {t} : call'[u] = call[u]
        /\ AnsweredInside(t, v, FALSE) \/ AnsweredOutside(t, v, FALSE)
    BY <1>1, <1>2, <1>4, <2>1, Answering DEF Test
  <2>3. WellTyped'
    BY <2>2 DEF Wellformed, WellTyped, Test, Fixed, Answer
  <2>4. QED
    BY <1>3, <1>4, <2>2, <2>3, Together
<1>5. CASE v = None
  <2> DEFINE d == Evaluates(c)
  <2>1. call' = [call EXCEPT ![t] = d] /\ answer' = answer
    BY <1>5 DEF Test, HashOf
  <2>2. d \in CallState /\ d.levels = c.levels /\ Evaluating(Last(c.levels).list, d)
    BY <1>1, Evaluation
  <2> HIDE DEF d
  <2>3. WellTyped'
    BY <2>1, <2>2 DEF Wellformed, WellTyped, Test, Fixed
  <2>4. call'[t] = d /\ \A u \in Threads \ {t} : call'[u] = call[u]
    BY <2>1 DEF Wellformed, WellTyped
  <2>5. (answer.val # None => Proper(answer.val))'
    BY <1>3, <2>1 DEF Wellformed
  <2>6. CallFormed(t)'
    BY <1>1, <2>2, <2>4 DEF CallFormed, Evaluating, Reading, InBlock, Test
  <2>7. CallChained(t)'
    BY <1>1, <2>2, <2>4, Zenon DEF CallChained, Evaluating
  <2>8. QED
    BY <1>3, <1>5, <2>1, <2>3, <2>4, <2>5, <2>6, <2>7, Together DEF d
<1>6. QED
  BY <1>4, <1>5

\* What storing does to the Hashes and to the call.
LEMMA Storing ==
  ASSUME Wellformed, NEW t \in Threads, Store(t)
  PROVE  LET c == call[t]
             k == Key(Last(c.levels).list)
             h == Last(c.levels).hash
         IN  /\ c.pc = "store" /\ c.levels # <<>> /\ k \in Keys /\ h \in DOMAIN hashes[k]
             /\ hashes' \in [Keys -> Seq(Hash)]
             /\ \A j \in Keys : /\ DOMAIN hashes'[j] = DOMAIN hashes[j]
                                /\ Len(hashes'[j]) = Len(hashes[j])
                                /\ j # k => hashes'[j] = hashes[j]
             /\ \A g \in DOMAIN hashes[k] :
                  /\ hashes'[k][g].since = hashes[k][g].since
                  /\ hashes'[k][g].val = IF g = h THEN c.val ELSE hashes[k][g].val
             /\ call' \in [Threads -> CallState] /\ call'[t] = [c EXCEPT !.pc = "read"]
             /\ \A u \in Threads \ {t} : call'[u] = call[u]
<1> DEFINE c == call[t]
           k == Key(Last(c.levels).list)
           h == Last(c.levels).hash
           v == c.val
<1>1. c \in CallState /\ c.pc = "store" /\ c.levels # <<>> /\ v \in List /\ call \in [Threads -> CallState]
  BY Zenon DEF Wellformed, WellTyped, CallFormed, Store, CallState
<1>2. k \in Keys /\ h \in DOMAIN hashes[k] /\ hashes \in [Keys -> Seq(Hash)]
  BY <1>1, HashTaken, SMTT(30) DEF Wellformed, WellTyped
<1>3. Puts(k, h, v) /\ call' = [call EXCEPT ![t].pc = "read"]
  BY DEF Store, Puts
<1> HIDE DEF k, h, v
<1>4. /\ hashes' \in [Keys -> Seq(Hash)]
      /\ \A j \in Keys : /\ DOMAIN hashes'[j] = DOMAIN hashes[j]
                         /\ Len(hashes'[j]) = Len(hashes[j])
                         /\ j # k => hashes'[j] = hashes[j]
      /\ \A g \in DOMAIN hashes[k] :
           /\ hashes'[k][g].since = hashes[k][g].since
           /\ hashes'[k][g].val = IF g = h THEN v ELSE hashes[k][g].val
  BY <1>1, <1>2, <1>3, HashFilled
<1>5. [c EXCEPT !.pc = "read"] \in CallState
  BY <1>1 DEF CallState
<1>6. /\ call' \in [Threads -> CallState] /\ call'[t] = [c EXCEPT !.pc = "read"]
      /\ \A u \in Threads \ {t} : call'[u] = call[u]
  BY <1>1, <1>3, <1>5
<1>7. QED
  BY <1>1, <1>2, <1>4, <1>6, Zenon DEF k, h, v

\* Putting a list in the Hash taken for it.
LEMMA StoreKeepsForm ==
  ASSUME Wellformed, NEW t \in Threads, Store(t)
  PROVE  Wellformed' /\ Widens
<1> DEFINE c == call[t]
           d == call'[t]
           k == Key(Last(c.levels).list)
           h == Last(c.levels).hash
<1>1. /\ c.pc = "store" /\ c.levels # <<>> /\ k \in Keys /\ h \in DOMAIN hashes[k]
      /\ hashes' \in [Keys -> Seq(Hash)]
      /\ \A j \in Keys : /\ DOMAIN hashes'[j] = DOMAIN hashes[j]
                         /\ Len(hashes'[j]) = Len(hashes[j])
                         /\ j # k => hashes'[j] = hashes[j]
      /\ \A g \in DOMAIN hashes[k] :
           /\ hashes'[k][g].since = hashes[k][g].since
           /\ hashes'[k][g].val = IF g = h THEN c.val ELSE hashes[k][g].val
      /\ call' \in [Threads -> CallState] /\ call'[t] = [c EXCEPT !.pc = "read"]
      /\ \A u \in Threads \ {t} : call'[u] = call[u]
  BY Storing
<1>2. c \in CallState /\ CallFormed(t) /\ CallChained(t) /\ Proper(c.val)
  BY <1>1, Zenon DEF Wellformed, WellTyped, CallFormed, InBlock
<1>3. c.val # None
  <2>1. None.ref = 0 /\ Len(opened) \in Nat
    BY LenProperties DEF None, Wellformed, WellTyped
  <2>2. QED
    BY <1>2, <2>1 DEF Proper
<1>4. UNCHANGED <<opened, answer>>
  BY DEF Store
<1>5. \A v : Proper(v)' <=> Proper(v)
  BY <1>4, Zenon DEF Proper
<1>6. /\ d.pc = "read" /\ d.levels = c.levels /\ d.val = c.val
  BY <1>1, <1>2 DEF CallState
<1>7. Widens
  <2>1. \A j \in Keys : \A g \in DOMAIN hashes[j] :
          /\ g \in DOMAIN hashes'[j] /\ hashes'[j][g].since = hashes[j][g].since
          /\ hashes[j][g].val # None => hashes'[j][g].val # None
    <3> SUFFICES ASSUME NEW j \in Keys, NEW g \in DOMAIN hashes[j]
                 PROVE  /\ g \in DOMAIN hashes'[j] /\ hashes'[j][g].since = hashes[j][g].since
                        /\ hashes[j][g].val # None => hashes'[j][g].val # None
      OBVIOUS
    <3>1. g \in DOMAIN hashes'[j]
      BY <1>1, Zenon
    <3>2. CASE j # k
      BY <1>1, <3>1, <3>2, Zenon
    <3>3. CASE j = k
      <4>1. /\ hashes'[k][g].since = hashes[k][g].since
            /\ hashes'[k][g].val = IF g = h THEN c.val ELSE hashes[k][g].val
        BY <1>1, <3>3, Zenon
      <4>2. hashes[k][g].val # None => hashes'[k][g].val # None
        BY <1>3, <4>1
      <4>3. QED
        BY <3>1, <3>3, <4>1, <4>2, Zenon
    <3>4. QED
      BY <3>2, <3>3, Zenon
  <2>2. QED
    BY <1>4, <2>1, LenProperties DEF Widens, Wellformed, WellTyped
<1>8. KeptFormed'
  <2> SUFFICES ASSUME NEW j \in Keys, NEW g \in DOMAIN hashes'[j], hashes'[j][g].val # None
               PROVE  Proper(hashes[j][g].val)'
    BY DEF KeptFormed
  <2>1. g \in DOMAIN hashes[j] /\ (hashes'[j][g].val = hashes[j][g].val \/ hashes'[j][g].val = c.val)
    BY <1>1, Zenon
  <2>2. hashes[j][g].val # None => Proper(hashes[j][g].val)
    BY <2>1 DEF KeptFormed, Wellformed
  <2>3. QED
    BY <1>2, <1>5, <2>1, <2>2
<1>9. (answer.val # None => Proper(answer.val))'
  BY <1>4, <1>5 DEF Wellformed
<1>10. WellTyped'
  BY <1>1, Zenon DEF Wellformed, WellTyped, Store, Fixed
<1>11. CallFormed(t)'
  <2>1. \A i \in DOMAIN d.levels : d.levels[i].hash \in DOMAIN hashes'[Key(d.levels[i].list)]
    <3>1. \A i \in DOMAIN c.levels : Key(c.levels[i].list) \in Keys
      BY <1>2, Levels, Zenon
    <3>2. QED
      BY <1>1, <1>2, <1>6, <3>1, ZenonT(40) DEF CallFormed
  <2>2. hashes'[k][h].val # None
    BY <1>1, <1>3
  <2>3. HashOf(Last(call[t].levels))'.val # None
    BY <1>6, <2>2 DEF HashOf
  <2>4. QED
    BY <1>1, <1>2, <1>5, <1>6, <2>1, <2>3, Zenon DEF CallFormed, Reading, InBlock
<1>12. CallChained(t)'
  BY <1>2, <1>6 DEF CallChained
<1>13. QED
  BY <1>1, <1>7, <1>8, <1>9, <1>10, <1>11, <1>12, Together

\* Reading what is in it then.
LEMMA ReadKeepsForm ==
  ASSUME Wellformed, NEW t \in Threads, Read(t)
  PROVE  /\ Wellformed' /\ Widens
         /\ LET v == HashOf(Last(call[t].levels)).val IN
            /\ v \in List /\ Proper(v)
            /\ AnsweredInside(t, v, v # call[t].val) \/ AnsweredOutside(t, v, v # call[t].val)
         /\ \A u \in Threads \ {t} : call'[u] = call[u]
<1> DEFINE c == call[t]
           v == HashOf(Last(c.levels)).val
<1>1. c \in CallState /\ c.pc = "read" /\ c.levels # <<>> /\ v # None
  BY DEF Wellformed, WellTyped, CallFormed, Read
<1>2. v \in List /\ Proper(v)
  BY <1>1, HashTaken
<1>3. Widens /\ KeptFormed'
  BY OnlyCalls, Zenon DEF Read
<1>4. Answers(t, v, v # c.val) /\ UNCHANGED <<opened, hashes>>
  BY Zenon DEF Read, HashOf
<1>5. (v # c.val) \in BOOLEAN
  OBVIOUS
<1> HIDE DEF v
<1>6. /\ call' \in [Threads -> CallState] /\ answer' \in Answer
      /\ (answer.val # None => Proper(answer.val))'
      /\ CallFormed(t)' /\ CallChained(t)'
      /\ \A u \in Threads \ {t} : call'[u] = call[u]
      /\ AnsweredInside(t, v, v # c.val) \/ AnsweredOutside(t, v, v # c.val)
  BY <1>1, <1>2, <1>4, <1>5, Answering
<1>7. WellTyped'
  BY <1>6 DEF Wellformed, WellTyped, Read, Fixed, Answer
<1>8. QED
  BY <1>2, <1>3, <1>6, <1>7, Together, Zenon DEF v

Reflectors == [version: 0..MaxVersion, methods: Fill, properties: Fill]

\* A step that makes no Hash and keeps no list, and changes nothing opened but what is
\* loaded of it.
LEMMA OnlyOpened ==
  ASSUME Wellformed, UNCHANGED hashes, opened' \in Seq(Reflectors), Len(opened) <= Len(opened'),
         \A r \in 1..Len(opened) : opened'[r].version = opened[r].version
  PROVE  /\ Widens /\ KeptFormed'
         /\ \A v \in List : Proper(v) => Proper(v)'
         /\ \A level : HashOf(level)' = HashOf(level)
<1>1. Len(opened) \in Nat /\ Len(opened') \in Nat
  BY LenProperties DEF Wellformed, WellTyped
<1>2. \A v \in List : Proper(v) => Proper(v)'
  BY <1>1 DEF Proper, List
<1>3. \A k \in Keys : \A h \in DOMAIN hashes[k] : hashes[k][h].val \in List
  <2>1. \A k \in Keys : hashes[k] \in Seq(Hash)
    BY DEF Wellformed, WellTyped
  <2>2. \A k \in Keys : \A h \in DOMAIN hashes[k] : hashes[k][h] \in Hash
    BY <2>1, LenProperties, ElementOfSeq
  <2>3. QED
    BY <2>2 DEF Hash
<1>4. KeptFormed'
  BY <1>2, <1>3 DEF KeptFormed, Wellformed
<1>5. QED
  BY <1>2, <1>4 DEF Widens, HashOf

\* A list read from the server.
LEMMA ProperList ==
  ASSUME Wellformed, NEW v \in List, Proper(v)
  PROVE  /\ v.ref \in 1..Len(opened) /\ opened[v.ref] \in Reflectors
         /\ Version(v) \in 0..MaxVersion /\ v # None
<1>1. opened \in Seq(Reflectors) /\ v.ref \in 1..Len(opened) /\ Len(opened) \in Nat
  BY LenProperties DEF Wellformed, WellTyped, Reflectors, Proper
<1>2. opened[v.ref] \in Reflectors
  BY <1>1, ElementOfSeq
<1>3. QED
  BY <1>1, <1>2 DEF Reflectors, Version, None

\* A call that goes on inside its innermost block: the list it works on, and the place
\* it is at.
GoesOn(t, from, to, v) ==
  LET c == call[t]
      d == call'[t]
  IN  /\ c.pc = from /\ d.pc = to /\ d.val = v /\ d.levels = c.levels /\ Same(c, d)
      /\ d.overtaken = c.overtaken
      /\ \A u \in Threads \ {t} : call'[u] = call[u]
      /\ UNCHANGED <<hashes, schema, answer, cleared>>

\* Such a call stays in order.
LEMMA GoingOn ==
  ASSUME Wellformed, NEW t \in Threads, NEW v \in List, v.ref \in 1..Len(opened'),
         NEW from \in {"open", "build", "fill"}, NEW to \in {"fill", "store"}, GoesOn(t, from, to, v),
         to = "fill" => Last(call[t].levels).list \in {"methods", "properties"},
         Widens, KeptFormed', \A w \in List : Proper(w) => Proper(w)', WellTyped'
  PROVE  Wellformed'
<1> DEFINE c == call[t]
           d == call'[t]
<1>1. c \in CallState /\ CallFormed(t) /\ CallChained(t) /\ c.levels # <<>>
  BY DEF Wellformed, WellTyped, CallFormed, GoesOn
<1>2. (answer.val # None => Proper(answer.val))'
  BY DEF GoesOn, Wellformed, WellTyped
<1>3. d.pc \in {"fill", "store"} /\ d.levels = c.levels /\ Proper(call[t].val)'
  BY DEF GoesOn, Proper
<1>4. CallFormed(t)'
  BY <1>1, <1>3 DEF CallFormed, Reading, InBlock, GoesOn
<1>5. CallChained(t)'
  BY <1>1, <1>3 DEF CallChained
<1>6. QED
  BY <1>2, <1>4, <1>5, Together DEF GoesOn

\* Opening a reflector.
LEMMA OpenKeepsForm ==
  ASSUME Wellformed, NEW t \in Threads, Open(t)
  PROVE  /\ Wellformed' /\ Widens
         /\ GoesOn(t, "open", "store", call'[t].val)
         /\ call'[t].val.ref = Len(opened') /\ call'[t].val.of = "reflector" /\ call'[t].val.whole
         /\ opened'[Len(opened')].version = schema
         /\ opened'[Len(opened')].methods = "empty" /\ opened'[Len(opened')].properties = "empty"
         /\ \A r \in 1..Len(opened) : opened'[r] = opened[r]
<1> DEFINE c == call[t]
           e == [version |-> schema, methods |-> "empty", properties |-> "empty"]
           v == [of |-> "reflector", ref |-> Len(opened) + 1, whole |-> TRUE]
           d == [c EXCEPT !.pc = "store", !.val = v]
<1>1. c \in CallState /\ call \in [Threads -> CallState] /\ e \in Reflectors /\ e.version = schema
      /\ e.methods = "empty" /\ e.properties = "empty"
  BY DEF Wellformed, WellTyped, Reflectors, Fill
<1>2. /\ opened' = Append(opened, e) /\ c.pc = "open"
      /\ opened \in Seq(Reflectors)
  BY DEF Open, Wellformed, WellTyped, Reflectors, e
<1> HIDE DEF e
<1>3. /\ opened' \in Seq(Reflectors) /\ Len(opened') = Len(opened) + 1 /\ Len(opened) \in Nat
      /\ \A r \in 1..Len(opened) : opened'[r] = opened[r]
      /\ opened'[Len(opened')] = e
  BY <1>1, <1>2, Grown
<1>4. v \in List /\ v.ref = Len(opened') /\ v.of = "reflector" /\ v.whole
  BY <1>3, ListsAssumption DEF List
<1>5. call' = [call EXCEPT ![t].pc = "store", ![t].val = v]
  BY <1>3 DEF Open
<1> HIDE DEF v
<1>6. d \in CallState /\ call' = [call EXCEPT ![t] = d]
  BY <1>1, <1>4, <1>5 DEF CallState
<1>7. WellTyped'
  BY <1>3, <1>6, ZenonT(40) DEF Wellformed, WellTyped, Open, Fixed, Reflectors
<1>8. /\ Widens /\ KeptFormed'
      /\ \A w \in List : Proper(w) => Proper(w)'
  BY <1>3, OnlyOpened DEF Open
<1>9. v.ref \in 1..Len(opened')
  BY <1>3, <1>4
<1>10. GoesOn(t, "open", "store", v)
  <2>1. /\ call[t].pc = "open" /\ d.pc = "store" /\ d.val = v /\ d.levels = call[t].levels
        /\ Same(call[t], d) /\ d.overtaken = call[t].overtaken
    BY <1>1, <1>2 DEF Same, CallState
  <2>2. call'[t] = d /\ \A u \in Threads \ {t} : call'[u] = call[u]
    BY <1>6 DEF Wellformed, WellTyped
  <2>3. UNCHANGED <<hashes, schema, answer, cleared>>
    BY DEF Open
  <2> HIDE DEF d
  <2>4. QED
    BY <2>1, <2>2, <2>3, Zenon DEF GoesOn
<1>11. Wellformed'
  BY <1>4, <1>7, <1>8, <1>9, <1>10, GoingOn
<1>12. QED
  BY <1>1, <1>3, <1>4, <1>8, <1>10, <1>11 DEF GoesOn, Version

\* What is loaded of a reflector.
Loads(r, l, x) == opened' = [opened EXCEPT ![r][l] = x]

\* Loading changes nothing else of the reflectors.
LEMMA Loading ==
  ASSUME Wellformed, NEW r \in 1..Len(opened), NEW l \in {"methods", "properties"}, NEW x \in Fill,
         Loads(r, l, x)
  PROVE  /\ opened' \in Seq(Reflectors) /\ Len(opened') = Len(opened)
         /\ \A q \in 1..Len(opened) : /\ opened'[q].version = opened[q].version
                                      /\ q # r => opened'[q] = opened[q]
         /\ \A m \in {"methods", "properties"} :
              opened'[r][m] = IF m = l THEN x ELSE opened[r][m]
<1>1. opened \in Seq(Reflectors) /\ opened[r] \in Reflectors
  BY ElementOfSeq DEF Wellformed, WellTyped, Reflectors
<1> DEFINE e == [opened[r] EXCEPT ![l] = x]
<1>2. /\ e \in Reflectors /\ e.version = opened[r].version
      /\ \A m \in {"methods", "properties"} : e[m] = IF m = l THEN x ELSE opened[r][m]
  <2>1. CASE l = "methods"
    BY <1>1, <2>1 DEF Reflectors
  <2>2. CASE l = "properties"
    BY <1>1, <2>2 DEF Reflectors
  <2>3. QED
    BY <2>1, <2>2
<1>3. opened' = [opened EXCEPT ![r] = e]
  BY DEF Loads
<1> HIDE DEF e
<1>4. /\ [opened EXCEPT ![r] = e] \in Seq(Reflectors)
      /\ Len([opened EXCEPT ![r] = e]) = Len(opened)
      /\ \A q \in 1..Len(opened) : [opened EXCEPT ![r] = e][q] = IF q = r THEN e ELSE opened[q]
  BY <1>1, <1>2, ExceptSeq
<1>5. QED
  BY <1>2, <1>3, <1>4

\* Beginning to load a relationship.
LEMMA BeginFillKeepsForm ==
  ASSUME Wellformed, NEW t \in Threads, BeginFill(t)
  PROVE  /\ Wellformed' /\ Widens
         /\ GoesOn(t, "build", "fill", call[t].val) /\ Len(opened') = Len(opened)
<1> DEFINE c == call[t]
           l == Last(c.levels).list
           r == c.val.ref
           x == IF opened[r][l] = "empty" THEN "filling" ELSE "refilling"
           d == [c EXCEPT !.pc = "fill"]
<1>1. c \in CallState /\ call \in [Threads -> CallState] /\ c.val \in List /\ CallFormed(t)
  BY DEF Wellformed, WellTyped, CallState
<1>2. c.pc = "build" /\ Proper(c.val) /\ r \in 1..Len(opened) /\ l \in {"methods", "properties"}
  BY <1>1 DEF BeginFill, CallFormed, InBlock, Proper
<1>3. Loads(r, l, x) /\ x \in Fill
  BY DEF BeginFill, Loads, Fill
<1>4. UNCHANGED <<schema, hashes, faults, asks, clearings, cleared, answer, crew, emptyName>>
  BY DEF BeginFill, Fixed
<1>5. call' = [call EXCEPT ![t] = d] /\ d \in CallState
  BY <1>1 DEF BeginFill, CallState
<1> HIDE DEF l, r, x
<1>6. /\ opened' \in Seq(Reflectors) /\ Len(opened') = Len(opened) /\ Len(opened) \in Nat
      /\ \A q \in 1..Len(opened) : opened'[q].version = opened[q].version
  BY <1>2, <1>3, Loading, LenProperties DEF Wellformed, WellTyped
<1>7. /\ Widens /\ KeptFormed'
      /\ \A w \in List : Proper(w) => Proper(w)'
  BY <1>6, <1>4, OnlyOpened
<1>8. WellTyped'
  BY <1>5, <1>6, <1>4 DEF Wellformed, WellTyped, Reflectors
<1>9. GoesOn(t, "build", "fill", c.val)
  BY <1>1, <1>2, <1>5, <1>4 DEF GoesOn, Same, CallState
<1>10. c.val.ref \in 1..Len(opened')
  BY <1>2, <1>6 DEF r
<1>11. Last(call[t].levels).list \in {"methods", "properties"}
  BY <1>2 DEF l
<1>12. Wellformed'
  BY <1>1, <1>7, <1>8, <1>9, <1>10, <1>11, GoingOn
<1>13. QED
  BY <1>6, <1>7, <1>9, <1>12

\* Loading its last element.
LEMMA EndFillKeepsForm ==
  ASSUME Wellformed, NEW t \in Threads, EndFill(t)
  PROVE  /\ Wellformed' /\ Widens
         /\ GoesOn(t, "fill", "store", [of |-> Last(call[t].levels).list, ref |-> call[t].val.ref,
                                        whole |-> TRUE])
         /\ Len(opened') = Len(opened)
<1> DEFINE c == call[t]
           l == Last(c.levels).list
           r == c.val.ref
           x == IF opened[r][l] \in {"filling", "whole"} THEN "whole" ELSE "spoiled"
           v == [of |-> l, ref |-> r, whole |-> TRUE]
           d == [c EXCEPT !.pc = "store", !.val = v]
<1>1. c \in CallState /\ call \in [Threads -> CallState] /\ c.val \in List /\ CallFormed(t) /\ c.levels # <<>>
  BY DEF Wellformed, WellTyped, CallState, CallFormed, EndFill
<1>2. /\ c.pc = "fill" /\ Proper(c.val) /\ r \in 1..Len(opened) /\ l \in {"methods", "properties"}
      /\ l \in Lists
  BY <1>1, Levels DEF EndFill, CallFormed, InBlock, Proper
<1>3. Loads(r, l, x) /\ x \in Fill
  BY DEF EndFill, Loads, Fill
<1>4. UNCHANGED <<schema, hashes, faults, asks, clearings, cleared, answer, crew, emptyName>>
  BY DEF EndFill, Fixed
<1>5. v \in List /\ v.ref = r
  BY <1>1, <1>2 DEF List
<1>6. call' = [call EXCEPT ![t].pc = "store", ![t].val = v]
  BY DEF EndFill
<1> HIDE DEF l, r, x, v
<1>7. call' = [call EXCEPT ![t] = d] /\ d \in CallState
  BY <1>1, <1>5, <1>6 DEF CallState
<1>8. /\ opened' \in Seq(Reflectors) /\ Len(opened') = Len(opened) /\ Len(opened) \in Nat
      /\ \A q \in 1..Len(opened) : opened'[q].version = opened[q].version
  BY <1>2, <1>3, Loading, LenProperties DEF Wellformed, WellTyped
<1>9. /\ Widens /\ KeptFormed'
      /\ \A w \in List : Proper(w) => Proper(w)'
  BY <1>8, <1>4, OnlyOpened
<1>10. WellTyped'
  BY <1>7, <1>8, <1>4 DEF Wellformed, WellTyped, Reflectors
<1>11. GoesOn(t, "fill", "store", v)
  BY <1>1, <1>2, <1>7, <1>4 DEF GoesOn, Same, CallState
<1>12. v.ref \in 1..Len(opened')
  BY <1>2, <1>5, <1>8
<1>13. Wellformed'
  BY <1>5, <1>9, <1>10, <1>11, <1>12, GoingOn
<1>14. QED
  BY <1>8, <1>9, <1>11, <1>13 DEF v, l, r

\* Making a list from the one inside.
LEMMA BuildKeepsForm ==
  ASSUME Wellformed, NEW t \in Threads, Build(t)
  PROVE  /\ Wellformed' /\ Widens
         /\ GoesOn(t, "build", "store", call'[t].val)
         /\ call'[t].val.ref = call[t].val.ref /\ call'[t].val.whole = Whole(call[t].val)
         /\ call[t].val.of = Source[Last(call[t].levels).list] =>
              call'[t].val.of = Last(call[t].levels).list
         /\ opened' = opened
<1> DEFINE c == call[t]
           l == Last(c.levels).list
           r == c.val.ref
           o == IF c.val.of # Source[l] THEN c.val.of ELSE l
           w == Whole(c.val)
           v == [of |-> o, ref |-> r, whole |-> w]
           d == [c EXCEPT !.pc = "store", !.val = v]
<1>1. c \in CallState /\ call \in [Threads -> CallState] /\ c.val \in List /\ CallFormed(t) /\ c.levels # <<>>
  BY DEF Wellformed, WellTyped, CallState, CallFormed, Build
<1>2. c.pc = "build" /\ Proper(c.val) /\ l \in Lists
  BY <1>1, Levels DEF Build, CallFormed, InBlock
<1>3. o \in Lists /\ r \in Nat /\ w \in BOOLEAN
  BY <1>1, <1>2 DEF Whole, List
<1>4. call' = [call EXCEPT ![t].pc = "store", ![t].val = v]
  BY DEF Build
<1> HIDE DEF o, w, r
<1>5. v \in List /\ v.ref = r /\ v.of = o /\ v.whole = w
  BY <1>3 DEF List
<1> HIDE DEF v, l
<1>6. call' = [call EXCEPT ![t] = d] /\ d \in CallState
  BY <1>1, <1>4, <1>5 DEF CallState
<1>7. UNCHANGED <<schema, opened, hashes, faults, asks, clearings, cleared, answer, crew, emptyName>>
  BY DEF Build, Fixed
<1>8. /\ Widens /\ KeptFormed'
      /\ \A z : Proper(z)' <=> Proper(z)
  BY <1>7, OnlyCalls
<1>9. WellTyped'
  BY <1>6, <1>7 DEF Wellformed, WellTyped
<1>10. GoesOn(t, "build", "store", v)
  BY <1>1, <1>2, <1>6, <1>7 DEF GoesOn, Same, CallState
<1>11. v.ref \in 1..Len(opened')
  BY <1>2, <1>5, <1>7 DEF r, Proper
<1>12. Wellformed'
  BY <1>5, <1>8, <1>9, <1>10, <1>11, GoingOn
<1>13. QED
  BY <1>5, <1>7, <1>8, <1>10, <1>12 DEF GoesOn, v, l, r, o, w

\* A call that begins or ends outside every block.
LEMMA OutsideBlocks ==
  ASSUME Wellformed, NEW t \in Threads, NEW d \in CallState, d.levels = <<>>,
         d.pc \in {"idle", "take", "clear"}, call' = [call EXCEPT ![t] = d],
         UNCHANGED <<opened, hashes>>, answer' = answer \/ answer' = NoAnswer,
         schema' \in 0..MaxVersion, faults' \in Nat, asks' \in Nat, clearings' \in Nat,
         cleared' \in 0..MaxVersion, Fixed
  PROVE  /\ Wellformed' /\ Widens /\ call'[t] = d
         /\ \A u \in Threads \ {t} : call'[u] = call[u]
<1>1. call'[t] = d /\ \A u \in Threads \ {t} : call'[u] = call[u]
  BY DEF Wellformed, WellTyped
<1>2. Widens /\ KeptFormed' /\ \A v : Proper(v)' <=> Proper(v)
  BY OnlyCalls
<1>3. NoAnswer \in Answer /\ NoAnswer.val = None
  BY ListsAssumption, VersionAssumption DEF NoAnswer, Answer, None, List
<1>4. answer' \in Answer /\ (answer.val # None => Proper(answer.val))'
  BY <1>2, <1>3 DEF Wellformed, WellTyped, Answer
<1>5. WellTyped'
  BY <1>4 DEF Wellformed, WellTyped, Fixed, Answer
<1>6. CallFormed(t)' /\ CallChained(t)'
  BY <1>1 DEF CallFormed, CallChained, InBlock
<1>7. QED
  BY <1>1, <1>2, <1>4, <1>5, <1>6, Together

\* Asking for a list.
LEMMA AskKeepsForm ==
  ASSUME Wellformed, NEW t \in Threads, NEW l \in Lists, NEW forced \in BOOLEAN, Ask(t, l, forced)
  PROVE  /\ Wellformed' /\ Widens
         /\ LET d == call'[t] IN
            /\ d.pc = "take" /\ d.want = l /\ d.forced = forced /\ d.levels = <<>> /\ ~d.overtaken
            /\ d.since = IF forced THEN schema ELSE 0
         /\ \A u \in Threads \ {t} : call'[u] = call[u]
<1> DEFINE d == [Idle EXCEPT !.pc = "take", !.want = l, !.forced = forced,
                             !.since = IF forced THEN schema ELSE 0]
<1>1. call[t] \in CallState /\ schema \in 0..MaxVersion /\ asks \in Nat
  BY DEF Wellformed, WellTyped
<1>2. Idle \in CallState
  BY ListsAssumption, VersionAssumption, EmptySeq DEF Idle, CallState, None, List
<1>3. /\ d \in CallState /\ d.pc = "take" /\ d.want = l /\ d.forced = forced /\ d.levels = <<>>
      /\ ~d.overtaken /\ d.since = IF forced THEN schema ELSE 0
  BY <1>1, <1>2, VersionAssumption DEF CallState, Idle
<1>4. /\ call' = [call EXCEPT ![t] = d] /\ asks' = asks + 1 /\ answer' = NoAnswer
      /\ UNCHANGED <<schema, opened, hashes, faults, clearings, cleared>> /\ Fixed
  BY DEF Ask
<1> HIDE DEF d
<1>5. Wellformed' /\ Widens /\ call'[t] = d /\ \A u \in Threads \ {t} : call'[u] = call[u]
  <2>1. schema' \in 0..MaxVersion /\ faults' \in Nat /\ asks' \in Nat /\ clearings' \in Nat
        /\ cleared' \in 0..MaxVersion
    BY <1>1, <1>4 DEF Wellformed, WellTyped
  <2>2. QED
    BY <1>3, <1>4, <2>1, OutsideBlocks
<1>6. QED
  BY <1>3, <1>5

\* An exception.
LEMMA FailsKeepsForm ==
  ASSUME Wellformed, NEW t \in Threads, Fails(t)
  PROVE  Wellformed' /\ Widens /\ call'[t] = Idle /\ \A u \in Threads \ {t} : call'[u] = call[u]
<1>1. Idle \in CallState /\ Idle.levels = <<>> /\ Idle.pc = "idle"
  BY ListsAssumption, VersionAssumption, EmptySeq DEF Idle, CallState, None, List
<1>2. call' = [call EXCEPT ![t] = Idle]
  BY DEF Fails
<1>3. faults' \in Nat
  <2>1. faults \in Nat
    BY DEF Wellformed, WellTyped
  <2>2. faults' = faults + 1 \/ faults' = faults
    BY DEF Fails
  <2>3. QED
    BY <2>1, <2>2
<1>4. QED
  BY <1>1, <1>2, <1>3, OutsideBlocks DEF Fails, Wellformed, WellTyped

\* Beginning to clear the names.
LEMMA BeginClearKeepsForm ==
  ASSUME Wellformed, NEW t \in Threads, BeginClear(t)
  PROVE  /\ Wellformed' /\ Widens
         /\ LET d == call'[t] IN
            d.pc = "clear" /\ d.since = schema /\ d.todo = Cleared /\ d.levels = <<>>
         /\ \A u \in Threads \ {t} : call'[u] = call[u]
<1> DEFINE d == [Idle EXCEPT !.pc = "clear", !.since = schema, !.todo = Cleared]
<1>1. schema \in 0..MaxVersion /\ clearings \in Nat
  BY DEF Wellformed, WellTyped
<1>2. Idle \in CallState
  BY ListsAssumption, VersionAssumption, EmptySeq DEF Idle, CallState, None, List
<1>3. d \in CallState /\ d.pc = "clear" /\ d.since = schema /\ d.todo = Cleared /\ d.levels = <<>>
  BY <1>1, <1>2 DEF CallState, Idle
<1>4. call' = [call EXCEPT ![t] = d] /\ clearings' \in Nat
  BY <1>1 DEF BeginClear
<1> HIDE DEF d
<1>5. Wellformed' /\ Widens /\ call'[t] = d /\ \A u \in Threads \ {t} : call'[u] = call[u]
  BY <1>1, <1>3, <1>4, OutsideBlocks, ZenonT(30) DEF BeginClear, Wellformed, WellTyped
<1>6. QED
  BY <1>3, <1>5

\* What clearing one name does.
LEMMA Clearing ==
  ASSUME Wellformed, NEW t \in Threads, call[t].pc = "clear", NEW k \in call[t].todo, Clears(t, k)
  PROVE  LET c == call[t]
             d == call'[t]
             s == Later(c.since, Floor(k))
         IN  /\ k \in Cleared /\ k \in Keys /\ s \in 0..MaxVersion
             /\ hashes' \in [Keys -> Seq(Hash)]
             /\ \A j \in Keys : j # k => hashes'[j] = hashes[j]
             /\ Len(hashes[k]) \in Nat /\ DOMAIN hashes[k] = 1..Len(hashes[k])
             /\ hashes'[k] # <<>> /\ Len(hashes'[k]) = Len(hashes[k]) + 1
             /\ DOMAIN hashes'[k] = 1..(Len(hashes[k]) + 1)
             /\ \A h \in DOMAIN hashes[k] : hashes'[k][h] = hashes[k][h]
             /\ hashes'[k][Len(hashes[k]) + 1].val = None
             /\ hashes'[k][Len(hashes[k]) + 1].since = s
             /\ \A u \in Threads \ {t} : call'[u] = call[u]
             /\ \/ c.todo = {k} /\ d = Idle /\ cleared' = Later(c.since, cleared)
                \/ /\ c.todo # {k} /\ cleared' = cleared
                   /\ d.pc = "clear" /\ d.since = c.since /\ d.todo = c.todo \ {k} /\ d.levels = <<>>
             /\ call' \in [Threads -> CallState]
<1> DEFINE c == call[t]
           s == Later(c.since, Floor(k))
           e == [c EXCEPT !.todo = @ \ {k}]
<1>1. c \in CallState /\ CallFormed(t) /\ call \in [Threads -> CallState]
  BY DEF Wellformed, WellTyped
<1>2. c.since \in 0..MaxVersion /\ k \in Cleared /\ k \in Keys
  BY <1>1 DEF CallState, Cleared
<1>3. s \in 0..MaxVersion
  BY <1>2, NamesTyped DEF Later, Wellformed
<1>4. c.levels = <<>>
  BY <1>1 DEF CallFormed, Reading, InBlock
<1>5. /\ hashes' = [hashes EXCEPT ![k] = Append(@, [val |-> None, since |-> s])]
      /\ call' = [call EXCEPT ![t] = IF c.todo = {k} THEN Idle ELSE e]
      /\ cleared' = IF c.todo = {k} THEN Later(c.since, cleared) ELSE cleared
  BY DEF Clears
<1> HIDE DEF s
<1>6. /\ hashes' \in [Keys -> Seq(Hash)]
      /\ \A j \in Keys : j # k => hashes'[j] = hashes[j]
      /\ Len(hashes[k]) \in Nat /\ DOMAIN hashes[k] = 1..Len(hashes[k])
      /\ hashes'[k] # <<>> /\ Len(hashes'[k]) = Len(hashes[k]) + 1
      /\ DOMAIN hashes'[k] = 1..(Len(hashes[k]) + 1)
      /\ \A h \in DOMAIN hashes[k] : hashes'[k][h] = hashes[k][h]
      /\ hashes'[k][Len(hashes[k]) + 1].val = None
      /\ hashes'[k][Len(hashes[k]) + 1].since = s
  BY <1>2, <1>3, <1>5, HashMade DEF Wellformed, WellTyped
<1>7. /\ e \in CallState /\ e.pc = "clear" /\ e.since = c.since /\ e.todo = c.todo \ {k}
      /\ e.levels = <<>>
  BY <1>1, <1>4 DEF CallState
<1>8. Idle \in CallState
  BY ListsAssumption, VersionAssumption, EmptySeq DEF Idle, CallState, None, List
<1> HIDE DEF e
<1>9. /\ call' \in [Threads -> CallState] /\ \A u \in Threads \ {t} : call'[u] = call[u]
      /\ call'[t] = IF c.todo = {k} THEN Idle ELSE e
  BY <1>1, <1>5, <1>7, <1>8
<1>10. QED
  BY <1>2, <1>3, <1>5, <1>6, <1>7, <1>9 DEF s

\* Clearing one name.
LEMMA ClearKeepsForm ==
  ASSUME Wellformed, NEW t \in Threads, Clear(t)
  PROVE  Wellformed' /\ Widens
<1>1. PICK k \in call[t].todo : Clears(t, k)
  BY DEF Clear
<1> DEFINE c == call[t]
           d == call'[t]
<1>2. c.pc = "clear"
  BY DEF Clear
<1>3. /\ k \in Cleared /\ k \in Keys
      /\ hashes' \in [Keys -> Seq(Hash)]
      /\ \A j \in Keys : j # k => hashes'[j] = hashes[j]
      /\ Len(hashes[k]) \in Nat /\ DOMAIN hashes[k] = 1..Len(hashes[k])
      /\ DOMAIN hashes'[k] = 1..(Len(hashes[k]) + 1)
      /\ \A h \in DOMAIN hashes[k] : hashes'[k][h] = hashes[k][h]
      /\ hashes'[k][Len(hashes[k]) + 1].val = None
      /\ \A u \in Threads \ {t} : call'[u] = call[u]
      /\ d = Idle \/ (d.pc = "clear" /\ d.levels = <<>>)
      /\ cleared' = Later(c.since, cleared) \/ cleared' = cleared
      /\ call' \in [Threads -> CallState]
  BY <1>1, <1>2, Clearing
<1>4. UNCHANGED <<schema, opened, faults, asks, clearings, answer, crew, emptyName>>
  BY <1>1 DEF Clears, Fixed
<1>5. Widens
  <2>1. \A j \in Keys : \A h \in DOMAIN hashes[j] :
          /\ h \in DOMAIN hashes'[j] /\ hashes'[j][h].since = hashes[j][h].since
          /\ hashes[j][h].val # None => hashes'[j][h].val # None
    BY <1>3, SMTT(30)
  <2>2. QED
    BY <1>4, <2>1, LenProperties DEF Widens, Wellformed, WellTyped
<1>6. \A v : Proper(v)' <=> Proper(v)
  BY <1>4 DEF Proper
<1>7. KeptFormed'
  <2> SUFFICES ASSUME NEW j \in Keys, NEW h \in DOMAIN hashes'[j], hashes'[j][h].val # None
               PROVE  Proper(hashes[j][h].val)'
    BY DEF KeptFormed
  <2>1. h \in DOMAIN hashes[j] /\ hashes'[j][h] = hashes[j][h]
    <3>1. CASE j = k
      <4>1. h # Len(hashes[k]) + 1
        BY <1>3, <3>1
      <4>2. h \in 1..Len(hashes[k])
        BY <1>3, <3>1, <4>1
      <4>3. QED
        BY <1>3, <3>1, <4>2
    <3>2. CASE j # k
      BY <1>3, <3>2
    <3>3. QED
      BY <3>1, <3>2
  <2>2. Proper(hashes[j][h].val)
    BY <2>1 DEF KeptFormed, Wellformed
  <2>3. QED
    BY <1>6, <2>1, <2>2
<1>8. (answer.val # None => Proper(answer.val))'
  BY <1>4, <1>6 DEF Wellformed
<1>9. cleared' \in 0..MaxVersion
  <2>1. c \in CallState /\ c.since \in 0..MaxVersion /\ cleared \in 0..MaxVersion
    BY DEF Wellformed, WellTyped, CallState
  <2>2. QED
    BY <1>3, <2>1 DEF Later
<1>10. WellTyped'
  BY <1>3, <1>4, <1>9 DEF Wellformed, WellTyped
<1>11. CallFormed(t)' /\ CallChained(t)'
  <2>1. Idle.levels = <<>> /\ Idle.pc = "idle"
    BY DEF Idle
  <2>2. d.levels = <<>> /\ d.pc \in {"idle", "clear"}
    BY <1>3, <2>1
  <2>3. QED
    BY <2>2 DEF CallFormed, CallChained, InBlock
<1>12. QED
  BY <1>3, <1>5, <1>7, <1>8, <1>10, <1>11, Together

\* Compiling the class.
LEMMA CompileKeepsForm ==
  ASSUME Wellformed, Compile
  PROVE  Wellformed' /\ Widens
<1>1. UNCHANGED <<opened, hashes, call, answer>>
  BY DEF Compile
<1>2. Widens /\ KeptFormed' /\ (\A v : Proper(v)' <=> Proper(v))
      /\ \A level : HashOf(level)' = HashOf(level)
  BY <1>1, OnlyCalls
<1>3. WellTyped'
  <2>1. schema' \in 0..MaxVersion
    BY VersionAssumption DEF Compile, Wellformed, WellTyped
  <2>2. QED
    BY <2>1 DEF Compile, Wellformed, WellTyped, Fixed
<1>4. \A t \in Threads : CallFormed(t)' /\ CallChained(t)'
  BY <1>1, <1>2 DEF Wellformed, CallFormed, CallChained, HashOf, Proper
<1>5. QED
  BY <1>1, <1>2, <1>3, <1>4 DEF Wellformed

\* Every step keeps the metadata in order.
LEMMA StepsKeepForm ==
  ASSUME Wellformed, [Next]_vars
  PROVE  Wellformed' /\ Widens
<1>1. crew \subseteq Threads
  BY DEF Wellformed, WellTyped
<1>2. CASE UNCHANGED vars
  <2>1. UNCHANGED <<opened, hashes>>
    BY <1>2 DEF vars
  <2>2. Widens
    BY <2>1, OnlyCalls, Zenon
  <2>3. Wellformed'
    BY <1>2, ZenonT(40) DEF vars, Wellformed, WellTyped, KeptFormed, Proper, CallFormed, CallChained, HashOf
  <2>4. QED
    BY <2>2, <2>3
<1>3. CASE Next
  BY <1>1, <1>3, AskKeepsForm, TakeKeepsForm, MakeKeepsForm, TestKeepsForm, OpenKeepsForm,
     BeginFillKeepsForm, EndFillKeepsForm, BuildKeepsForm, StoreKeepsForm, ReadKeepsForm,
     FailsKeepsForm, BeginClearKeepsForm, ClearKeepsForm, CompileKeepsForm DEF Next
<1>4. QED
  BY <1>2, <1>3

\* At first no name has a Hash.
LEMMA FormedAtFirst == Init => Wellformed
<1> SUFFICES ASSUME Init PROVE Wellformed
  OBVIOUS
<1>1. None \in List /\ Idle \in CallState /\ Idle.levels = <<>> /\ Idle.pc = "idle"
  BY ListsAssumption, VersionAssumption, EmptySeq DEF Idle, CallState, None, List
<1>2. NoAnswer \in Answer /\ NoAnswer.val = None
  BY <1>1, ListsAssumption, VersionAssumption DEF NoAnswer, Answer
<1>3. WellTyped
  BY <1>1, <1>2, VersionAssumption, EmptySeq DEF Init, WellTyped, Answer
<1>4. KeptFormed
  <2>1. \A k \in Keys : hashes[k] = <<>> /\ DOMAIN hashes[k] = {}
    BY DEF Init
  <2>2. QED
    BY <2>1 DEF KeptFormed
<1>5. \A t \in Threads : CallFormed(t) /\ CallChained(t)
  <2>1. \A t \in Threads : call[t] = Idle
    BY DEF Init
  <2>2. QED
    BY <1>1, <2>1 DEF CallFormed, CallChained, InBlock, Reading
<1>6. QED
  BY <1>2, <1>3, <1>4, <1>5 DEF Wellformed, Init

\* The metadata stays in order.
LEMMA MetadataWellformed == Spec => []Wellformed
<1>1. Init => Wellformed
  BY FormedAtFirst
<1>2. Wellformed /\ [Next]_vars => Wellformed'
  BY StepsKeepForm
<1>3. QED
  BY <1>1, <1>2, PTL DEF Spec

\* The Hashes, the calls of the threads and what they read keep their types.
THEOREM MetadataTypeCorrect == Spec => []TypeOK
<1>1. Wellformed => TypeOK
  <2> SUFFICES ASSUME Wellformed PROVE TypeOK
    OBVIOUS
  <2>1. \A k \in Keys : \A h \in DOMAIN hashes[k] : hashes[k][h].val.ref <= Len(opened)
    <3> SUFFICES ASSUME NEW k \in Keys, NEW h \in DOMAIN hashes[k]
                 PROVE  hashes[k][h].val.ref <= Len(opened)
      OBVIOUS
    <3>1. Len(opened) \in Nat
      BY LenProperties DEF Wellformed, WellTyped
    <3>2. CASE hashes[k][h].val = None
      BY <3>1, <3>2 DEF None
    <3>3. CASE hashes[k][h].val # None
      BY <3>1, <3>3 DEF Wellformed, KeptFormed, Proper
    <3>4. QED
      BY <3>2, <3>3
  <2>2. QED
    BY <2>1 DEF TypeOK, Wellformed, WellTyped, CallState, Level, CallFormed
<1>2. QED
  BY <1>1, MetadataWellformed, PTL

\* A call that is given a Hash for the list it wants.
Enters(t, h) ==
  LET c == call[t]
      d == call'[t]
  IN  /\ Same(c, d) /\ d.val = c.val /\ d.overtaken = c.overtaken
      /\ d.levels = Append(c.levels, [list |-> c.want, hash |-> h])
      /\ \/ ~c.forced /\ d.pc = "test"
         \/ c.forced /\ Evaluating(c.want, d)

\* A call that goes to make one.
Waits(t) ==
  LET c == call[t]
      d == call'[t]
  IN  /\ Same(c, d) /\ d.pc = "make" /\ d.want = c.want /\ d.val = c.val
      /\ d.overtaken = c.overtaken /\ d.levels = c.levels

\* A call that took a Hash has entered its list.
LEMMA Entering ==
  ASSUME NEW t \in Threads, call[t] \in CallState, NEW h \in Nat, call'[t] = Took(call[t], h)
  PROVE  Enters(t, h)
<1>1. PICK c \in CallState : c = call[t]
  OBVIOUS
<1>2. PICK d : d = call'[t]
  OBVIOUS
<1>3. d = Took(c, h)
  BY <1>1, <1>2
<1>4. /\ Same(c, d) /\ d.val = c.val /\ d.overtaken = c.overtaken
      /\ d.levels = Append(c.levels, [list |-> c.want, hash |-> h])
      /\ \/ ~c.forced /\ d.pc = "test"
         \/ c.forced /\ Evaluating(c.want, d)
  BY <1>3, Entry, Zenon
<1>5. QED
  BY <1>1, <1>2, <1>4, Zenon DEF Enters

\* What taking a Hash does to a call.
LEMMA Taking ==
  ASSUME Wellformed, NEW t \in Threads, Take(t)
  PROVE  LET c == call[t]
             k == Key(c.want)
         IN  /\ c.pc = "take" /\ c.want \in Lists /\ k \in Keys
             /\ \/ hashes[k] = <<>> /\ Waits(t)
                \/ /\ hashes[k] # <<>> /\ Enters(t, Len(hashes[k]))
                   /\ Len(hashes[k]) \in DOMAIN hashes[k]
             /\ \A u \in Threads \ {t} : call'[u] = call[u]
             /\ UNCHANGED <<schema, opened, hashes, answer, cleared>>
<1> DEFINE c == call[t]
           k == Key(c.want)
<1>1. c \in CallState /\ c.want \in Lists /\ k \in Keys /\ hashes[k] \in Seq(Hash)
  BY DEF Wellformed, WellTyped, CallState, Keys
<1>2. /\ c.pc = "take" /\ UNCHANGED <<schema, opened, hashes, answer, cleared>>
      /\ call' = [call EXCEPT ![t] = IF hashes[k] = <<>> THEN [c EXCEPT !.pc = "make"]
                                     ELSE Took(c, Len(hashes[k]))]
  BY DEF Take
<1>3. /\ call'[t] = IF hashes[k] = <<>> THEN [c EXCEPT !.pc = "make"] ELSE Took(c, Len(hashes[k]))
      /\ \A u \in Threads \ {t} : call'[u] = call[u]
  BY <1>2 DEF Wellformed, WellTyped
<1>4. CASE hashes[k] = <<>>
  <2>1. call'[t] = [c EXCEPT !.pc = "make"]
    BY <1>3, <1>4
  <2>2. Waits(t)
    BY <1>1, <2>1 DEF Waits, Same, CallState
  <2>3. QED
    BY <1>1, <1>2, <1>3, <1>4, <2>2
<1>5. CASE hashes[k] # <<>>
  <2>1. Len(hashes[k]) \in Nat /\ Len(hashes[k]) \in DOMAIN hashes[k]
    BY <1>1, <1>5, FrontAndLast
  <2>2. Enters(t, Len(hashes[k]))
    BY <1>1, <1>3, <1>5, <2>1, Entering
  <2>3. QED
    BY <1>1, <1>2, <1>3, <1>5, <2>1, <2>2
<1>6. QED
  BY <1>4, <1>5

\* What making one does.
LEMMA Making ==
  ASSUME Wellformed, NEW t \in Threads, Make(t)
  PROVE  LET c == call[t]
             k == Key(c.want)
         IN  /\ c.pc = "make" /\ c.want \in Lists /\ k \in Keys /\ Enters(t, Len(hashes[k]) + 1)
             /\ \A u \in Threads \ {t} : call'[u] = call[u]
             /\ UNCHANGED <<schema, opened, answer, cleared>>
             /\ hashes' \in [Keys -> Seq(Hash)]
             /\ \A j \in Keys : j # k => hashes'[j] = hashes[j]
             /\ Len(hashes[k]) \in Nat /\ DOMAIN hashes[k] = 1..Len(hashes[k])
             /\ hashes'[k] # <<>> /\ Len(hashes'[k]) = Len(hashes[k]) + 1
             /\ DOMAIN hashes'[k] = 1..(Len(hashes[k]) + 1)
             /\ \A h \in DOMAIN hashes[k] : hashes'[k][h] = hashes[k][h]
             /\ hashes'[k][Len(hashes[k]) + 1].val = None
             /\ hashes'[k][Len(hashes[k]) + 1].since = Floor(k)
<1> DEFINE c == call[t]
           k == Key(c.want)
<1>1. c \in CallState /\ c.want \in Lists /\ k \in Keys
  BY Zenon DEF Wellformed, WellTyped, CallState, Keys
<1>2. /\ c.pc = "make" /\ UNCHANGED <<schema, opened, answer, cleared>>
      /\ call' = [call EXCEPT ![t] = Took(c, Len(hashes'[k]))]
      /\ hashes' = [hashes EXCEPT ![k] = Append(@, [val |-> None, since |-> Floor(k)])]
  BY DEF Make
<1>3. Floor(k) \in 0..MaxVersion
  BY <1>1, NamesTyped DEF Wellformed
<1>4. /\ hashes' \in [Keys -> Seq(Hash)]
      /\ \A j \in Keys : j # k => hashes'[j] = hashes[j]
      /\ Len(hashes[k]) \in Nat /\ DOMAIN hashes[k] = 1..Len(hashes[k])
      /\ hashes'[k] # <<>> /\ Len(hashes'[k]) = Len(hashes[k]) + 1
      /\ DOMAIN hashes'[k] = 1..(Len(hashes[k]) + 1)
      /\ \A h \in DOMAIN hashes[k] : hashes'[k][h] = hashes[k][h]
      /\ hashes'[k][Len(hashes[k]) + 1].val = None
      /\ hashes'[k][Len(hashes[k]) + 1].since = Floor(k)
  BY <1>1, <1>2, <1>3, HashMade, ZenonT(30) DEF Wellformed, WellTyped
<1>5. call'[t] = Took(c, Len(hashes[k]) + 1) /\ \A u \in Threads \ {t} : call'[u] = call[u]
  BY <1>2, <1>4 DEF Wellformed, WellTyped
<1>6. Enters(t, Len(hashes[k]) + 1)
  <2>1. Len(hashes[k]) + 1 \in Nat
    BY <1>4
  <2>2. QED
    BY <1>1, <1>5, <2>1, Entering
<1>7. QED
  BY <1>1, <1>2, <1>4, <1>5, <1>6

\* What was read from the server once stays of the version it was.
LEMMA VersionsStay ==
  ASSUME Wellformed, Widens
  PROVE  \A v \in List : Proper(v) => Proper(v)' /\ Version(v)' = Version(v)
<1>1. Len(opened) \in Nat /\ Len(opened') \in Int
  BY LenProperties DEF Wellformed, WellTyped
<1>2. QED
  BY <1>1 DEF Widens, Proper, Version, List

-----------------------------------------------------------------------------
(* What a forced reload answers.                                           *)

\* A call knows the class as it was when a reload was forced, and what it reads then is
\* no older.
CallFresh(t) ==
  LET c == call[t] IN
  /\ c.since <= schema
  /\ c.pc = "test" => ~c.forced
  /\ (c.pc # "clear" /\ ~c.forced) => c.since = 0
  /\ (c.pc \in InBlock /\ ~c.overtaken) => Version(c.val) >= c.since

Fresh == ForcedIsFresh /\ \A t \in Threads : CallFresh(t)

\* The calls that do not move stay so.
LEMMA OthersFresh ==
  ASSUME Wellformed, Widens, schema <= schema', schema' \in 0..MaxVersion,
         NEW u \in Threads, CallFresh(u), call'[u] = call[u]
  PROVE  CallFresh(u)'
<1> DEFINE c == call[u]
<1>1. c \in CallState /\ CallFormed(u) /\ schema \in 0..MaxVersion
  BY DEF Wellformed, WellTyped
<1>2. c.val \in List /\ c.since \in 0..MaxVersion /\ (c.pc \in InBlock => Proper(c.val))
  BY <1>1 DEF CallState, CallFormed
<1>3. c.pc \in InBlock => Version(c.val)' = Version(c.val)
  BY <1>2, VersionsStay
<1>4. c.since <= schema'
  BY <1>1, <1>2, VersionAssumption DEF CallFresh
<1>5. QED
  BY <1>3, <1>4 DEF CallFresh, Version

\* An answer given before stays fresh.
LEMMA AnswerFresh ==
  ASSUME Wellformed, Widens, Fresh, answer' = answer
  PROVE  ForcedIsFresh'
<1>1. answer.val # None => Version(answer.val)' = Version(answer.val)
  BY VersionsStay DEF Wellformed, WellTyped
<1>2. QED
  BY <1>1 DEF Fresh, ForcedIsFresh, Version

\* An answer given now is fresh, and so is the block it is given to, if it is of no
\* older version than was asked for.
LEMMA AnswersFresh ==
  ASSUME Wellformed, Widens, Fresh, NEW t \in Threads, NEW v \in List, Proper(v), NEW late \in BOOLEAN,
         AnsweredInside(t, v, late) \/ AnsweredOutside(t, v, late), UNCHANGED schema,
         (~call[t].overtaken /\ ~late) => Version(v) >= call[t].since,
         call[t].pc # "clear"
  PROVE  CallFresh(t)' /\ ForcedIsFresh'
<1> DEFINE c == call[t]
<1>1. Version(v)' = Version(v) /\ CallFresh(t) /\ schema \in 0..MaxVersion
  BY VersionsStay DEF Fresh, Wellformed, WellTyped
<1>2. CASE AnsweredInside(t, v, late)
  <2>1. CallFresh(t)'
    BY <1>1, <1>2 DEF CallFresh, AnsweredInside, Same, Version
  <2>2. ForcedIsFresh'
    BY <1>2, AnswerFresh DEF AnsweredInside
  <2>3. QED
    BY <2>1, <2>2
<1>3. CASE AnsweredOutside(t, v, late)
  <2>1. CallFresh(t)'
    BY <1>1, <1>3 DEF CallFresh, AnsweredOutside, Idle, InBlock
  <2>2. ForcedIsFresh'
    BY <1>1, <1>3 DEF ForcedIsFresh, AnsweredOutside, Version
  <2>3. QED
    BY <2>1, <2>2
<1>4. QED
  BY <1>2, <1>3

\* Every call reads nothing older than it asked for.
LEMMA AlwaysFresh == Spec => []Fresh
<1>1. Init => Fresh
  BY VersionAssumption DEF Init, Fresh, ForcedIsFresh, NoAnswer, CallFresh, Idle, InBlock
<1>2. Wellformed /\ Wellformed' /\ Fresh /\ [Next]_vars => Fresh'
  <2> SUFFICES ASSUME Wellformed, Wellformed', Fresh, [Next]_vars PROVE Fresh'
    OBVIOUS
  <2>1. Widens /\ schema \in 0..MaxVersion /\ schema' \in 0..MaxVersion /\ crew \subseteq Threads
    BY StepsKeepForm DEF Wellformed, WellTyped
  <2>2. ASSUME NEW t \in Threads, schema' = schema, \A u \in Threads \ {t} : call'[u] = call[u],
               CallFresh(t)', ForcedIsFresh'
        PROVE  Fresh'
    BY <2>1, <2>2, OthersFresh DEF Fresh
  <2>3. ASSUME NEW t \in Threads
        PROVE  /\ call[t] \in CallState /\ call[t].since \in 0..MaxVersion /\ call[t].val \in List
               /\ call[t].forced \in BOOLEAN /\ CallFresh(t) /\ CallFormed(t)
    BY DEF Fresh, Wellformed, WellTyped, CallState
  <2>4. ASSUME NEW t \in crew, NEW l \in Lists, NEW forced \in BOOLEAN, Ask(t, l, forced)
        PROVE  Fresh'
    <3>1. schema' = schema
      BY <2>4 DEF Ask
    <3>2. CallFresh(t)'
      BY <2>1, <2>4, <3>1, AskKeepsForm DEF CallFresh, InBlock
    <3>3. ForcedIsFresh'
      BY <2>4 DEF Ask, ForcedIsFresh, NoAnswer
    <3>4. QED
      BY <2>1, <2>2, <2>4, <3>2, <3>3, AskKeepsForm DEF Ask
  <2>5. ASSUME NEW t \in crew, Take(t) PROVE Fresh'
    <3>1. CallFresh(t)'
      <4>1. /\ schema' = schema /\ call[t].pc # "clear" /\ (Waits(t) \/ \E h : Enters(t, h))
        BY <2>1, <2>5, Taking
      <4>2. /\ call'[t].pc \in {"make", "test", "open", "take"}
            /\ call'[t].forced = call[t].forced /\ call'[t].since = call[t].since
            /\ call'[t].pc = "test" => ~call[t].forced
        BY <4>1 DEF Enters, Same, Evaluating, Waits
      <4>3. QED
        BY <2>1, <2>3, <4>1, <4>2 DEF CallFresh, InBlock
    <3>2. QED
      BY <2>1, <2>2, <2>5, <3>1, Taking, AnswerFresh
  <2>6. ASSUME NEW t \in crew, Make(t) PROVE Fresh'
    <3>1. CallFresh(t)'
      <4>1. /\ schema' = schema /\ call[t].pc # "clear" /\ (\E h : Enters(t, h))
        BY <2>1, <2>6, Making
      <4>2. /\ call'[t].pc \in {"make", "test", "open", "take"}
            /\ call'[t].forced = call[t].forced /\ call'[t].since = call[t].since
            /\ call'[t].pc = "test" => ~call[t].forced
        BY <4>1 DEF Enters, Same, Evaluating
      <4>3. QED
        BY <2>1, <2>3, <4>1, <4>2 DEF CallFresh, InBlock
    <3>2. QED
      BY <2>1, <2>2, <2>6, <3>1, Making, AnswerFresh
  <2>7. ASSUME NEW t \in crew, Test(t) PROVE Fresh'
    <3> DEFINE c == call[t]
               v == HashOf(Last(c.levels)).val
    <3>1. /\ c.pc = "test" /\ ~c.forced /\ c.since = 0 /\ schema' = schema /\ c.levels # <<>>
      BY <2>1, <2>3, <2>7 DEF Test, CallFresh, CallFormed
    <3>2. CASE v # None
      <4>1. v \in List /\ Proper(v) /\ Version(v) \in 0..MaxVersion
        BY <2>1, <3>1, <3>2, HashTaken, ProperList
      <4>2. AnsweredInside(t, v, FALSE) \/ AnsweredOutside(t, v, FALSE)
        BY <2>1, <2>7, <3>2, TestKeepsForm
      <4> HIDE DEF v
      <4>3. Version(v) >= c.since /\ c.pc # "clear"
        BY <3>1, <4>1
      <4>4. CallFresh(t)' /\ ForcedIsFresh'
        BY <2>1, <3>1, <4>1, <4>2, <4>3, AnswersFresh
      <4>5. QED
        BY <2>1, <2>2, <2>7, <3>1, <4>4, TestKeepsForm
    <3>3. CASE v = None
      <4>1. answer' = answer /\ call'[t] = Evaluates(c)
        BY <2>1, <2>7, <3>3, TestKeepsForm
      <4>2. CallFresh(t)'
        BY <2>1, <2>3, <3>1, <4>1, Evaluation DEF CallFresh, InBlock, Same, Evaluating
      <4>3. QED
        BY <2>1, <2>2, <2>7, <3>1, <4>1, <4>2, TestKeepsForm, AnswerFresh
    <3>4. QED
      BY <3>2, <3>3
  <2>8. ASSUME NEW t \in Threads, NEW v \in List, NEW from \in {"open", "build", "fill"},
               NEW to \in {"fill", "store"}, GoesOn(t, from, to, v),
               ~call[t].overtaken => opened'[v.ref].version >= call[t].since
        PROVE  Fresh'
    <3>1. CallFresh(t)'
      BY <2>1, <2>3, <2>8 DEF CallFresh, GoesOn, Same, Version
    <3>2. QED
      BY <2>1, <2>2, <2>8, <3>1, AnswerFresh DEF GoesOn
  <2>9. ASSUME NEW t \in crew, Open(t) PROVE Fresh'
    <3>1. /\ GoesOn(t, "open", "store", call'[t].val) /\ call'[t].val.ref = Len(opened')
          /\ opened'[Len(opened')].version = schema /\ call'[t].val \in List
      BY <2>1, <2>9, OpenKeepsForm DEF Wellformed, WellTyped, CallState
    <3>2. QED
      BY <2>1, <2>3, <2>8, <3>1 DEF CallFresh
  <2>10. ASSUME NEW t \in Threads, NEW v \in List, v.ref = call[t].val.ref, call[t].pc \in InBlock,
                Len(opened') = Len(opened)
         PROVE  ~call[t].overtaken => opened'[v.ref].version >= call[t].since
    BY <2>1, <2>3, <2>10, VersionsStay DEF CallFresh, CallFormed, Version
  <2>11. ASSUME NEW t \in crew, BeginFill(t) PROVE Fresh'
    <3>1. /\ GoesOn(t, "build", "fill", call[t].val) /\ Len(opened') = Len(opened)
      BY <2>1, <2>11, BeginFillKeepsForm
    <3>2. call[t].pc \in InBlock
      BY <3>1 DEF GoesOn, InBlock
    <3>3. QED
      BY <2>1, <2>3, <2>8, <2>10, <3>1, <3>2
  <2>12. ASSUME NEW t \in crew, EndFill(t) PROVE Fresh'
    <3> DEFINE v == [of |-> Last(call[t].levels).list, ref |-> call[t].val.ref, whole |-> TRUE]
    <3>1. GoesOn(t, "fill", "store", v) /\ Len(opened') = Len(opened)
      BY <2>1, <2>12, EndFillKeepsForm
    <3>2. call[t].pc \in InBlock /\ call'[t].val = v /\ v.ref = call[t].val.ref
      BY <3>1 DEF GoesOn, InBlock
    <3>3. v \in List
      BY <2>1, <3>2 DEF Wellformed, WellTyped, CallState
    <3>4. QED
      BY <2>1, <2>8, <2>10, <3>1, <3>2, <3>3
  <2>13. ASSUME NEW t \in crew, Build(t) PROVE Fresh'
    <3>1. /\ GoesOn(t, "build", "store", call'[t].val) /\ call'[t].val.ref = call[t].val.ref
          /\ opened' = opened /\ call'[t].val \in List
      BY <2>1, <2>13, BuildKeepsForm DEF Wellformed, WellTyped, CallState
    <3>2. call[t].pc \in InBlock
      BY <3>1 DEF GoesOn, InBlock
    <3>3. QED
      BY <2>1, <2>8, <2>10, <3>1, <3>2
  <2>14. ASSUME NEW t \in crew, Store(t) PROVE Fresh'
    <3>1. /\ call[t].pc = "store" /\ call'[t] = [call[t] EXCEPT !.pc = "read"]
          /\ \A u \in Threads \ {t} : call'[u] = call[u]
          /\ UNCHANGED <<schema, opened, answer>>
      BY <2>1, <2>14, Storing, Zenon DEF Store
    <3>2. CallFresh(t)'
      BY <2>1, <2>3, <3>1 DEF CallFresh, InBlock, CallState, Version
    <3>3. QED
      BY <2>1, <2>2, <3>1, <3>2, AnswerFresh
  <2>15. ASSUME NEW t \in crew, Read(t) PROVE Fresh'
    <3> DEFINE c == call[t]
               v == HashOf(Last(c.levels)).val
               late == v # c.val
    <3>1. /\ v \in List /\ Proper(v) /\ (AnsweredInside(t, v, late) \/ AnsweredOutside(t, v, late))
          /\ \A u \in Threads \ {t} : call'[u] = call[u]
      BY <2>1, <2>15, ReadKeepsForm
    <3>2. schema' = schema /\ c.pc = "read"
      BY <2>15 DEF Read
    <3>3. (~c.overtaken /\ ~late) => Version(v) >= c.since
      BY <2>1, <2>3, <3>2 DEF CallFresh, InBlock
    <3>4. late \in BOOLEAN
      OBVIOUS
    <3> HIDE DEF v, late
    <3>5. CallFresh(t)' /\ ForcedIsFresh'
      BY <2>1, <3>1, <3>2, <3>3, <3>4, AnswersFresh
    <3>6. QED
      BY <2>1, <2>2, <3>1, <3>2, <3>5
  <2>16. ASSUME NEW t \in crew, Fails(t) PROVE Fresh'
    <3>1. call'[t] = Idle /\ \A u \in Threads \ {t} : call'[u] = call[u]
      BY <2>1, <2>16, FailsKeepsForm
    <3>2. UNCHANGED <<schema, answer>>
      BY <2>16 DEF Fails
    <3>3. CallFresh(t)'
      BY <2>1, <3>1, <3>2 DEF CallFresh, Idle, InBlock
    <3>4. QED
      BY <2>1, <2>2, <3>1, <3>2, <3>3, AnswerFresh
  <2>17. ASSUME NEW t \in crew, BeginClear(t) PROVE Fresh'
    <3>1. /\ call'[t].pc = "clear" /\ call'[t].since = schema
          /\ \A u \in Threads \ {t} : call'[u] = call[u]
      BY <2>1, <2>17, BeginClearKeepsForm
    <3>2. UNCHANGED <<schema, answer>>
      BY <2>17 DEF BeginClear
    <3>3. CallFresh(t)'
      BY <2>1, <3>1, <3>2 DEF CallFresh, InBlock
    <3>4. QED
      BY <2>1, <2>2, <3>1, <3>2, <3>3, AnswerFresh
  <2>18. ASSUME NEW t \in crew, Clear(t) PROVE Fresh'
    <3>1. PICK k \in call[t].todo : Clears(t, k)
      BY <2>18 DEF Clear
    <3>2. UNCHANGED <<schema, answer>> /\ call[t].pc = "clear"
      BY <2>18, <3>1 DEF Clears, Clear
    <3>3. /\ call'[t] = Idle \/ (call'[t].pc = "clear" /\ call'[t].since = call[t].since)
          /\ \A u \in Threads \ {t} : call'[u] = call[u]
      BY <2>1, <3>1, <3>2, Clearing
    <3>4. CallFresh(t)'
      BY <2>1, <2>3, <3>2, <3>3 DEF CallFresh, Idle, InBlock
    <3>5. QED
      BY <2>1, <2>2, <3>2, <3>3, <3>4, AnswerFresh
  <2>19. CASE Compile
    <3>1. schema <= schema' /\ UNCHANGED <<call, answer>>
      BY <2>1, <2>19 DEF Compile
    <3>2. \A u \in Threads : CallFresh(u)'
      BY <2>1, <3>1, OthersFresh DEF Fresh
    <3>3. QED
      BY <2>1, <3>1, <3>2, AnswerFresh DEF Fresh
  <2>20. CASE UNCHANGED vars
    BY <2>20 DEF vars, Fresh, ForcedIsFresh, CallFresh, Version
  <2>21. QED
    BY <2>4, <2>5, <2>6, <2>7, <2>9, <2>11, <2>12, <2>13, <2>14, <2>15, <2>16, <2>17, <2>18, <2>19,
       <2>20 DEF Next
<1>3. QED
  BY <1>1, <1>2, MetadataWellformed, PTL DEF Spec

\* A forced reload answers the class as it was when it was asked for or later, however
\* many threads read, force, clear or fail meanwhile.
THEOREM ForcedIsFreshHolds == Spec => []ForcedIsFresh
<1>1. Fresh => ForcedIsFresh
  BY DEF Fresh
<1>2. QED
  BY <1>1, AlwaysFresh, PTL

-----------------------------------------------------------------------------
(* Clearings, and what is kept through them.                               *)

\* A list neither under the empty name nor made from one that is.
Unmixed(l) == l \notin MixedLists

\* Such a list is kept under its own name and made from another one that is cleared
\* before it.
LEMMA Places ==
  /\ \A k \in Cleared : Place[k] \in Int /\ k \in Keys
  /\ \A l \in Lists : Unmixed(l) => l \in Cleared /\ Key(l) = l
  /\ \A l \in Lists \ {"reflector"} :
       Unmixed(l) => Source[l] \in Lists /\ Unmixed(Source[l]) /\ Place[Source[l]] < Place[l]
<1>1. ASSUME NEW k \in Cleared PROVE Place[k] \in Int /\ k \in Keys
  <2>1. PICK l \in Lists : k = Key(l) /\ k # ""
    BY DEF Cleared, Keys
  <2>2. l \in DOMAIN Source \cup {"reflector"} /\ l \notin {"relations", "transient_attributes"} /\ k = l
    BY <2>1, ListsAssumption DEF Key
  <2>3. Place[k] \in Int
    BY <2>2 DEF Place, Source
  <2>4. QED
    BY <2>3 DEF Cleared
<1>2. ASSUME NEW l \in Lists, Unmixed(l) PROVE l \in Cleared /\ Key(l) = l
  <2>1. Key(l) = l
    BY <1>2 DEF Unmixed, MixedLists, Key
  <2>2. l # ""
    BY ListsAssumption DEF Source
  <2>3. QED
    BY <2>1, <2>2 DEF Cleared, Keys
<1>3. ASSUME NEW l \in Lists \ {"reflector"}, Unmixed(l)
      PROVE  Source[l] \in Lists /\ Unmixed(Source[l]) /\ Place[Source[l]] < Place[l]
  <2>1. l \in DOMAIN Source /\ Source[l] \in Lists
    BY ListsAssumption
  <2>2. QED
    BY <1>3, <2>1 DEF Source, Unmixed, MixedLists, Place
<1>4. QED
  BY <1>1, <1>2, <1>3

\* What the names were told of clearings: later ones of later clearings, and those
\* cleared first of them at least as soon.
Floors ==
  /\ \A k \in Keys : \A g, h \in DOMAIN hashes[k] :
       g <= h => hashes[k][g].since <= hashes[k][h].since
  /\ \A k \in Keys : Floor(k) <= schema
  /\ \A j, k \in Cleared : Place[j] < Place[k] => Floor(k) <= Floor(j)
  /\ cleared <= schema
  /\ \A k \in Cleared : cleared <= Floor(k)

\* A clearing has told the names it has cleared, and goes on with the ones after them.
CallClears(t) ==
  LET c == call[t] IN
  c.pc = "clear" =>
    /\ c.since <= schema
    /\ \A k \in Cleared \ c.todo : c.since <= Floor(k)
    /\ \A j \in c.todo, k \in Cleared : Place[j] < Place[k] => k \in c.todo

ClearingInOrder == Floors /\ \A t \in Threads : CallClears(t)

\* What a name holds is in its last Hash.
LEMMA LastHash ==
  ASSUME Wellformed, NEW k \in Keys, hashes[k] # <<>>
  PROVE  /\ Len(hashes[k]) \in DOMAIN hashes[k]
         /\ Floor(k) = hashes[k][Len(hashes[k])].since /\ Holds(k) = hashes[k][Len(hashes[k])].val
<1>1. hashes[k] \in Seq(Hash)
  BY DEF Wellformed, WellTyped
<1>2. Last(hashes[k]) = hashes[k][Len(hashes[k])] /\ Len(hashes[k]) \in DOMAIN hashes[k]
  <2>1. /\ Len(hashes[k]) \in Nat \ {0} /\ DOMAIN hashes[k] = 1..Len(hashes[k])
        /\ Last(hashes[k]) = hashes[k][Len(hashes[k])]
    BY <1>1, FrontAndLast
  <2>2. QED
    BY <2>1
<1>3. QED
  BY <1>2 DEF Floor, Holds

\* No Hash was told of a later clearing than the last one.
LEMMA FloorIsHighest ==
  ASSUME Wellformed, Floors, NEW k \in Keys, NEW h \in DOMAIN hashes[k]
  PROVE  hashes[k][h].since <= Floor(k) /\ hashes[k][h].since \in 0..MaxVersion
<1>1. hashes[k] \in Seq(Hash)
  BY DEF Wellformed, WellTyped
<1>2. DOMAIN hashes[k] = 1..Len(hashes[k]) /\ Len(hashes[k]) \in Nat /\ hashes[k][h] \in Hash
  BY <1>1, LenProperties, ElementOfSeq
<1>3. hashes[k] # <<>>
  BY <1>2, EmptySeq
<1>4. QED
  BY <1>2, <1>3, LastHash DEF Floors, Hash

\* A step that gives no name another floor.
LEMMA FloorsUnchanged ==
  ASSUME Wellformed, Wellformed', ClearingInOrder, schema' \in 0..MaxVersion, schema <= schema',
         \A k \in Keys : Floor(k)' = Floor(k), cleared' = cleared,
         \A k \in Keys : \A g, h \in DOMAIN hashes'[k] :
           g <= h => hashes'[k][g].since <= hashes'[k][h].since,
         \A u \in Threads : call'[u] = call[u] \/ CallClears(u)'
  PROVE  ClearingInOrder'
<1>1. schema \in 0..MaxVersion /\ cleared \in 0..MaxVersion /\ \A k \in Keys : Floor(k) \in 0..MaxVersion
  BY NamesTyped DEF Wellformed, WellTyped
<1>2. \A k \in Cleared : k \in Keys
  BY Places
<1>3. Floors'
  BY <1>1, <1>2, VersionAssumption DEF ClearingInOrder, Floors
<1>4. ASSUME NEW u \in Threads PROVE CallClears(u)'
  <2>1. call[u].since \in 0..MaxVersion
    BY DEF Wellformed, WellTyped, CallState
  <2>2. CASE call'[u] = call[u]
    BY <1>1, <1>2, <2>1, <2>2, VersionAssumption DEF CallClears, ClearingInOrder
  <2>3. QED
    BY <1>4, <2>2
<1>5. QED
  BY <1>3, <1>4 DEF ClearingInOrder

\* A step that makes no Hash gives none.
LEMMA FloorsOfKept ==
  ASSUME Wellformed, Wellformed', Widens, ClearingInOrder,
         \A k \in Keys : DOMAIN hashes'[k] = DOMAIN hashes[k] /\ Len(hashes'[k]) = Len(hashes[k])
  PROVE  /\ \A k \in Keys : Floor(k)' = Floor(k)
         /\ \A k \in Keys : \A g, h \in DOMAIN hashes'[k] :
              g <= h => hashes'[k][g].since <= hashes'[k][h].since
<1>1. ASSUME NEW k \in Keys PROVE Floor(k)' = Floor(k)
  <2>1. hashes[k] \in Seq(Hash) /\ hashes'[k] \in Seq(Hash)
    BY DEF Wellformed, WellTyped
  <2>2. hashes[k] = <<>> <=> hashes'[k] = <<>>
    BY <2>1, EmptySeq
  <2>3. CASE hashes[k] = <<>>
    BY <2>2, <2>3 DEF Floor
  <2>4. CASE hashes[k] # <<>>
    <3>1. /\ Floor(k) = hashes[k][Len(hashes[k])].since /\ Len(hashes[k]) \in DOMAIN hashes[k]
          /\ Floor(k)' = hashes'[k][Len(hashes'[k])].since
      BY <2>1, <2>2, <2>4, FrontAndLast DEF Floor, Last
    <3>2. QED
      BY <3>1 DEF Widens
  <2>5. QED
    BY <2>3, <2>4
<1>2. ASSUME NEW k \in Keys, NEW g \in DOMAIN hashes'[k], NEW h \in DOMAIN hashes'[k], g <= h
      PROVE  hashes'[k][g].since <= hashes'[k][h].since
  BY <1>2 DEF ClearingInOrder, Floors, Widens
<1>3. QED
  BY <1>1, <1>2

\* A name given one more Hash.
LEMMA FloorMade ==
  ASSUME Wellformed, Wellformed', ClearingInOrder, NEW k \in Keys, NEW s \in 0..MaxVersion, Floor(k) <= s,
         \A j \in Keys : j # k => hashes'[j] = hashes[j],
         Len(hashes[k]) \in Nat, DOMAIN hashes[k] = 1..Len(hashes[k]),
         hashes'[k] # <<>>, Len(hashes'[k]) = Len(hashes[k]) + 1,
         DOMAIN hashes'[k] = 1..(Len(hashes[k]) + 1),
         \A h \in DOMAIN hashes[k] : hashes'[k][h] = hashes[k][h],
         hashes'[k][Len(hashes[k]) + 1].since = s
  PROVE  /\ Floor(k)' = s /\ \A j \in Keys : j # k => Floor(j)' = Floor(j)
         /\ \A j \in Keys : \A g, h \in DOMAIN hashes'[j] :
              g <= h => hashes'[j][g].since <= hashes'[j][h].since
<1>1. Floor(k)' = s
  BY DEF Floor, Last
<1>2. ASSUME NEW j \in Keys, j # k PROVE Floor(j)' = Floor(j)
  BY <1>2 DEF Floor
<1>3. ASSUME NEW j \in Keys, NEW g \in DOMAIN hashes'[j], NEW h \in DOMAIN hashes'[j], g <= h
      PROVE  hashes'[j][g].since <= hashes'[j][h].since
  <2>1. CASE j # k
    BY <1>3, <2>1 DEF ClearingInOrder, Floors
  <2>2. CASE j = k
    <3>1. Floor(k) \in 0..MaxVersion
      BY NamesTyped DEF Wellformed
    <3>2. CASE h = Len(hashes[k]) + 1 /\ g = h
      BY <2>2, <3>2
    <3>3. CASE h = Len(hashes[k]) + 1 /\ g # h
      <4>1. g \in DOMAIN hashes[k]
        BY <2>2, <3>3
      <4>2. hashes[k][g].since <= Floor(k) /\ hashes[k][g].since \in 0..MaxVersion
        BY <4>1, FloorIsHighest DEF ClearingInOrder
      <4>3. QED
        BY <2>2, <3>1, <3>3, <4>1, <4>2, VersionAssumption, SMTT(30)
    <3>4. CASE h # Len(hashes[k]) + 1
      <4>1. h \in DOMAIN hashes[k] /\ g \in DOMAIN hashes[k]
        BY <1>3, <2>2, <3>4, SMTT(30)
      <4>2. QED
        BY <1>3, <2>2, <4>1 DEF ClearingInOrder, Floors
    <3>5. QED
      BY <3>2, <3>3, <3>4
  <2>3. QED
    BY <2>1, <2>2
<1>4. QED
  BY <1>1, <1>2, <1>3

\* However many threads clear the names, each name is told of the clearings in order,
\* and those cleared first at least as soon as the others.
LEMMA ClearingsInOrder == Spec => []ClearingInOrder
<1>1. Init => ClearingInOrder
  <2> SUFFICES ASSUME Init PROVE ClearingInOrder
    OBVIOUS
  <2>1. \A k \in Keys : hashes[k] = <<>> /\ Floor(k) = 0 /\ DOMAIN hashes[k] = {}
    BY DEF Init, Floor
  <2>2. \A t \in Threads : call[t].pc = "idle"
    BY DEF Init, Idle
  <2>3. cleared = 0 /\ schema = 0
    BY DEF Init
  <2>4. QED
    BY <2>1, <2>2, <2>3, Places DEF ClearingInOrder, Floors, CallClears
<1>2. Wellformed /\ Wellformed' /\ ClearingInOrder /\ [Next]_vars => ClearingInOrder'
  <2> SUFFICES ASSUME Wellformed, Wellformed', ClearingInOrder, [Next]_vars PROVE ClearingInOrder'
    OBVIOUS
  <2>1. Widens /\ schema \in 0..MaxVersion /\ schema' \in 0..MaxVersion /\ crew \subseteq Threads
    BY StepsKeepForm DEF Wellformed, WellTyped
  <2>2. ASSUME NEW t \in Threads, \A u \in Threads \ {t} : call'[u] = call[u],
               call'[t].pc # "clear" \/ (call'[t].since = schema /\ call'[t].todo = Cleared),
               UNCHANGED <<schema, cleared>>,
               \A k \in Keys : DOMAIN hashes'[k] = DOMAIN hashes[k] /\ Len(hashes'[k]) = Len(hashes[k])
        PROVE  ClearingInOrder'
    <3>1. \A u \in Threads : call'[u] = call[u] \/ CallClears(u)'
      BY <2>1, <2>2 DEF CallClears
    <3>2. /\ \A k \in Keys : Floor(k)' = Floor(k)
          /\ \A k \in Keys : \A g, h \in DOMAIN hashes'[k] :
               g <= h => hashes'[k][g].since <= hashes'[k][h].since
      BY <2>1, <2>2, FloorsOfKept
    <3>3. QED
      BY <2>1, <2>2, <3>1, <3>2, FloorsUnchanged
  <2>3. ASSUME NEW t \in crew, NEW l \in Lists, NEW forced \in BOOLEAN, Ask(t, l, forced)
        PROVE  ClearingInOrder'
    <3>1. call'[t].pc # "clear" /\ \A u \in Threads \ {t} : call'[u] = call[u]
      BY <2>1, <2>3, AskKeepsForm
    <3>2. UNCHANGED <<schema, cleared, hashes>>
      BY <2>3 DEF Ask
    <3>3. QED
      BY <2>1, <2>2, <3>1, <3>2
  <2>4. ASSUME NEW t \in crew, Take(t) PROVE ClearingInOrder'
    <3>1. /\ Waits(t) \/ \E h : Enters(t, h)
          /\ UNCHANGED <<schema, cleared, hashes>> /\ \A u \in Threads \ {t} : call'[u] = call[u]
      BY <2>1, <2>4, Taking
    <3>2. call'[t].pc # "clear"
      BY <3>1 DEF Waits, Enters, Evaluating
    <3>3. QED
      BY <2>1, <2>2, <3>1, <3>2
  <2>5. ASSUME NEW t \in crew, Make(t) PROVE ClearingInOrder'
    <3>1. PICK k \in Keys : k = Key(call[t].want)
      BY <2>1, <2>5, Making
    <3>2. /\ k \in Keys /\ Enters(t, Len(hashes[k]) + 1)
          /\ \A u \in Threads \ {t} : call'[u] = call[u]
          /\ UNCHANGED <<schema, cleared>>
          /\ \A j \in Keys : j # k => hashes'[j] = hashes[j]
          /\ Len(hashes[k]) \in Nat /\ DOMAIN hashes[k] = 1..Len(hashes[k])
          /\ hashes'[k] # <<>> /\ Len(hashes'[k]) = Len(hashes[k]) + 1
          /\ DOMAIN hashes'[k] = 1..(Len(hashes[k]) + 1)
          /\ \A h \in DOMAIN hashes[k] : hashes'[k][h] = hashes[k][h]
          /\ hashes'[k][Len(hashes[k]) + 1].since = Floor(k)
      BY <2>1, <2>5, <3>1, Making
    <3>3. Floor(k) \in 0..MaxVersion /\ Floor(k) <= Floor(k)
      BY <3>2, NamesTyped DEF Wellformed
    <3>4. /\ Floor(k)' = Floor(k) /\ \A j \in Keys : j # k => Floor(j)' = Floor(j)
          /\ \A j \in Keys : \A g, h \in DOMAIN hashes'[j] :
               g <= h => hashes'[j][g].since <= hashes'[j][h].since
      BY <3>2, <3>3, FloorMade
    <3>5. call'[t].pc # "clear"
      BY <3>2 DEF Enters, Evaluating
    <3>6. \A u \in Threads : call'[u] = call[u] \/ CallClears(u)'
      BY <3>2, <3>5 DEF CallClears
    <3>7. QED
      <4>1. \A j \in Keys : Floor(j)' = Floor(j)
        BY <3>4
      <4>2. schema <= schema' /\ cleared' = cleared
        BY <2>1, <3>2
      <4>3. QED
        BY <2>1, <3>4, <3>6, <4>1, <4>2, FloorsUnchanged
  <2>6. ASSUME NEW t \in crew, Test(t) PROVE ClearingInOrder'
    <3> DEFINE v == HashOf(Last(call[t].levels)).val
    <3>1. /\ \/ AnsweredInside(t, v, FALSE) \/ AnsweredOutside(t, v, FALSE)
             \/ call'[t] = Evaluates(call[t])
          /\ \A u \in Threads \ {t} : call'[u] = call[u]
      BY <2>1, <2>6, TestKeepsForm
    <3>2. UNCHANGED <<schema, cleared, hashes>> /\ call[t].levels # <<>> /\ call[t] \in CallState
      BY <2>1, <2>6 DEF Test, Wellformed, WellTyped, CallFormed
    <3>3. call'[t].pc # "clear"
      BY <3>1, <3>2, Evaluation DEF AnsweredInside, AnsweredOutside, Idle, Evaluating
    <3>4. QED
      BY <2>1, <2>2, <3>1, <3>2, <3>3
  <2>7. ASSUME NEW t \in Threads, NEW v, NEW from \in {"open", "build", "fill"},
               NEW to \in {"fill", "store"}, GoesOn(t, from, to, v)
        PROVE  ClearingInOrder'
    BY <2>1, <2>2, <2>7 DEF GoesOn
  <2>8. ASSUME NEW t \in crew, Open(t) \/ BeginFill(t) \/ EndFill(t) \/ Build(t) PROVE ClearingInOrder'
    <3>1. \E v : \E from \in {"open", "build", "fill"}, to \in {"fill", "store"} : GoesOn(t, from, to, v)
      BY <2>1, <2>8, OpenKeepsForm, BeginFillKeepsForm, EndFillKeepsForm, BuildKeepsForm
    <3>2. QED
      BY <2>1, <2>7, <3>1
  <2>9. ASSUME NEW t \in crew, Store(t) PROVE ClearingInOrder'
    <3>1. /\ call[t] \in CallState /\ call'[t] = [call[t] EXCEPT !.pc = "read"]
          /\ \A k \in Keys : DOMAIN hashes'[k] = DOMAIN hashes[k] /\ Len(hashes'[k]) = Len(hashes[k])
          /\ \A u \in Threads \ {t} : call'[u] = call[u]
          /\ UNCHANGED <<schema, cleared>>
      BY <2>1, <2>9, Storing, Zenon DEF Store, Wellformed, WellTyped
    <3>2. call'[t].pc # "clear"
      BY <3>1 DEF CallState
    <3>3. QED
      BY <2>1, <2>2, <3>1, <3>2
  <2>10. ASSUME NEW t \in crew, Read(t) PROVE ClearingInOrder'
    <3> DEFINE v == HashOf(Last(call[t].levels)).val
    <3>1. /\ AnsweredInside(t, v, v # call[t].val) \/ AnsweredOutside(t, v, v # call[t].val)
          /\ \A u \in Threads \ {t} : call'[u] = call[u]
      BY <2>1, <2>10, ReadKeepsForm
    <3>2. UNCHANGED <<schema, cleared, hashes>>
      BY <2>10 DEF Read
    <3>3. call'[t].pc # "clear"
      BY <3>1 DEF AnsweredInside, AnsweredOutside, Idle
    <3>4. QED
      BY <2>1, <2>2, <3>1, <3>2, <3>3
  <2>11. ASSUME NEW t \in crew, Fails(t) PROVE ClearingInOrder'
    <3>1. call'[t] = Idle /\ \A u \in Threads \ {t} : call'[u] = call[u]
      BY <2>1, <2>11, FailsKeepsForm
    <3>2. UNCHANGED <<schema, cleared, hashes>> /\ Idle.pc # "clear"
      BY <2>11 DEF Fails, Idle
    <3>3. QED
      BY <2>1, <2>2, <3>1, <3>2
  <2>12. ASSUME NEW t \in crew, BeginClear(t) PROVE ClearingInOrder'
    <3>1. UNCHANGED <<schema, cleared, hashes>>
      BY <2>12 DEF BeginClear
    <3>2. QED
      BY <2>1, <2>2, <2>12, <3>1, BeginClearKeepsForm
  <2>13. ASSUME NEW t \in crew, Clear(t) PROVE ClearingInOrder'
    <3> DEFINE c == call[t]
               d == call'[t]
    <3>1. PICK k \in c.todo : (\A j \in c.todo : Place[k] <= Place[j]) /\ Clears(t, k)
      BY <2>13 DEF Clear
    <3> DEFINE s == Later(c.since, Floor(k))
    <3>2. /\ k \in Cleared /\ k \in Keys /\ s \in 0..MaxVersion
          /\ \A j \in Keys : j # k => hashes'[j] = hashes[j]
          /\ Len(hashes[k]) \in Nat /\ DOMAIN hashes[k] = 1..Len(hashes[k])
          /\ hashes'[k] # <<>> /\ Len(hashes'[k]) = Len(hashes[k]) + 1
          /\ DOMAIN hashes'[k] = 1..(Len(hashes[k]) + 1)
          /\ \A h \in DOMAIN hashes[k] : hashes'[k][h] = hashes[k][h]
          /\ hashes'[k][Len(hashes[k]) + 1].since = s
          /\ \A u \in Threads \ {t} : call'[u] = call[u]
          /\ \/ c.todo = {k} /\ d = Idle /\ cleared' = Later(c.since, cleared)
             \/ /\ c.todo # {k} /\ cleared' = cleared
                /\ d.pc = "clear" /\ d.since = c.since /\ d.todo = c.todo \ {k}
      BY <2>1, <2>13, <3>1, Clearing DEF Clear
    <3>3. /\ c.pc = "clear" /\ schema' = schema /\ c.since \in 0..MaxVersion /\ c.todo \subseteq Cleared
          /\ cleared \in 0..MaxVersion /\ \A j \in Keys : Floor(j) \in 0..MaxVersion
      BY <2>1, <2>13, <3>1, NamesTyped DEF Clear, Clears, Wellformed, WellTyped, CallState
    <3>4. /\ Floor(k) <= s /\ c.since <= s /\ s \in {c.since, Floor(k)} /\ c.since <= schema
          /\ Floor(k) <= schema
      BY <2>1, <3>2, <3>3 DEF Later, ClearingInOrder, Floors, CallClears
    <3> HIDE DEF s
    <3>5. /\ Floor(k)' = s /\ \A j \in Keys : j # k => Floor(j)' = Floor(j)
          /\ \A j \in Keys : \A g, h \in DOMAIN hashes'[j] :
               g <= h => hashes'[j][g].since <= hashes'[j][h].since
      BY <3>2, <3>4, FloorMade, Zenon
    <3>6. \A j \in Cleared : Place[j] \in Int /\ j \in Keys
      BY Places
    <3>7. \A j \in Cleared : Floor(j) <= Floor(j)' /\ Floor(j)' <= schema' /\ Floor(j)' \in 0..MaxVersion
      BY <2>1, <3>2, <3>3, <3>4, <3>5, <3>6 DEF ClearingInOrder, Floors
    <3>8. ASSUME NEW i \in Cleared, NEW j \in Cleared, Place[i] < Place[j]
          PROVE  Floor(j)' <= Floor(i)'
      <4>1. Floor(j) <= Floor(i)
        BY <3>8 DEF ClearingInOrder, Floors
      <4>2. CASE j # k
        BY <3>3, <3>5, <3>6, <3>7, <4>1, <4>2
      <4>3. CASE j = k
        <5>1. i \notin c.todo /\ i # k
          BY <3>1, <3>2, <3>6, <3>8, <4>3
        <5>2. c.since <= Floor(i)
          BY <2>1, <3>3, <5>1 DEF ClearingInOrder, CallClears
        <5>3. QED
          BY <3>4, <3>5, <3>6, <4>1, <4>3, <5>1, <5>2
      <4>4. QED
        BY <4>2, <4>3
    <3>9. \A i \in Cleared \ c.todo : c.since <= Floor(i)'
      <4>1. \A i \in Cleared \ c.todo : c.since <= Floor(i)
        BY <2>1, <3>3 DEF ClearingInOrder, CallClears
      <4>2. QED
        BY <3>3, <3>6, <3>7, <4>1
    <3>10. cleared' <= schema' /\ \A j \in Cleared : cleared' <= Floor(j)'
      <4>1. cleared <= schema /\ \A j \in Cleared : cleared <= Floor(j)'
        BY <3>3, <3>6, <3>7 DEF ClearingInOrder, Floors
      <4>2. CASE cleared' = cleared
        BY <3>3, <4>1, <4>2
      <4>3. CASE c.todo = {k} /\ cleared' = Later(c.since, cleared)
        <5>1. \A j \in Cleared : c.since <= Floor(j)'
          BY <3>4, <3>5, <3>9, <4>3
        <5>2. cleared' = c.since \/ cleared' = cleared
          BY <4>3 DEF Later
        <5>3. QED
          BY <3>3, <3>4, <4>1, <5>1, <5>2
      <4>4. QED
        BY <3>2, <4>2, <4>3
    <3>11. \A j \in Keys : Floor(j)' <= schema'
      BY <2>1, <3>3, <3>4, <3>5 DEF ClearingInOrder, Floors
    <3>12. Floors'
      BY <3>5, <3>8, <3>10, <3>11 DEF Floors
    <3>13. CallClears(t)'
      <4>1. CASE d = Idle
        BY <4>1 DEF CallClears, Idle
      <4>2. CASE d.pc = "clear" /\ d.since = c.since /\ d.todo = c.todo \ {k}
        <5>1. \A i \in Cleared \ d.todo : d.since <= Floor(i)'
          BY <3>4, <3>5, <3>9, <4>2
        <5>2. ASSUME NEW j \in d.todo, NEW i \in Cleared, Place[j] < Place[i] PROVE i \in d.todo
          <6>1. i \in c.todo
            BY <2>1, <3>3, <4>2, <5>2 DEF ClearingInOrder, CallClears
          <6>2. Place[k] <= Place[j] /\ Place[j] \in Int /\ Place[k] \in Int
            BY <3>1, <3>2, <3>3, <3>6, <4>2
          <6>3. QED
            BY <3>6, <4>2, <5>2, <6>1, <6>2
        <5>3. QED
          BY <3>3, <3>4, <4>2, <5>1, <5>2 DEF CallClears
      <4>3. QED
        BY <3>2, <4>1, <4>2
    <3>14. ASSUME NEW u \in Threads \ {t} PROVE CallClears(u)'
      <4>1. call'[u] = call[u] /\ call[u].since \in 0..MaxVersion /\ CallClears(u)
        BY <3>2 DEF ClearingInOrder, Wellformed, WellTyped, CallState
      <4>2. QED
        BY <3>3, <3>6, <3>7, <4>1 DEF CallClears
    <3>15. QED
      BY <3>12, <3>13, <3>14 DEF ClearingInOrder
  <2>14. CASE Compile
    <3>1. schema <= schema' /\ UNCHANGED <<call, cleared, hashes>>
      BY <2>1, <2>14 DEF Compile
    <3>2. QED
      BY <2>1, <3>1, FloorsUnchanged, FloorsOfKept
  <2>15. CASE UNCHANGED vars
    <3>1. schema <= schema' /\ UNCHANGED <<call, cleared, hashes>>
      BY <2>1, <2>15 DEF vars
    <3>2. QED
      BY <2>1, <3>1, FloorsUnchanged, FloorsOfKept
  <2>16. QED
    BY <2>3, <2>4, <2>5, <2>6, <2>8, <2>9, <2>10, <2>11, <2>12, <2>13, <2>14, <2>15 DEF Next
<1>3. QED
  BY <1>1, <1>2, MetadataWellformed, PTL DEF Spec

FloorOf(level) == HashOf(level).since

\* What is kept for a list is no older than what its Hash was told of.
KeptRising ==
  \A k \in Cleared : Unmixed(k) =>
    \A h \in DOMAIN hashes[k] :
      hashes[k][h].val # None => hashes[k][h].since <= Version(hashes[k][h].val)

\* Further in, a call has the Hashes of lists cleared sooner, and was told of later
\* clearings; and what it reads is no older than the Hash it will be put in.
CallRising(t) ==
  LET c == call[t] IN
  \A i \in DOMAIN c.levels : Unmixed(c.levels[i].list) =>
    /\ \A j \in DOMAIN c.levels : i < j =>
         /\ Unmixed(c.levels[j].list) /\ Place[c.levels[j].list] < Place[c.levels[i].list]
         /\ FloorOf(c.levels[i]) <= FloorOf(c.levels[j])
    /\ c.pc \in {"take", "make"} => Unmixed(c.want) /\ Place[c.want] < Place[c.levels[i].list]
    /\ c.pc \in {"build", "fill", "store"} => FloorOf(c.levels[i]) <= Version(c.val)

Rising == KeptRising /\ \A t \in Threads : CallRising(t)

\* The Hash of a level.
LEMMA LevelFloor ==
  ASSUME Wellformed, Floors, NEW t \in Threads, NEW i \in DOMAIN call[t].levels
  PROVE  LET level == call[t].levels[i] IN
         /\ level.list \in Lists /\ Key(level.list) \in Keys
         /\ level.hash \in DOMAIN hashes[Key(level.list)]
         /\ FloorOf(level) \in 0..MaxVersion /\ FloorOf(level) <= Floor(Key(level.list))
         /\ Floor(Key(level.list)) \in 0..MaxVersion
<1>1. call[t] \in CallState /\ CallFormed(t)
  BY DEF Wellformed, WellTyped
<1> DEFINE level == call[t].levels[i]
           k == Key(level.list)
<1>2. level.list \in Lists /\ k \in Keys /\ level.hash \in DOMAIN hashes[k]
  BY <1>1, Levels DEF CallFormed
<1> HIDE DEF k
<1>3. hashes[k][level.hash].since <= Floor(k) /\ hashes[k][level.hash].since \in 0..MaxVersion
  BY <1>2, FloorIsHighest
<1>4. Floor(k) \in 0..MaxVersion
  BY <1>2, NamesTyped DEF Wellformed
<1>5. QED
  BY <1>2, <1>3, <1>4, Zenon DEF FloorOf, HashOf, k

\* It was told what it was told.
LEMMA LevelFloorStays ==
  ASSUME Wellformed, Widens
  PROVE  \A t \in Threads : \A i \in DOMAIN call[t].levels :
           hashes'[Key(call[t].levels[i].list)][call[t].levels[i].hash].since = FloorOf(call[t].levels[i])
<1> SUFFICES ASSUME NEW t \in Threads, NEW i \in DOMAIN call[t].levels
             PROVE  hashes'[Key(call[t].levels[i].list)][call[t].levels[i].hash].since
                      = FloorOf(call[t].levels[i])
  OBVIOUS
<1>1. call[t] \in CallState /\ CallFormed(t)
  BY DEF Wellformed, WellTyped
<1>2. Key(call[t].levels[i].list) \in Keys
      /\ call[t].levels[i].hash \in DOMAIN hashes[Key(call[t].levels[i].list)]
  BY <1>1, Levels, Zenon DEF CallFormed
<1>3. QED
  BY <1>2 DEF Widens, FloorOf, HashOf

\* The calls that do not move stay so.
LEMMA OthersRising ==
  ASSUME Wellformed, Widens, NEW u \in Threads, CallRising(u), call'[u] = call[u]
  PROVE  CallRising(u)'
<1> DEFINE c == call[u]
<1>1. c \in CallState /\ CallFormed(u) /\ c.val \in List
  BY DEF Wellformed, WellTyped, CallState
<1>2. c.pc \in {"build", "fill", "store"} => Version(c.val)' = Version(c.val)
  BY <1>1, VersionsStay DEF CallFormed, InBlock
<1>3. \A i \in DOMAIN c.levels : hashes'[Key(c.levels[i].list)][c.levels[i].hash].since = FloorOf(c.levels[i])
  BY LevelFloorStays, Zenon
<1>4. \A i \in DOMAIN c.levels : FloorOf(c.levels[i])' = FloorOf(c.levels[i])
  BY <1>3, Zenon DEF FloorOf, HashOf
<1>5. QED
  BY <1>2, <1>4, Zenon DEF CallRising, Version, FloorOf, HashOf

\* A call that is given a Hash.
LEMMA EntersRising ==
  ASSUME Wellformed, Widens, ClearingInOrder, NEW t \in Threads, CallRising(t),
         call[t].pc \in {"take", "make"}, NEW k \in Keys, k = Key(call[t].want), NEW h \in Nat,
         hashes'[k][h].since = Floor(k), Enters(t, h)
  PROVE  CallRising(t)'
<1> DEFINE c == call[t]
           d == call'[t]
           e == [list |-> c.want, hash |-> h]
           n == Len(c.levels)
<1>1. c \in CallState /\ c.levels \in Seq(Level) /\ e \in Level /\ e.list = c.want /\ e.hash = h
      /\ c.want \in Lists
  BY DEF Wellformed, WellTyped, CallState, Level
<1>2. d.levels = Append(c.levels, e)
  BY DEF Enters
<1>3. /\ d.pc = "test" \/ Evaluating(c.want, d)
  BY DEF Enters
<1> HIDE DEF e
<1>4. /\ n \in Nat /\ DOMAIN d.levels = 1..(n + 1) /\ DOMAIN c.levels = 1..n
      /\ \A i \in 1..n : d.levels[i] = c.levels[i]
      /\ d.levels[n + 1] = e
  BY <1>1, <1>2, Grown
<1> HIDE DEF d
<1>5. ASSUME NEW i \in 1..n, Unmixed(c.levels[i].list)
      PROVE  /\ Unmixed(c.want) /\ Place[c.want] < Place[c.levels[i].list]
             /\ FloorOf(c.levels[i]) <= Floor(k)
  <2>1. Unmixed(c.want) /\ Place[c.want] < Place[c.levels[i].list]
    BY <1>4, <1>5 DEF CallRising
  <2>2. /\ c.levels[i].list \in Lists /\ FloorOf(c.levels[i]) \in 0..MaxVersion
        /\ FloorOf(c.levels[i]) <= Floor(Key(c.levels[i].list))
        /\ Floor(Key(c.levels[i].list)) \in 0..MaxVersion
    BY <1>4, <1>5, LevelFloor DEF ClearingInOrder
  <2>3. /\ c.want \in Cleared /\ Key(c.want) = c.want
        /\ c.levels[i].list \in Cleared /\ Key(c.levels[i].list) = c.levels[i].list
    BY <1>1, <1>5, <2>1, <2>2, Places
  <2>4. Floor(c.levels[i].list) <= Floor(c.want)
    BY <2>1, <2>3 DEF ClearingInOrder, Floors
  <2>5. Floor(k) \in 0..MaxVersion
    BY NamesTyped, Zenon DEF Wellformed
  <2>6. QED
    BY <2>1, <2>2, <2>3, <2>4, <2>5
<1>6. \A i \in 1..n : hashes'[Key(d.levels[i].list)][d.levels[i].hash].since = FloorOf(c.levels[i])
  BY <1>4, LevelFloorStays, ZenonT(40)
<1>7. hashes'[Key(d.levels[n + 1].list)][d.levels[n + 1].hash].since = Floor(k)
  BY <1>1, <1>4
<1>8. d.pc = "take" => c.want # "reflector" /\ d.want = Source[c.want]
  BY <1>3 DEF Evaluating
<1>9. d.pc \in {"test", "open", "take"}
  BY <1>3, Zenon DEF Evaluating
<1>10. ASSUME NEW i \in 1..(n + 1), Unmixed(d.levels[i].list)
       PROVE  /\ \A j \in 1..(n + 1) : i < j =>
                   /\ Unmixed(d.levels[j].list) /\ Place[d.levels[j].list] < Place[d.levels[i].list]
                   /\ hashes'[Key(d.levels[i].list)][d.levels[i].hash].since
                        <= hashes'[Key(d.levels[j].list)][d.levels[j].hash].since
              /\ d.pc = "take" => Unmixed(d.want) /\ Place[d.want] < Place[d.levels[i].list]
  <2>1. CASE i \in 1..n
    <3>1. Unmixed(c.levels[i].list) /\ d.levels[i] = c.levels[i]
      BY <1>4, <1>10, <2>1, Zenon
    <3>2. ASSUME NEW j \in 1..(n + 1), i < j
          PROVE  /\ Unmixed(d.levels[j].list) /\ Place[d.levels[j].list] < Place[d.levels[i].list]
                 /\ hashes'[Key(d.levels[i].list)][d.levels[i].hash].since
                      <= hashes'[Key(d.levels[j].list)][d.levels[j].hash].since
      <4>1. CASE j \in 1..n
        BY <1>4, <1>6, <2>1, <3>1, <3>2, <4>1, Zenon DEF CallRising
      <4>2. CASE j = n + 1
        BY <1>1, <1>4, <1>5, <1>6, <1>7, <2>1, <3>1, <4>2, Zenon
      <4>3. j \in 1..n \/ j = n + 1
        BY <1>4
      <4>4. QED
        BY <4>1, <4>2, <4>3, Zenon
    <3>3. ASSUME d.pc = "take" PROVE Unmixed(d.want) /\ Place[d.want] < Place[d.levels[i].list]
      <4>1. Unmixed(c.want) /\ Place[c.want] < Place[c.levels[i].list]
        BY <1>5, <2>1, <3>1
      <4>2. Unmixed(Source[c.want]) /\ Place[Source[c.want]] < Place[c.want] /\ Source[c.want] \in Lists
        BY <1>1, <1>8, <3>3, <4>1, Places
      <4>3. c.levels[i].list \in Lists
        BY <1>1, <1>4, <2>1, Levels
      <4>4. Place[c.want] \in Int /\ Place[Source[c.want]] \in Int /\ Place[c.levels[i].list] \in Int
        BY <1>1, <3>1, <4>1, <4>2, <4>3, Places, Zenon
      <4>5. QED
        BY <1>8, <3>1, <3>3, <4>1, <4>2, <4>4
    <3>4. QED
      BY <3>2, <3>3
  <2>2. CASE i = n + 1
    <3>1. Unmixed(c.want)
      BY <1>1, <1>4, <1>10, <2>2
    <3>2. d.pc = "take" => Unmixed(d.want) /\ Place[d.want] < Place[d.levels[i].list]
      BY <1>1, <1>4, <1>8, <2>2, <3>1, Places
    <3>3. \A j \in 1..(n + 1) : ~(i < j)
      BY <1>4, <2>2
    <3>4. QED
      BY <3>2, <3>3
  <2>3. i \in 1..n \/ i = n + 1
    BY <1>4
  <2>4. QED
    BY <2>1, <2>2, <2>3, Zenon
<1>11. QED
  BY <1>4, <1>9, <1>10, Zenon DEF CallRising, FloorOf, HashOf, d

\* A call that begins a block.
LEMMA EvaluatesRising ==
  ASSUME Wellformed, NEW t \in Threads, CallRising(t), call[t].levels # <<>>,
         call'[t] = Evaluates(call[t]), UNCHANGED hashes
  PROVE  CallRising(t)'
<1> DEFINE c == call[t]
           d == call'[t]
           n == Len(c.levels)
<1>1. c \in CallState
  BY DEF Wellformed, WellTyped
<1>2. d.levels = c.levels /\ Evaluating(Last(c.levels).list, d)
  BY <1>1, Evaluation
<1>3. /\ n \in Nat /\ DOMAIN c.levels = 1..n /\ n \in 1..n /\ Last(c.levels) = c.levels[n]
      /\ \A i \in 1..n : c.levels[i].list \in Lists
  BY <1>1, Levels
<1>4. /\ d.pc \in {"open", "take"}
      /\ d.pc = "take" => c.levels[n].list # "reflector" /\ d.want = Source[c.levels[n].list]
  BY <1>2, <1>3, ZenonT(30) DEF Evaluating
<1> HIDE DEF d
<1>5. ASSUME NEW i \in 1..n, Unmixed(c.levels[i].list), d.pc = "take"
      PROVE  Unmixed(d.want) /\ Place[d.want] < Place[c.levels[i].list]
  <2> DEFINE l == c.levels[n].list
  <2>1. Unmixed(l) /\ (i = n \/ Place[l] < Place[c.levels[i].list])
    BY <1>3, <1>5, SMTT(30) DEF CallRising
  <2>2. Source[l] \in Lists /\ Unmixed(Source[l]) /\ Place[Source[l]] < Place[l]
    BY <1>3, <1>4, <1>5, <2>1, Places, Zenon
  <2>3. Place[l] \in Int /\ Place[Source[l]] \in Int /\ Place[c.levels[i].list] \in Int
    BY <1>3, <1>5, <2>1, <2>2, Places, Zenon
  <2>4. QED
    <3>1. d.want = Source[l]
      BY <1>4, <1>5
    <3>2. Place[Source[l]] < Place[c.levels[i].list]
      <4>1. CASE i = n
        BY <2>2, <4>1
      <4>2. CASE Place[l] < Place[c.levels[i].list]
        <5> DEFINE x == Place[Source[l]]
                   y == Place[l]
                   z == Place[c.levels[i].list]
        <5>1. x \in Int /\ y \in Int /\ z \in Int /\ x < y /\ y < z
          BY <2>2, <2>3, <4>2, Zenon
        <5> HIDE DEF x, y, z
        <5>2. x < z
          BY <5>1
        <5>3. QED
          BY <5>2, Zenon DEF x, z
      <4>3. QED
        BY <2>1, <4>1, <4>2, Zenon
    <3>3. QED
      BY <2>2, <3>1, <3>2, Zenon
<1>6. QED
  BY <1>2, <1>3, <1>4, <1>5, Zenon DEF CallRising, FloorOf, HashOf, d

\* A call that is answered what is in the Hash it has taken.
LEMMA AnswersRising ==
  ASSUME Wellformed, Widens, Rising, ClearingInOrder, NEW t \in Threads, call[t].levels # <<>>,
         NEW v \in List, v = HashOf(Last(call[t].levels)).val, Proper(v),
         NEW late, AnsweredInside(t, v, late) \/ AnsweredOutside(t, v, late), UNCHANGED hashes
  PROVE  CallRising(t)'
<1> DEFINE c == call[t]
           d == call'[t]
           n == Len(c.levels)
<1>1. c \in CallState /\ CallRising(t)
  BY DEF Rising, Wellformed, WellTyped
<1>2. CASE AnsweredOutside(t, v, late)
  BY <1>2 DEF AnsweredOutside, CallRising, Idle
<1>3. CASE AnsweredInside(t, v, late)
  <2>1. d.pc = "build" /\ d.levels = Front(c.levels) /\ d.val = v
    BY <1>3 DEF AnsweredInside
  <2>2. /\ n \in Nat /\ DOMAIN c.levels = 1..n /\ n \in 1..n /\ Last(c.levels) = c.levels[n]
        /\ c.levels[n].list \in Lists
        /\ DOMAIN d.levels = 1..(n - 1) /\ \A i \in 1..(n - 1) : d.levels[i] = c.levels[i]
    BY <1>1, <2>1, Levels, FrontAndLast, Zenon
  <2>3. v # None /\ Version(v) \in 0..MaxVersion /\ opened'[v.ref].version = Version(v)
    BY ProperList, VersionsStay DEF Version
  <2>4. ASSUME NEW i \in 1..(n - 1), Unmixed(c.levels[i].list)
        PROVE  FloorOf(c.levels[i]) <= Version(v)
    <3>1. Unmixed(c.levels[n].list) /\ FloorOf(c.levels[i]) <= FloorOf(c.levels[n])
      <4>1. i \in DOMAIN c.levels /\ n \in DOMAIN c.levels /\ i < n
        BY <2>2
      <4>2. QED
        BY <1>1, <2>4, <4>1 DEF CallRising
    <3>2. c.levels[n].list \in Cleared /\ Key(c.levels[n].list) = c.levels[n].list
      BY <2>2, <3>1, Places, Zenon
    <3>3. /\ c.levels[n].hash \in DOMAIN hashes[c.levels[n].list]
          /\ FloorOf(c.levels[n]) \in 0..MaxVersion
      BY <2>2, <3>2, LevelFloor, Zenon DEF ClearingInOrder
    <3>4. FloorOf(c.levels[n]) <= Version(v)
      BY <2>2, <2>3, <3>1, <3>2, <3>3, Zenon DEF Rising, KeptRising, FloorOf, HashOf
    <3>5. i \in DOMAIN c.levels
      BY <2>2
    <3>6. FloorOf(c.levels[i]) \in 0..MaxVersion
      BY <3>5, LevelFloor, Zenon DEF ClearingInOrder
    <3>7. QED
      BY <2>3, <3>1, <3>3, <3>4, <3>6
  <2> HIDE DEF d
  <2>5. ASSUME NEW i \in 1..(n - 1), Unmixed(d.levels[i].list)
        PROVE  /\ \A j \in 1..(n - 1) : i < j =>
                    /\ Unmixed(d.levels[j].list) /\ Place[d.levels[j].list] < Place[d.levels[i].list]
                    /\ FloorOf(d.levels[i]) <= FloorOf(d.levels[j])
               /\ FloorOf(d.levels[i]) <= Version(v)
    <3>1. /\ n \in Nat /\ i \in 1..n /\ d.levels[i] = c.levels[i] /\ Unmixed(c.levels[i].list)
      BY <2>2, <2>5
    <3>2. ASSUME NEW j \in 1..(n - 1), i < j
          PROVE  /\ Unmixed(d.levels[j].list) /\ Place[d.levels[j].list] < Place[d.levels[i].list]
                 /\ FloorOf(d.levels[i]) <= FloorOf(d.levels[j])
      <4>1. j \in 1..n /\ d.levels[j] = c.levels[j]
        BY <2>2, <3>1
      <4>2. /\ Unmixed(c.levels[j].list) /\ Place[c.levels[j].list] < Place[c.levels[i].list]
            /\ FloorOf(c.levels[i]) <= FloorOf(c.levels[j])
        BY <1>1, <2>2, <3>1, <3>2, <4>1, Zenon DEF CallRising
      <4>3. QED
        BY <3>1, <4>1, <4>2, Zenon
    <3>3. FloorOf(d.levels[i]) <= Version(v)
      BY <2>4, <3>1, Zenon
    <3>4. QED
      BY <3>2, <3>3, Zenon
  <2>6. QED
    BY <2>1, <2>2, <2>3, <2>5, Zenon DEF CallRising, FloorOf, HashOf, Version, d
<1>4. QED
  BY <1>2, <1>3

\* Steps that put no list in a Hash that was there.
LEMMA KeptRisingStays ==
  ASSUME Wellformed, Widens, KeptRising,
         \A k \in Cleared : \A h \in DOMAIN hashes'[k] :
           hashes'[k][h].val = None \/ (h \in DOMAIN hashes[k] /\ hashes'[k][h].val = hashes[k][h].val)
  PROVE  KeptRising'
<1> SUFFICES ASSUME NEW k \in Cleared, Unmixed(k), NEW h \in DOMAIN hashes'[k], hashes'[k][h].val # None
             PROVE  hashes'[k][h].since <= opened'[hashes'[k][h].val.ref].version
  BY DEF KeptRising, Version
<1>1. h \in DOMAIN hashes[k] /\ hashes'[k][h].val = hashes[k][h].val /\ k \in Keys
  BY Places
<1>2. hashes'[k][h].since = hashes[k][h].since
  BY <1>1 DEF Widens
<1>3. Proper(hashes[k][h].val) /\ hashes[k][h].val \in List
  <2>1. hashes[k] \in Seq(Hash)
    BY <1>1 DEF Wellformed, WellTyped
  <2>2. hashes[k][h] \in Hash
    BY <1>1, <2>1, LenProperties, ElementOfSeq
  <2>3. QED
    BY <1>1, <2>2 DEF Wellformed, KeptFormed, Hash
<1>4. opened'[hashes[k][h].val.ref].version = Version(hashes[k][h].val)
  BY <1>3 DEF Widens, Version, Proper
<1>5. QED
  BY <1>1, <1>2, <1>4 DEF KeptRising

\* What is read for a name, and kept for it, is of the class as it was when the name
\* was last cleared before the Hash was taken, or later.
LEMMA AlwaysRising == Spec => []Rising
<1>1. Init => Rising
  <2> SUFFICES ASSUME Init PROVE Rising
    OBVIOUS
  <2>1. \A k \in Keys : hashes[k] = <<>> /\ DOMAIN hashes[k] = {}
    BY DEF Init
  <2>2. \A t \in Threads : call[t].levels = <<>> /\ DOMAIN call[t].levels = {}
    BY DEF Init, Idle
  <2>3. QED
    BY <2>1, <2>2, Places DEF Rising, KeptRising, CallRising
<1>2. Wellformed /\ Wellformed' /\ ClearingInOrder /\ Rising /\ [Next]_vars => Rising'
  <2> SUFFICES ASSUME Wellformed, Wellformed', ClearingInOrder, Rising, [Next]_vars PROVE Rising'
    OBVIOUS
  <2>1. /\ Widens /\ schema \in 0..MaxVersion /\ crew \subseteq Threads
        /\ KeptRising /\ \A t \in Threads : CallRising(t)
    BY StepsKeepForm DEF Wellformed, WellTyped, Rising
  <2>2. ASSUME NEW t \in Threads, \A u \in Threads \ {t} : call'[u] = call[u], CallRising(t)', KeptRising'
        PROVE  Rising'
    BY <2>1, <2>2, OthersRising DEF Rising
  <2>3. ASSUME UNCHANGED hashes PROVE KeptRising'
    BY <2>1, <2>3, KeptRisingStays
  <2>4. ASSUME NEW t \in Threads, call'[t].levels = <<>> PROVE CallRising(t)'
    BY <2>4 DEF CallRising
  <2>5. ASSUME NEW t \in crew, NEW l \in Lists, NEW forced \in BOOLEAN, Ask(t, l, forced) PROVE Rising'
    <3>1. UNCHANGED hashes
      BY <2>5 DEF Ask
    <3>2. QED
      BY <2>1, <2>2, <2>3, <2>4, <2>5, <3>1, AskKeepsForm
  <2>6. ASSUME NEW t \in crew, Take(t) PROVE Rising'
    <3>1. PICK k \in Keys : k = Key(call[t].want)
      BY <2>1, <2>6, Taking
    <3>2. /\ call[t].pc = "take" /\ UNCHANGED <<opened, hashes>>
          /\ \/ Waits(t)
             \/ hashes[k] # <<>> /\ Enters(t, Len(hashes[k])) /\ Len(hashes[k]) \in DOMAIN hashes[k]
          /\ \A u \in Threads \ {t} : call'[u] = call[u]
      BY <2>1, <2>6, <3>1, Taking
    <3>3. CASE Waits(t)
      <4>1. CallRising(t)'
        BY <2>1, <3>2, <3>3, Zenon DEF CallRising, Waits, FloorOf, HashOf
      <4>2. QED
        BY <2>1, <2>2, <2>3, <3>2, <4>1, Zenon
    <3>4. CASE hashes[k] # <<>> /\ Enters(t, Len(hashes[k])) /\ Len(hashes[k]) \in DOMAIN hashes[k]
      <4>1. hashes'[k][Len(hashes[k])].since = Floor(k) /\ Len(hashes[k]) \in Nat
        <5>1. hashes[k] \in Seq(Hash)
          BY DEF Wellformed, WellTyped
        <5>2. QED
          BY <3>2, <3>4, <5>1, LastHash, LenProperties
      <4>2. CallRising(t)'
        BY <2>1, <3>1, <3>2, <3>4, <4>1, EntersRising
      <4>3. QED
        BY <2>1, <2>2, <2>3, <3>2, <4>2
    <3>5. QED
      BY <3>2, <3>3, <3>4
  <2>7. ASSUME NEW t \in crew, Make(t) PROVE Rising'
    <3>1. PICK k \in Keys : k = Key(call[t].want)
      BY <2>1, <2>7, Making
    <3>2. /\ call[t].pc = "make" /\ Enters(t, Len(hashes[k]) + 1)
          /\ \A u \in Threads \ {t} : call'[u] = call[u]
          /\ \A j \in Keys : j # k => hashes'[j] = hashes[j]
          /\ Len(hashes[k]) \in Nat /\ DOMAIN hashes[k] = 1..Len(hashes[k])
          /\ DOMAIN hashes'[k] = 1..(Len(hashes[k]) + 1)
          /\ \A h \in DOMAIN hashes[k] : hashes'[k][h] = hashes[k][h]
          /\ hashes'[k][Len(hashes[k]) + 1].val = None
          /\ hashes'[k][Len(hashes[k]) + 1].since = Floor(k)
      BY <2>1, <2>7, <3>1, Making
    <3>3. CallRising(t)'
      BY <2>1, <3>1, <3>2, EntersRising
    <3>4. ASSUME NEW j \in Keys, NEW h \in DOMAIN hashes'[j]
          PROVE  hashes'[j][h].val = None
                 \/ (h \in DOMAIN hashes[j] /\ hashes'[j][h].val = hashes[j][h].val)
      <4>1. CASE j = k
        BY <3>2, <4>1
      <4>2. CASE j # k
        BY <3>2, <4>2
      <4>3. QED
        BY <4>1, <4>2
    <3>5. KeptRising'
      BY <2>1, <3>4, KeptRisingStays, Places
    <3>6. QED
      BY <2>1, <2>2, <3>2, <3>3, <3>5
  <2>8. ASSUME NEW t \in crew, Test(t) PROVE Rising'
    <3> DEFINE c == call[t]
               v == HashOf(Last(c.levels)).val
    <3>1. c.levels # <<>> /\ UNCHANGED hashes
      BY <2>1, <2>8 DEF Test, Wellformed, CallFormed
    <3>2. /\ \/ v # None /\ (AnsweredInside(t, v, FALSE) \/ AnsweredOutside(t, v, FALSE))
             \/ v = None /\ call'[t] = Evaluates(call[t])
          /\ \A u \in Threads \ {t} : call'[u] = call[u]
      BY <2>1, <2>8, TestKeepsForm
    <3>3. v \in List /\ (v # None => Proper(v))
      BY <2>1, <3>1, HashTaken
    <3>4. PICK w \in List : w = v
      BY <3>3
    <3>5. CallRising(t)'
      <4>1. CASE v = None
        BY <2>1, <3>1, <3>2, <4>1, EvaluatesRising
      <4>2. CASE v # None
        <5>1. AnsweredInside(t, w, FALSE) \/ AnsweredOutside(t, w, FALSE)
          BY <3>2, <3>4, <4>2
        <5>2. Proper(w) /\ w = HashOf(Last(call[t].levels)).val
          BY <3>3, <3>4, <4>2
        <5>3. QED
          BY <2>1, <3>1, <5>1, <5>2, AnswersRising
      <4>3. QED
        BY <4>1, <4>2
    <3>6. QED
      BY <2>1, <2>2, <2>3, <3>1, <3>2, <3>5
  <2>9. ASSUME NEW t \in Threads, NEW v \in List, NEW from \in {"build", "fill"},
               NEW to \in {"fill", "store"}, GoesOn(t, from, to, v), v.ref = call[t].val.ref
        PROVE  Rising'
    <3> DEFINE c == call[t]
    <3>1. c.val \in List /\ c.pc = from /\ CallFormed(t) /\ CallRising(t)
      BY <2>1, <2>9 DEF Wellformed, WellTyped, CallState, GoesOn
    <3>2. Proper(c.val)
      BY <3>1 DEF CallFormed, InBlock
    <3>3. opened'[v.ref].version = Version(c.val)
      BY <2>1, <2>9, <3>2, Zenon DEF Widens, Version, Proper
    <3>4. /\ call'[t].levels = c.levels /\ call'[t].val = v /\ call'[t].pc = to /\ UNCHANGED hashes
          /\ \A u \in Threads \ {t} : call'[u] = call[u]
      BY <2>9 DEF GoesOn
    <3>5. CallRising(t)'
      BY <3>1, <3>3, <3>4, Zenon DEF CallRising, FloorOf, HashOf, Version
    <3>6. QED
      BY <2>2, <2>3, <3>4, <3>5
  <2>10. ASSUME NEW t \in crew, Open(t) PROVE Rising'
    <3> DEFINE c == call[t]
               d == call'[t]
    <3>1. /\ GoesOn(t, "open", "store", d.val) /\ d.val.ref = Len(opened')
          /\ opened'[Len(opened')].version = schema
      BY <2>1, <2>10, OpenKeepsForm
    <3>2. /\ d.levels = c.levels /\ d.pc = "store" /\ UNCHANGED hashes
          /\ \A u \in Threads \ {t} : call'[u] = call[u]
      BY <3>1 DEF GoesOn
    <3>3. ASSUME NEW i \in DOMAIN c.levels, Unmixed(c.levels[i].list) PROVE FloorOf(c.levels[i]) <= schema
      <4>1. /\ Key(c.levels[i].list) \in Keys /\ FloorOf(c.levels[i]) \in 0..MaxVersion
            /\ FloorOf(c.levels[i]) <= Floor(Key(c.levels[i].list))
            /\ Floor(Key(c.levels[i].list)) \in 0..MaxVersion
        BY <2>1, LevelFloor DEF ClearingInOrder
      <4>2. Floor(Key(c.levels[i].list)) <= schema
        BY <4>1, Zenon DEF ClearingInOrder, Floors
      <4>3. QED
        BY <2>1, <4>1, <4>2
    <3>4. CallRising(t)'
      BY <2>1, <3>1, <3>2, <3>3, Zenon DEF CallRising, FloorOf, HashOf, Version
    <3>5. QED
      BY <2>1, <2>2, <2>3, <3>2, <3>4
  <2>11. ASSUME NEW t \in crew, BeginFill(t) PROVE Rising'
    <3>1. GoesOn(t, "build", "fill", call[t].val) /\ call[t].val \in List
      BY <2>1, <2>11, BeginFillKeepsForm DEF Wellformed, WellTyped, CallState
    <3>2. QED
      BY <2>1, <2>9, <3>1
  <2>12. ASSUME NEW t \in crew, EndFill(t) PROVE Rising'
    <3>1. PICK v : v = [of |-> Last(call[t].levels).list, ref |-> call[t].val.ref, whole |-> TRUE]
      OBVIOUS
    <3>2. GoesOn(t, "fill", "store", v) /\ v.ref = call[t].val.ref
      BY <2>1, <2>12, <3>1, EndFillKeepsForm
    <3>3. v \in List
      BY <2>1, <3>2 DEF GoesOn, Wellformed, WellTyped, CallState
    <3>4. QED
      BY <2>1, <2>9, <3>2, <3>3
  <2>13. ASSUME NEW t \in crew, Build(t) PROVE Rising'
    <3>1. /\ GoesOn(t, "build", "store", call'[t].val) /\ call'[t].val.ref = call[t].val.ref
          /\ call'[t].val \in List
      BY <2>1, <2>13, BuildKeepsForm DEF Wellformed, WellTyped, CallState
    <3>2. QED
      BY <2>1, <2>9, <3>1
  <2>14. ASSUME NEW t \in crew, Store(t) PROVE Rising'
    <3> DEFINE c == call[t]
               l == Last(c.levels).list
               h == Last(c.levels).hash
               n == Len(c.levels)
    <3>1. PICK k \in Keys : k = Key(l)
      BY <2>1, <2>14, Storing
    <3>2. /\ c.pc = "store" /\ c.levels # <<>> /\ h \in DOMAIN hashes[k]
          /\ \A j \in Keys : /\ DOMAIN hashes'[j] = DOMAIN hashes[j]
                             /\ j # k => hashes'[j] = hashes[j]
          /\ \A g \in DOMAIN hashes[k] :
               /\ hashes'[k][g].since = hashes[k][g].since
               /\ hashes'[k][g].val = IF g = h THEN c.val ELSE hashes[k][g].val
          /\ call'[t] = [c EXCEPT !.pc = "read"]
          /\ \A u \in Threads \ {t} : call'[u] = call[u]
      <4>1. /\ c.pc = "store" /\ c.levels # <<>> /\ h \in DOMAIN hashes[Key(l)]
            /\ \A j \in Keys : /\ DOMAIN hashes'[j] = DOMAIN hashes[j]
                               /\ j # Key(l) => hashes'[j] = hashes[j]
            /\ call'[t] = [c EXCEPT !.pc = "read"]
            /\ \A u \in Threads \ {t} : call'[u] = call[u]
        BY <2>1, <2>14, Storing
      <4>2. \A g \in DOMAIN hashes[Key(l)] :
              /\ hashes'[Key(l)][g].since = hashes[Key(l)][g].since
              /\ hashes'[Key(l)][g].val = IF g = h THEN c.val ELSE hashes[Key(l)][g].val
        BY <2>1, <2>14, Storing, ZenonT(40)
      <4> HIDE DEF l, h
      <4>3. QED
        BY <3>1, <4>1, <4>2
    <3>3. c \in CallState /\ CallFormed(t) /\ CallRising(t) /\ opened' = opened
      BY <2>1, <2>14 DEF Store, Wellformed, WellTyped
    <3>4. /\ n \in DOMAIN c.levels /\ Last(c.levels) = c.levels[n] /\ l \in Lists
      BY <3>2, <3>3, Levels
    <3>5. call'[t].levels = c.levels /\ call'[t].pc = "read"
      BY <3>2, <3>3 DEF CallState
    <3>6. CallRising(t)'
      <4>1. \A i \in DOMAIN c.levels :
              hashes'[Key(c.levels[i].list)][c.levels[i].hash].since = FloorOf(c.levels[i])
        BY <2>1, LevelFloorStays
      <4>2. QED
        BY <3>3, <3>5, <4>1, Zenon DEF CallRising, FloorOf, HashOf
    <3>7. ASSUME NEW j \in Cleared, Unmixed(j), NEW g \in DOMAIN hashes'[j], hashes'[j][g].val # None
          PROVE  hashes'[j][g].since <= opened'[hashes'[j][g].val.ref].version
      <4>1. j \in Keys /\ g \in DOMAIN hashes[j]
        BY <3>2, <3>7, Places, Zenon
      <4>2. CASE j = k /\ g = h
        <5>1. l = k
          BY <3>1, <3>7, <4>2 DEF Unmixed, MixedLists, Key, Cleared
        <5>2. FloorOf(c.levels[n]) <= Version(c.val)
          BY <3>2, <3>3, <3>4, <3>7, <4>2, <5>1 DEF CallRising
        <5>3. QED
          BY <3>1, <3>2, <3>3, <3>4, <4>1, <4>2, <5>2, ZenonT(40) DEF FloorOf, HashOf, Version
      <4>3. CASE ~(j = k /\ g = h)
        <5>1. hashes'[j][g].since = hashes[j][g].since /\ hashes'[j][g].val = hashes[j][g].val
          BY <3>2, <4>1, <4>3
        <5>2. QED
          BY <2>1, <3>3, <3>7, <4>1, <5>1 DEF KeptRising, Version
      <4>4. QED
        BY <4>2, <4>3
    <3>8. KeptRising'
      BY <3>7 DEF KeptRising, Version
    <3>9. QED
      BY <2>1, <2>2, <3>2, <3>6, <3>8
  <2>15. ASSUME NEW t \in crew, Read(t) PROVE Rising'
    <3> DEFINE c == call[t]
               v == HashOf(Last(c.levels)).val
    <3>1. /\ v \in List /\ Proper(v)
          /\ AnsweredInside(t, v, v # c.val) \/ AnsweredOutside(t, v, v # c.val)
          /\ \A u \in Threads \ {t} : call'[u] = call[u]
      BY <2>1, <2>15, ReadKeepsForm
    <3>2. UNCHANGED hashes /\ c.levels # <<>>
      BY <2>1, <2>15, Zenon DEF Read, Wellformed, CallFormed
    <3>3. PICK w \in List : w = v
      BY <3>1
    <3>4. \E late : AnsweredInside(t, w, late) \/ AnsweredOutside(t, w, late)
      BY <3>1, <3>3
    <3>5. CallRising(t)'
      BY <2>1, <3>1, <3>2, <3>3, <3>4, AnswersRising
    <3>6. QED
      BY <2>1, <2>2, <2>3, <3>1, <3>2, <3>5
  <2>16. ASSUME NEW t \in crew, Fails(t) PROVE Rising'
    <3>1. UNCHANGED hashes /\ Idle.levels = <<>>
      BY <2>16 DEF Fails, Idle
    <3>2. QED
      BY <2>1, <2>2, <2>3, <2>4, <2>16, <3>1, FailsKeepsForm
  <2>17. ASSUME NEW t \in crew, BeginClear(t) PROVE Rising'
    <3>1. UNCHANGED hashes
      BY <2>17 DEF BeginClear
    <3>2. QED
      BY <2>1, <2>2, <2>3, <2>4, <2>17, <3>1, BeginClearKeepsForm
  <2>18. ASSUME NEW t \in crew, Clear(t) PROVE Rising'
    <3>1. PICK k \in call[t].todo : Clears(t, k)
      BY <2>18 DEF Clear
    <3>2. /\ k \in Keys /\ \A j \in Keys : j # k => hashes'[j] = hashes[j]
          /\ Len(hashes[k]) \in Nat /\ DOMAIN hashes[k] = 1..Len(hashes[k])
          /\ DOMAIN hashes'[k] = 1..(Len(hashes[k]) + 1)
          /\ \A h \in DOMAIN hashes[k] : hashes'[k][h] = hashes[k][h]
          /\ hashes'[k][Len(hashes[k]) + 1].val = None
          /\ \A u \in Threads \ {t} : call'[u] = call[u]
          /\ call'[t] = Idle \/ call'[t].levels = <<>>
      BY <2>1, <2>18, <3>1, Clearing DEF Clear
    <3>3. call'[t].levels = <<>>
      BY <3>2 DEF Idle
    <3>4. ASSUME NEW j \in Keys, NEW h \in DOMAIN hashes'[j]
          PROVE  hashes'[j][h].val = None
                 \/ (h \in DOMAIN hashes[j] /\ hashes'[j][h].val = hashes[j][h].val)
      <4>1. CASE j = k
        BY <3>2, <4>1
      <4>2. CASE j # k
        BY <3>2, <4>2
      <4>3. QED
        BY <4>1, <4>2
    <3>5. KeptRising'
      BY <2>1, <3>4, KeptRisingStays, Places
    <3>6. QED
      BY <2>1, <2>2, <2>4, <3>2, <3>3, <3>5
  <2>19. CASE Compile \/ UNCHANGED vars
    <3>1. UNCHANGED <<hashes, call>>
      BY <2>19 DEF Compile, vars
    <3>2. QED
      BY <2>1, <2>3, <3>1, OthersRising DEF Rising
  <2>20. QED
    BY <2>5, <2>6, <2>7, <2>8, <2>10, <2>11, <2>12, <2>13, <2>14, <2>15, <2>16, <2>17, <2>18, <2>19
       DEF Next
<1>3. QED
  BY <1>1, <1>2, MetadataWellformed, ClearingsInOrder, PTL DEF Spec

\* Once a clearing is complete nothing read before it is kept or comes back, however
\* many threads clear and read, but in the lists that share the empty name and those
\* made from them.
THEOREM ClearedIsGoneHolds == Spec => []ClearedIsGone
<1>1. Wellformed /\ ClearingInOrder /\ Rising => ClearedIsGone
  <2> SUFFICES ASSUME Wellformed, ClearingInOrder, Rising,
                      NEW k \in Cleared, Kept(k), k \notin MixedLists
               PROVE  Version(Holds(k)) >= cleared
    BY DEF ClearedIsGone
  <2>1. k \in Keys /\ Unmixed(k) /\ hashes[k] # <<>>
    BY Places DEF Unmixed, Kept, Holds
  <2>2. /\ Len(hashes[k]) \in DOMAIN hashes[k] /\ Floor(k) = hashes[k][Len(hashes[k])].since
        /\ Holds(k) = hashes[k][Len(hashes[k])].val /\ Holds(k) \in List
        /\ Floor(k) \in 0..MaxVersion /\ cleared \in 0..MaxVersion
    BY <2>1, LastHash, NamesTyped DEF Wellformed, WellTyped
  <2>3. Proper(Holds(k)) /\ Version(Holds(k)) \in 0..MaxVersion
    <3>1. Proper(Holds(k))
      BY <2>1, <2>2 DEF Wellformed, KeptFormed, Kept
    <3>2. QED
      BY <2>2, <3>1, ProperList
  <2>4. Floor(k) <= Version(Holds(k)) /\ cleared <= Floor(k)
    BY <2>1, <2>2 DEF Rising, KeptRising, Kept, ClearingInOrder, Floors
  <2>5. QED
    BY <2>2, <2>3, <2>4
<1>2. QED
  BY <1>1, MetadataWellformed, ClearingsInOrder, AlwaysRising, PTL

-----------------------------------------------------------------------------
(* The kind of list that is answered.                                      *)

\* A list answered is of the kind that was asked for, though relations and transient
\* attributes share a name, unless it is one of theirs and what was kept is answered,
\* or another thread has put a list of its own in the Hash meanwhile.
AnsweredAsAsked ==
  (answer.val # None /\ (Unmixed(answer.list) \/ (answer.forced /\ ~answer.overtaken)))
    => answer.val.of = answer.list

\* Where only lists of one kind are kept, that is the kind kept.
KeptAsNamed ==
  \A k \in Cleared : Unmixed(k) =>
    \A h \in DOMAIN hashes[k] : hashes[k][h].val # None => hashes[k][h].val.of = k

\* Whether a call has to read a list of a kind as that kind.
Owes(c, l) == Unmixed(l) \/ (c.forced /\ ~c.overtaken)

\* A call has read the source of its innermost list, or that list.
CallAsAsked(t) ==
  LET c == call[t]
      l == Last(c.levels).list
  IN
  /\ c.pc = "test" => ~c.forced
  /\ (c.pc = "build" /\ Owes(c, Source[l])) => c.val.of = Source[l]
  /\ (c.pc \in {"store", "read"} /\ Owes(c, l)) => c.val.of = l

AsAsked == AnsweredAsAsked /\ KeptAsNamed /\ \A t \in Threads : CallAsAsked(t)

\* The empty name holds lists of more than one kind.
LEMMA OneKind ==
  ASSUME NEW l \in Lists
  PROVE  /\ Unmixed(l) => Key(l) = l /\ l \in Cleared
         /\ l # "reflector" => (Unmixed(l) => Unmixed(Source[l]))
         /\ (Key(l) \in Cleared /\ Unmixed(Key(l))) => Unmixed(l)
<1>1. Unmixed(l) => Key(l) = l /\ l \in Cleared
  BY Places
<1>2. l # "reflector" => (Unmixed(l) => Unmixed(Source[l]))
  BY Places
<1>3. (Key(l) \in Cleared /\ Unmixed(Key(l))) => Unmixed(l)
  BY Zenon DEF Key, Cleared
<1>4. QED
  BY <1>1, <1>2, <1>3

\* What is read from the Hash of a list is of its kind.
LEMMA KindHeld ==
  ASSUME Wellformed, KeptAsNamed, NEW t \in Threads, call[t].levels # <<>>,
         Unmixed(Last(call[t].levels).list), HashOf(Last(call[t].levels)).val # None
  PROVE  HashOf(Last(call[t].levels)).val.of = Last(call[t].levels).list
<1> DEFINE level == Last(call[t].levels)
<1>1. /\ level.list \in Lists /\ Key(level.list) \in Keys
      /\ level.hash \in DOMAIN hashes[Key(level.list)]
  BY HashTaken
<1>2. Key(level.list) = level.list /\ level.list \in Cleared
  BY <1>1, OneKind
<1>3. QED
  BY <1>1, <1>2 DEF KeptAsNamed, HashOf

\* An answer is of its kind, to whomever it is given.
LEMMA AnswersAsAsked ==
  ASSUME Wellformed, Wellformed', AsAsked, NEW t \in Threads, NEW v, NEW late \in BOOLEAN,
         AnsweredInside(t, v, late) \/ AnsweredOutside(t, v, late),
         LET l == Last(call[t].levels).list IN
           (Unmixed(l) \/ (call[t].forced /\ ~call[t].overtaken /\ ~late)) => v.of = l
  PROVE  CallAsAsked(t)' /\ AnsweredAsAsked'
<1> DEFINE c == call[t]
           d == call'[t]
           l == Last(c.levels).list
<1>1. CASE AnsweredInside(t, v, late)
  <2>1. /\ d.pc = "build" /\ d.levels = Front(c.levels) /\ d.val = v /\ answer' = answer
        /\ Len(c.levels) > 1 /\ d.forced = c.forced /\ d.overtaken = (c.overtaken \/ late)
    BY <1>1 DEF AnsweredInside, Same
  <2>2. Source[Last(d.levels).list] = l
    <3>1. c.levels \in Seq(Level) /\ c.levels # <<>>
      BY <2>1 DEF Wellformed, WellTyped, CallState
    <3>2. /\ Len(c.levels) \in Nat /\ DOMAIN c.levels = 1..Len(c.levels) /\ Last(c.levels) = c.levels[Len(c.levels)]
          /\ Front(c.levels) \in Seq(Level) /\ Len(Front(c.levels)) = Len(c.levels) - 1
          /\ Front(c.levels) # <<>> /\ Front(c.levels)[Len(c.levels) - 1] = c.levels[Len(c.levels) - 1]
      BY <2>1, <3>1, FrontAndLast, SMTT(30)
    <3>3. Last(d.levels) = c.levels[Len(c.levels) - 1]
      BY <2>1, <3>2, FrontAndLast
    <3>4. \A i \in DOMAIN c.levels : i > 1 => c.levels[i].list = Source[c.levels[i - 1].list]
      BY DEF Wellformed, CallChained
    <3>5. PICK n \in Nat : n = Len(c.levels) /\ n > 1
      BY <2>1, <3>2
    <3>6. n \in DOMAIN c.levels
      BY <3>2, <3>5
    <3>7. QED
      BY <3>2, <3>3, <3>4, <3>5, <3>6
  <2>3. CallAsAsked(t)'
    BY <2>1, <2>2 DEF CallAsAsked, Owes
  <2>4. QED
    BY <2>1, <2>3 DEF AsAsked, AnsweredAsAsked
<1>2. CASE AnsweredOutside(t, v, late)
  <2>1. /\ d = Idle /\ answer'.list = l /\ answer'.val = v /\ answer'.forced = c.forced
        /\ answer'.overtaken = (c.overtaken \/ late)
    BY <1>2 DEF AnsweredOutside
  <2>2. CallAsAsked(t)'
    BY <2>1 DEF CallAsAsked, Idle
  <2>3. AnsweredAsAsked'
    BY <2>1 DEF AnsweredAsAsked
  <2>4. QED
    BY <2>2, <2>3
<1>3. QED
  BY <1>1, <1>2

\* Every call reads lists of the kinds that are asked of it.
LEMMA AlwaysAsAsked == Spec => []AsAsked
<1>1. Init => AsAsked
  BY Places DEF Init, AsAsked, AnsweredAsAsked, NoAnswer, KeptAsNamed, CallAsAsked, Idle
<1>2. Wellformed /\ Wellformed' /\ AsAsked /\ [Next]_vars => AsAsked'
  <2> SUFFICES ASSUME Wellformed, Wellformed', AsAsked, [Next]_vars PROVE AsAsked'
    OBVIOUS
  <2>1. crew \subseteq Threads
    BY DEF Wellformed, WellTyped
  <2>2. ASSUME NEW t \in Threads, \A u \in Threads \ {t} : call'[u] = call[u], CallAsAsked(t)',
               AnsweredAsAsked', KeptAsNamed'
        PROVE  AsAsked'
    <3>1. ASSUME NEW u \in Threads \ {t} PROVE CallAsAsked(u)'
      BY <2>2, <3>1 DEF AsAsked, CallAsAsked
    <3>2. QED
      BY <2>2, <3>1 DEF AsAsked
  <2>3. /\ \A k \in Cleared : k \in Keys
        /\ hashes' = hashes => KeptAsNamed'
    BY Places DEF AsAsked, KeptAsNamed
  <2>4. answer' = answer => AnsweredAsAsked'
    BY DEF AsAsked, AnsweredAsAsked
  <2>5. ASSUME NEW t \in Threads
        PROVE  call[t] \in CallState /\ CallAsAsked(t) /\ CallFormed(t)
    BY DEF AsAsked, Wellformed, WellTyped
  <2>6. ASSUME NEW t \in crew, NEW l \in Lists, NEW forced \in BOOLEAN, Ask(t, l, forced)
        PROVE  AsAsked'
    <3>1. CallAsAsked(t)'
      BY <2>1, <2>6, AskKeepsForm DEF CallAsAsked
    <3>2. hashes' = hashes /\ AnsweredAsAsked'
      BY <2>6 DEF Ask, AnsweredAsAsked, NoAnswer
    <3>3. QED
      BY <2>1, <2>2, <2>3, <2>6, <3>1, <3>2, AskKeepsForm
  <2>7. ASSUME NEW t \in crew, Take(t) PROVE AsAsked'
    <3>1. Waits(t) \/ \E h : Enters(t, h)
      BY <2>1, <2>7, Taking
    <3>2. CallAsAsked(t)'
      BY <3>1 DEF CallAsAsked, Waits, Enters, Same, Evaluating
    <3>3. QED
      BY <2>1, <2>2, <2>3, <2>4, <2>7, <3>2, Taking
  <2>8. ASSUME NEW k \in Keys, \A j \in Keys : j # k => hashes'[j] = hashes[j],
               DOMAIN hashes'[k] = 1..(Len(hashes[k]) + 1), DOMAIN hashes[k] = 1..Len(hashes[k]),
               Len(hashes[k]) \in Nat, \A h \in DOMAIN hashes[k] : hashes'[k][h] = hashes[k][h],
               hashes'[k][Len(hashes[k]) + 1].val = None
        PROVE  KeptAsNamed'
    <3> SUFFICES ASSUME NEW j \in Cleared, Unmixed(j), NEW h \in DOMAIN hashes'[j],
                        hashes'[j][h].val # None
                 PROVE  hashes'[j][h].val.of = j
      BY DEF KeptAsNamed
    <3>1. CASE j = k
      <4>1. h \in DOMAIN hashes[k] \/ h = Len(hashes[k]) + 1
        <5>1. PICK n \in Nat : n = Len(hashes[k])
          BY <2>8
        <5>2. h \in 1..(n + 1) /\ DOMAIN hashes[k] = 1..n
          BY <2>8, <3>1, <5>1
        <5>3. h \in 1..n \/ h = n + 1
          BY <5>2
        <5>4. QED
          BY <5>1, <5>2, <5>3
      <4>2. QED
        BY <2>8, <3>1, <4>1 DEF AsAsked, KeptAsNamed
    <3>2. CASE j # k
      BY <2>3, <2>8, <3>2 DEF AsAsked, KeptAsNamed
    <3>3. QED
      BY <3>1, <3>2
  <2>9. ASSUME NEW t \in crew, Make(t) PROVE AsAsked'
    <3>1. \E h : Enters(t, h)
      BY <2>1, <2>9, Making
    <3>2. CallAsAsked(t)'
      BY <3>1 DEF CallAsAsked, Enters, Same, Evaluating
    <3>3. KeptAsNamed'
      BY <2>1, <2>8, <2>9, Making
    <3>4. QED
      BY <2>1, <2>2, <2>4, <2>9, <3>2, <3>3, Making
  <2>10. ASSUME NEW t \in crew, Test(t) PROVE AsAsked'
    <3> DEFINE c == call[t]
               v == HashOf(Last(c.levels)).val
    <3>1. c.pc = "test" /\ ~c.forced /\ c.levels # <<>> /\ hashes' = hashes
      BY <2>1, <2>5, <2>10 DEF Test, CallAsAsked, CallFormed
    <3>2. CASE v # None
      <4>1. AnsweredInside(t, v, FALSE) \/ AnsweredOutside(t, v, FALSE)
        BY <2>1, <2>10, <3>2, TestKeepsForm
      <4>2. Unmixed(Last(c.levels).list) => v.of = Last(c.levels).list
        BY <2>1, <3>1, <3>2, KindHeld DEF AsAsked
      <4> HIDE DEF v
      <4>3. CallAsAsked(t)' /\ AnsweredAsAsked'
        BY <2>1, <3>1, <4>1, <4>2, AnswersAsAsked
      <4>4. QED
        BY <2>1, <2>2, <2>3, <2>10, <3>1, <4>3, TestKeepsForm
    <3>3. CASE v = None
      <4>1. answer' = answer /\ call'[t] = Evaluates(c)
        BY <2>1, <2>10, <3>3, TestKeepsForm
      <4>2. call'[t].pc \in {"open", "take"}
        BY <2>1, <2>5, <3>1, <4>1, Evaluation DEF Evaluating
      <4>3. CallAsAsked(t)'
        BY <4>2 DEF CallAsAsked
      <4>4. QED
        BY <2>1, <2>2, <2>3, <2>4, <2>10, <3>1, <4>1, <4>3, TestKeepsForm
    <3>4. QED
      BY <3>2, <3>3
  <2>11. ASSUME NEW t \in Threads, NEW v, NEW from, GoesOn(t, from, "store", v),
                Owes(call[t], Last(call[t].levels).list) => v.of = Last(call[t].levels).list
         PROVE  AsAsked'
    <3>1. CallAsAsked(t)'
      BY <2>11 DEF CallAsAsked, GoesOn, Same, Owes
    <3>2. QED
      BY <2>2, <2>3, <2>4, <2>11, <3>1 DEF GoesOn
  <2>12. ASSUME NEW t \in crew, Open(t) PROVE AsAsked'
    <3>1. /\ GoesOn(t, "open", "store", call'[t].val) /\ call'[t].val.of = "reflector"
          /\ Last(call[t].levels).list = "reflector"
      BY <2>1, <2>5, <2>12, OpenKeepsForm DEF GoesOn, CallFormed
    <3>2. QED
      BY <2>1, <2>11, <3>1
  <2>13. ASSUME NEW t \in crew, BeginFill(t) PROVE AsAsked'
    <3>1. GoesOn(t, "build", "fill", call[t].val)
      BY <2>1, <2>13, BeginFillKeepsForm
    <3>2. CallAsAsked(t)'
      BY <3>1 DEF CallAsAsked, GoesOn
    <3>3. QED
      BY <2>1, <2>2, <2>3, <2>4, <3>1, <3>2 DEF GoesOn
  <2>14. ASSUME NEW t \in crew, EndFill(t) PROVE AsAsked'
    <3> DEFINE v == [of |-> Last(call[t].levels).list, ref |-> call[t].val.ref, whole |-> TRUE]
    <3>1. GoesOn(t, "fill", "store", v) /\ v.of = Last(call[t].levels).list
      BY <2>1, <2>14, EndFillKeepsForm
    <3> HIDE DEF v
    <3>2. QED
      BY <2>1, <2>11, <3>1
  <2>15. ASSUME NEW t \in crew, Build(t) PROVE AsAsked'
    <3> DEFINE l == Last(call[t].levels).list
    <3>1. /\ GoesOn(t, "build", "store", call'[t].val) /\ call[t].pc = "build"
          /\ call[t].val.of = Source[l] => call'[t].val.of = l
      BY <2>1, <2>15, BuildKeepsForm DEF GoesOn
    <3>2. l \in Lists /\ l # "reflector"
      BY <2>1, <2>5, <3>1, HashTaken DEF CallFormed
    <3>3. Owes(call[t], l) => Owes(call[t], Source[l])
      BY <3>2, OneKind DEF Owes
    <3>4. Owes(call[t], l) => call'[t].val.of = l
      BY <2>1, <2>5, <3>1, <3>3 DEF CallAsAsked
    <3> HIDE DEF l
    <3>5. QED
      BY <2>1, <2>11, <3>1, <3>4 DEF l
  <2>16. ASSUME NEW t \in crew, Store(t) PROVE AsAsked'
    <3> DEFINE c == call[t]
               l == Last(c.levels).list
               k == Key(l)
               g == Last(c.levels).hash
    <3>1. /\ c.pc = "store" /\ c.levels # <<>> /\ k \in Keys
          /\ \A j \in Keys : DOMAIN hashes'[j] = DOMAIN hashes[j] /\ (j # k => hashes'[j] = hashes[j])
          /\ \A h \in DOMAIN hashes[k] : hashes'[k][h].val = IF h = g THEN c.val ELSE hashes[k][h].val
          /\ call'[t] = [c EXCEPT !.pc = "read"] /\ \A u \in Threads \ {t} : call'[u] = call[u]
      <4>1. t \in Threads
        BY <2>1
      <4>2. c.pc = "store" /\ c.levels # <<>> /\ k \in Keys
        BY <2>16, <4>1, Storing, Zenon
      <4>3. \A j \in Keys : DOMAIN hashes'[j] = DOMAIN hashes[j] /\ (j # k => hashes'[j] = hashes[j])
        BY <2>16, <4>1, Storing, Zenon
      <4>4. \A h \in DOMAIN hashes[k] :
              /\ hashes'[k][h].since = hashes[k][h].since
              /\ hashes'[k][h].val = IF h = g THEN c.val ELSE hashes[k][h].val
        BY <2>16, <4>1, Storing, Zenon
      <4>5. call'[t] = [c EXCEPT !.pc = "read"] /\ \A u \in Threads \ {t} : call'[u] = call[u]
        BY <2>16, <4>1, Storing, Zenon
      <4> HIDE DEF l, k, g, c
      <4>6. QED
        BY <4>2, <4>3, <4>4, <4>5
    <3>2. answer' = answer /\ l \in Lists
      BY <2>1, <2>16, <3>1, HashTaken DEF Store
    <3>3. CallAsAsked(t)'
      BY <2>1, <2>5, <3>1 DEF CallAsAsked, Owes, CallState
    <3>4. (k \in Cleared /\ Unmixed(k)) => c.val.of = k
      BY <2>1, <2>5, <3>1, <3>2, OneKind DEF CallAsAsked, Owes
    <3>5. KeptAsNamed'
      <4> HIDE DEF k, g, c
      <4> SUFFICES ASSUME NEW j \in Cleared, Unmixed(j), NEW h \in DOMAIN hashes'[j],
                          hashes'[j][h].val # None
                   PROVE  hashes'[j][h].val.of = j
        BY DEF KeptAsNamed
      <4>1. j \in Keys /\ h \in DOMAIN hashes[j] /\ (hashes[j][h].val # None => hashes[j][h].val.of = j)
        BY <2>3, <3>1 DEF AsAsked, KeptAsNamed
      <4>2. QED
        BY <3>1, <3>4, <4>1
    <3>6. QED
      BY <2>1, <2>2, <2>4, <3>1, <3>2, <3>3, <3>5
  <2>17. ASSUME NEW t \in crew, Read(t) PROVE AsAsked'
    <3> DEFINE c == call[t]
               l == Last(c.levels).list
               v == HashOf(Last(c.levels)).val
               late == v # c.val
    <3>1. /\ v \in List /\ Proper(v) /\ (AnsweredInside(t, v, late) \/ AnsweredOutside(t, v, late))
          /\ \A u \in Threads \ {t} : call'[u] = call[u]
      BY <2>1, <2>17, ReadKeepsForm
    <3>2. hashes' = hashes /\ c.pc = "read" /\ c.levels # <<>> /\ v # None
      BY <2>1, <2>5, <2>17 DEF Read, CallFormed
    <3>3. (Unmixed(l) \/ (c.forced /\ ~c.overtaken /\ ~late)) => v.of = l
      <4>1. Unmixed(l) => v.of = l
        BY <2>1, <3>2, KindHeld DEF AsAsked
      <4>2. (c.forced /\ ~c.overtaken /\ ~late) => v.of = l
        BY <2>1, <2>5, <3>2 DEF CallAsAsked, Owes
      <4>3. QED
        BY <4>1, <4>2
    <3>4. late \in BOOLEAN
      OBVIOUS
    <3> HIDE DEF v, late
    <3>5. CallAsAsked(t)' /\ AnsweredAsAsked'
      BY <2>1, <3>1, <3>3, <3>4, AnswersAsAsked
    <3>6. QED
      BY <2>1, <2>2, <2>3, <3>1, <3>2, <3>5
  <2>18. ASSUME NEW t \in crew, Fails(t) PROVE AsAsked'
    <3>1. call'[t] = Idle /\ (\A u \in Threads \ {t} : call'[u] = call[u]) /\ UNCHANGED <<hashes, answer>>
      BY <2>1, <2>18, FailsKeepsForm DEF Fails
    <3>2. CallAsAsked(t)'
      BY <3>1 DEF CallAsAsked, Idle
    <3>3. QED
      BY <2>1, <2>2, <2>3, <2>4, <3>1, <3>2
  <2>19. ASSUME NEW t \in crew, BeginClear(t) PROVE AsAsked'
    <3>1. /\ call'[t].pc = "clear" /\ UNCHANGED <<hashes, answer>>
          /\ \A u \in Threads \ {t} : call'[u] = call[u]
      BY <2>1, <2>19, BeginClearKeepsForm DEF BeginClear
    <3>2. CallAsAsked(t)'
      BY <3>1 DEF CallAsAsked
    <3>3. QED
      BY <2>1, <2>2, <2>3, <2>4, <3>1, <3>2
  <2>20. ASSUME NEW t \in crew, Clear(t) PROVE AsAsked'
    <3>1. PICK k \in call[t].todo : Clears(t, k)
      BY <2>20 DEF Clear
    <3>2. answer' = answer /\ call[t].pc = "clear"
      BY <2>20, <3>1 DEF Clears, Clear
    <3>3. call'[t].pc \in {"idle", "clear"} /\ \A u \in Threads \ {t} : call'[u] = call[u]
      BY <2>1, <3>1, <3>2, Clearing DEF Idle
    <3>4. CallAsAsked(t)'
      BY <3>3 DEF CallAsAsked
    <3>5. KeptAsNamed'
      BY <2>1, <2>8, <3>1, <3>2, Clearing
    <3>6. QED
      BY <2>1, <2>2, <2>4, <3>2, <3>3, <3>4, <3>5
  <2>21. CASE Compile
    BY <2>3, <2>4, <2>21 DEF Compile, AsAsked, CallAsAsked
  <2>22. CASE UNCHANGED vars
    BY <2>3, <2>4, <2>22 DEF vars, AsAsked, CallAsAsked
  <2>23. QED
    BY <2>6, <2>7, <2>9, <2>10, <2>12, <2>13, <2>14, <2>15, <2>16, <2>17, <2>18, <2>19, <2>20, <2>21,
       <2>22 DEF Next
<1>3. QED
  BY <1>1, <1>2, MetadataWellformed, PTL DEF Spec

\* A list of the kind asked for is answered, however many threads ask for whatever.
THEOREM AnsweredAsAskedHolds == Spec => []AnsweredAsAsked
<1>1. AsAsked => AnsweredAsAsked
  BY DEF AsAsked
<1>2. QED
  BY <1>1, AlwaysAsAsked, PTL

-----------------------------------------------------------------------------
(* One thread: a list and the one it was made from.                        *)

\* The name a list is kept under has the name of its source above it, and so on.
SourceName(k) ==
  IF k = "reflector" THEN k ELSE IF k = "" THEN "properties" ELSE Key(Source[k])

Above(k) ==
  {SourceName(k), SourceName(SourceName(k)), SourceName(SourceName(SourceName(k))),
   SourceName(SourceName(SourceName(SourceName(k))))}

\* How far a list is from the reflector.
Depth ==
  [reflector |-> 0, methods |-> 1, method_names |-> 2, properties |-> 1, property_names |-> 2,
   relations |-> 2, relation_names |-> 3, bt_relations |-> 3, bt_relation_names |-> 4,
   hm_relations |-> 3, hm_relation_names |-> 4, attributes |-> 2, attribute_names |-> 3,
   stream_attributes |-> 3, stream_attribute_names |-> 4, transient_attributes |-> 2,
   transient_attribute_names |-> 3]

\* Lists of one name are as far from it and have sources of one name; the others, of
\* another one.
LEMMA NamesApart ==
  /\ \A l \in Lists : Depth[l] \in 0..4
  /\ \A l \in Lists \ {"reflector"} :
       /\ Source[l] \in Lists /\ Depth[Source[l]] < Depth[l]
       /\ SourceName(Key(l)) = Key(Source[l]) /\ Key(l) # "reflector"
  /\ \A l, m \in Lists : Key(l) = Key(m) => Depth[l] = Depth[m]
  /\ \A k \in Keys : /\ SourceName(k) \in Keys /\ (k # "reflector" => SourceName(k) # k)
                     /\ SourceName(SourceName(SourceName(SourceName(k)))) = "reflector"
<1>1. \A l \in Lists : l \in DOMAIN Source \cup {"reflector"}
  BY ListsAssumption
<1> DEFINE First == {"methods", "properties"}
           Second == {"method_names", "property_names", "relations", "attributes", "transient_attributes"}
           Third == {"relation_names", "bt_relations", "hm_relations", "attribute_names", "stream_attributes",
                    "transient_attribute_names"}
           Fourth == {"bt_relation_names", "hm_relation_names", "stream_attribute_names"}
<1>2. DOMAIN Source = First \cup Second \cup Third \cup Fourth
  BY DEF Source
<1>3. \A l \in First : /\ Source[l] \in {"reflector"} /\ Depth[l] = 1
                      /\ SourceName(Key(l)) = Key(Source[l]) /\ Key(l) # "reflector"
                      /\ SourceName(Key(l)) # Key(l)
  <2>1. /\ Source["methods"] = "reflector" /\ Depth["methods"] = 1
        /\ Source["properties"] = "reflector" /\ Depth["properties"] = 1
    BY DEF Source, Depth
  <2>2. QED
    BY <2>1 DEF SourceName, Key
<1>4. \A l \in Second : /\ Source[l] \in {"methods", "properties"} /\ Depth[l] = 2
                       /\ SourceName(Key(l)) = Key(Source[l]) /\ Key(l) # "reflector"
                       /\ SourceName(Key(l)) # Key(l)
  <2>1. /\ Source["method_names"] = "methods" /\ Depth["method_names"] = 2
        /\ Source["property_names"] = "properties" /\ Depth["property_names"] = 2
        /\ Source["relations"] = "properties" /\ Depth["relations"] = 2
        /\ Source["attributes"] = "properties" /\ Depth["attributes"] = 2
        /\ Source["transient_attributes"] = "properties" /\ Depth["transient_attributes"] = 2
    BY DEF Source, Depth
  <2>2. QED
    BY <2>1 DEF SourceName, Key
<1>5. \A l \in Third : /\ Source[l] \in {"relations", "attributes", "transient_attributes"} /\ Depth[l] = 3
                      /\ SourceName(Key(l)) = Key(Source[l]) /\ Key(l) # "reflector"
                      /\ SourceName(Key(l)) # Key(l)
  <2>1. /\ Source["relation_names"] = "relations" /\ Depth["relation_names"] = 3
        /\ Source["bt_relations"] = "relations" /\ Depth["bt_relations"] = 3
        /\ Source["hm_relations"] = "relations" /\ Depth["hm_relations"] = 3
        /\ Source["attribute_names"] = "attributes" /\ Depth["attribute_names"] = 3
        /\ Source["stream_attributes"] = "attributes" /\ Depth["stream_attributes"] = 3
        /\ Source["transient_attribute_names"] = "transient_attributes" /\ Depth["transient_attribute_names"] = 3
    BY DEF Source, Depth
  <2>2. QED
    BY <2>1 DEF SourceName, Key
<1>6. \A l \in Fourth : /\ Source[l] \in {"bt_relations", "hm_relations", "stream_attributes"} /\ Depth[l] = 4
                       /\ SourceName(Key(l)) = Key(Source[l]) /\ Key(l) # "reflector"
                       /\ SourceName(Key(l)) # Key(l)
  <2>1. /\ Source["bt_relation_names"] = "bt_relations" /\ Depth["bt_relation_names"] = 4
        /\ Source["hm_relation_names"] = "hm_relations" /\ Depth["hm_relation_names"] = 4
        /\ Source["stream_attribute_names"] = "stream_attributes" /\ Depth["stream_attribute_names"] = 4
    BY DEF Source, Depth
  <2>2. QED
    BY <2>1 DEF SourceName, Key
<1>7. Depth["reflector"] = 0 /\ Key("reflector") = "reflector" /\ SourceName("reflector") = "reflector"
  BY DEF Depth, Key, SourceName
<1>8. \A l \in DOMAIN Source \cup {"reflector"} : Depth[l] \in 0..4
  BY <1>2, <1>3, <1>4, <1>5, <1>6, <1>7
<1>9. \A l \in DOMAIN Source :
        /\ Depth[Source[l]] < Depth[l] /\ SourceName(Key(l)) = Key(Source[l]) /\ Key(l) # "reflector"
        /\ SourceName(Key(l)) # Key(l)
  <2>1. \A l \in First : Depth[Source[l]] < Depth[l]
    BY <1>3, <1>7
  <2>2. \A l \in Second : Depth[Source[l]] < Depth[l]
    BY <1>3, <1>4
  <2>3. \A l \in Third : Depth[Source[l]] < Depth[l]
    BY <1>4, <1>5
  <2>4. \A l \in Fourth : Depth[Source[l]] < Depth[l]
    BY <1>5, <1>6
  <2>5. QED
    BY <1>2, <1>3, <1>4, <1>5, <1>6, <2>1, <2>2, <2>3, <2>4
<1>10. \A l, m \in DOMAIN Source \cup {"reflector"} : Key(l) = Key(m) => Depth[l] = Depth[m]
  <2>1. \A l \in DOMAIN Source \cup {"reflector"} : Key(l) = "" => l \in Second
    BY <1>2 DEF Key
  <2>2. \A l, m \in DOMAIN Source \cup {"reflector"} : Key(l) = Key(m) => l = m \/ Key(l) = ""
    BY DEF Key
  <2>3. QED
    BY <1>4, <2>1, <2>2, Zenon
<1>11. \A l \in DOMAIN Source \cup {"reflector"} :
         SourceName(SourceName(SourceName(SourceName(Key(l))))) = "reflector"
  <2>1. \A l \in First : SourceName(Key(l)) = "reflector"
    BY <1>3, <1>7
  <2>2. \A l \in Second : SourceName(SourceName(Key(l))) = "reflector"
    BY <1>4, <2>1
  <2>3. \A l \in Third : SourceName(SourceName(SourceName(Key(l)))) = "reflector"
    BY <1>5, <2>2
  <2>4. \A l \in Fourth : SourceName(SourceName(SourceName(SourceName(Key(l))))) = "reflector"
    BY <1>6, <2>3
  <2>5. QED
    BY <1>2, <1>7, <2>1, <2>2, <2>3, <2>4
<1>12. Key("reflector") = "reflector" /\ SourceName("reflector") = "reflector" /\ "reflector" \in Lists
  BY ListsAssumption DEF Key, SourceName
<1>13. \A l \in Lists \ {"reflector"} : l \in DOMAIN Source /\ Source[l] \in Lists
  BY <1>1, ListsAssumption
<1>14. ASSUME NEW k \in Keys
       PROVE  /\ SourceName(k) \in Keys /\ (k # "reflector" => SourceName(k) # k)
              /\ SourceName(SourceName(SourceName(SourceName(k)))) = "reflector"
  <2>1. PICK l \in Lists : k = Key(l)
    BY DEF Keys
  <2>2. CASE l = "reflector"
    BY <1>12, <2>1, <2>2 DEF Keys
  <2>3. CASE l # "reflector"
    BY <1>1, <1>9, <1>11, <1>13, <2>1, <2>3 DEF Keys
  <2>4. QED
    BY <2>2, <2>3
<1>15. QED
  BY <1>1, <1>8, <1>9, <1>10, <1>13, <1>14

\* What is above a name.
LEMMA NamesAbove ==
  ASSUME NEW k \in Keys, NEW a \in Above(k)
  PROVE  /\ a \in Keys /\ SourceName(a) \in Above(k)
         /\ a = SourceName(k) \/ a \in Above(SourceName(k))
         /\ k = "reflector" => a = k
<1>1. SourceName("reflector") = "reflector"
  BY DEF SourceName
<1>2. /\ SourceName(k) \in Keys /\ SourceName(SourceName(k)) \in Keys
      /\ SourceName(SourceName(SourceName(k))) \in Keys
      /\ SourceName(SourceName(SourceName(SourceName(k)))) = "reflector"
      /\ SourceName(SourceName(SourceName(SourceName(k)))) \in Keys
  BY NamesApart
<1>3. QED
  BY <1>1, <1>2 DEF Above

\* What is kept for a name is no older than what is kept for those made from it.
NewestOrder ==
  /\ \A k \in Keys : Kept(k) => Version(Holds(k)) <= schema
  /\ \A k \in Keys : \A a \in Above(k) :
       Kept(k) /\ Kept(a) => Version(Holds(k)) <= Version(Holds(a))

\* A call without others has the Hashes the names have now, reads what is kept for the
\* source of its list, and keeps a new reflector only.
CallNewest(t) ==
  LET c == call[t]
      l == Last(c.levels).list
  IN
  /\ \A i \in DOMAIN c.levels : c.levels[i].hash = Len(hashes[Key(c.levels[i].list)])
  /\ \A i, j \in DOMAIN c.levels : i < j => Depth[c.levels[j].list] < Depth[c.levels[i].list]
  /\ c.pc \in {"take", "make"} => \A i \in DOMAIN c.levels : Depth[c.want] < Depth[c.levels[i].list]
  /\ c.pc \in {"build", "fill"} => Holds(Key(Source[l])) = c.val
  /\ c.pc \in {"store", "read"} =>
       /\ Version(c.val) <= schema
       /\ l = "reflector" => \A k \in Keys : Kept(k) => Version(Holds(k)) <= Version(c.val)
       /\ l # "reflector" => /\ Kept(Key(Source[l]))
                             /\ Version(c.val) = Version(Holds(Key(Source[l])))
  /\ c.pc = "read" => HashOf(Last(c.levels)).val = c.val

Newest ==
  Alone => /\ NewestOrder
           /\ \A t \in crew : CallNewest(t)
           /\ \A t \in Threads \ crew : call[t] = Idle

\* What a name holds was read from the server.
LEMMA HoldsProper ==
  ASSUME Wellformed, NEW k \in Keys, Kept(k)
  PROVE  Holds(k) \in List /\ Proper(Holds(k)) /\ Version(Holds(k)) \in 0..MaxVersion
<1>1. hashes[k] # <<>> /\ Holds(k) # None /\ Holds(k) \in List
  BY NamesTyped DEF Kept, Holds, Wellformed
<1>2. Proper(Holds(k))
  BY <1>1, LastHash DEF Wellformed, KeptFormed
<1>3. QED
  BY <1>1, <1>2, ProperList

\* Steps that keep nothing new.
LEMMA NewestOrderStays ==
  ASSUME Wellformed, Widens, NewestOrder, schema <= schema', schema' \in 0..MaxVersion,
         \A k \in Keys : Holds(k)' = Holds(k) \/ Holds(k)' = None
  PROVE  NewestOrder'
<1>1. ASSUME NEW k \in Keys, Kept(k)'
      PROVE  /\ Kept(k) /\ Holds(k)' = Holds(k) /\ Version(Holds(k)) \in 0..MaxVersion
             /\ Version(Holds(k))' = Version(Holds(k))
  <2>1. Kept(k) /\ Holds(k)' = Holds(k)
    BY <1>1 DEF Kept
  <2>2. Proper(Holds(k)) /\ Holds(k) \in List /\ Version(Holds(k)) \in 0..MaxVersion
    BY <2>1, HoldsProper
  <2>3. opened'[Holds(k).ref].version = opened[Holds(k).ref].version
    BY <2>2 DEF Widens, Proper
  <2>4. QED
    BY <2>1, <2>2, <2>3 DEF Version
<1>2. schema \in 0..MaxVersion
  BY DEF Wellformed, WellTyped
<1>3. \A k \in Keys : Kept(k)' => Version(Holds(k))' <= schema'
  BY <1>1, <1>2 DEF NewestOrder
<1>4. ASSUME NEW k \in Keys, NEW a \in Above(k), Kept(k)', Kept(a)'
      PROVE  Version(Holds(k))' <= Version(Holds(a))'
  BY <1>1, <1>4, NamesAbove DEF NewestOrder
<1>5. QED
  BY <1>3, <1>4 DEF NewestOrder

\* The Hash of the innermost level is the one its name has now.
LEMMA NewestLevel ==
  ASSUME Wellformed, NEW t \in Threads, CallNewest(t), call[t].levels # <<>>
  PROVE  LET k == Key(Last(call[t].levels).list)
         IN  /\ Last(call[t].levels).list \in Lists /\ k \in Keys
             /\ hashes[k] \in Seq(Hash) /\ Len(hashes[k]) \in DOMAIN hashes[k]
             /\ Last(call[t].levels).hash = Len(hashes[k])
             /\ Holds(k) = HashOf(Last(call[t].levels)).val
<1> DEFINE c == call[t]
           k == Key(Last(c.levels).list)
<1>1. c \in CallState /\ CallFormed(t)
  BY DEF Wellformed, WellTyped
<1>2. /\ Len(c.levels) \in DOMAIN c.levels /\ Last(c.levels) = c.levels[Len(c.levels)]
      /\ Last(c.levels).list \in Lists /\ k \in Keys
  BY <1>1, Levels
<1>3. Last(c.levels).hash = Len(hashes[k]) /\ Last(c.levels).hash \in DOMAIN hashes[k]
  BY <1>1, <1>2 DEF CallNewest, CallFormed
<1>4. hashes[k] \in Seq(Hash) /\ DOMAIN hashes[k] = 1..Len(hashes[k]) /\ hashes[k] # <<>>
  <2>1. hashes[k] \in Seq(Hash)
    BY <1>2 DEF Wellformed, WellTyped
  <2>2. DOMAIN hashes[k] = 1..Len(hashes[k])
    BY <2>1, LenProperties
  <2>3. QED
    BY <1>3, <2>1, <2>2, EmptySeq
<1> HIDE DEF k
<1>5. Holds(k) = hashes[k][Len(hashes[k])].val
  BY <1>2, <1>4, LastHash
<1>6. QED
  BY <1>2, <1>3, <1>4, <1>5 DEF HashOf, k

\* A call that is given the Hash its name has.
LEMMA EntersNewest ==
  ASSUME Wellformed, NEW t \in Threads, CallNewest(t), call[t].pc \in {"take", "make"},
         NEW k \in Keys, k = Key(call[t].want), NEW h \in Nat, h = Len(hashes'[k]),
         \A j \in Keys : j # k => hashes'[j] = hashes[j], Enters(t, h)
  PROVE  CallNewest(t)'
<1> DEFINE c == call[t]
           d == call'[t]
           e == [list |-> c.want, hash |-> h]
           n == Len(c.levels)
<1>1. c \in CallState /\ c.levels \in Seq(Level) /\ e \in Level /\ e.list = c.want /\ e.hash = h
      /\ c.want \in Lists
  BY DEF Wellformed, WellTyped, CallState, Level
<1>2. d.levels = Append(c.levels, e) /\ (d.pc = "test" \/ Evaluating(c.want, d))
  BY DEF Enters
<1> HIDE DEF e, d
<1>3. /\ n \in Nat /\ DOMAIN d.levels = 1..(n + 1) /\ DOMAIN c.levels = 1..n
      /\ \A i \in 1..n : d.levels[i] = c.levels[i]
      /\ d.levels[n + 1] = e
  BY <1>1, <1>2, Grown
<1>4. \A i \in 1..n : c.levels[i].list \in Lists /\ Key(c.levels[i].list) \in Keys
  BY <1>1, <1>3, Levels
<1>5. \A i \in 1..n : Depth[c.want] < Depth[c.levels[i].list]
  BY <1>3 DEF CallNewest
<1>6. \A l \in Lists : Depth[l] \in Int
  BY NamesApart
<1>7. \A i \in 1..n : Key(c.levels[i].list) # k
  BY <1>1, <1>4, <1>5, <1>6, NamesApart
<1>8. ASSUME NEW i \in 1..(n + 1)
      PROVE  d.levels[i].hash = Len(hashes'[Key(d.levels[i].list)])
  <2>1. CASE i = n + 1
    BY <1>1, <1>3, <2>1
  <2>2. CASE i # n + 1
    <3>1. i \in 1..n
      BY <1>3, <2>2
    <3>2. c.levels[i].hash = Len(hashes[Key(c.levels[i].list)])
      BY <1>3, <3>1 DEF CallNewest
    <3>3. QED
      BY <1>3, <1>4, <1>7, <3>1, <3>2
  <2>3. QED
    BY <2>1, <2>2
<1>9. ASSUME NEW i \in 1..(n + 1), NEW j \in 1..(n + 1), i < j
      PROVE  Depth[d.levels[j].list] < Depth[d.levels[i].list]
  <2>1. i \in 1..n
    BY <1>3, <1>9
  <2>2. CASE j = n + 1
    BY <1>1, <1>3, <1>5, <2>1, <2>2
  <2>3. CASE j # n + 1
    <3>1. j \in 1..n
      BY <1>3, <2>3
    <3>2. QED
      BY <1>3, <1>9, <2>1, <3>1 DEF CallNewest
  <2>4. QED
    BY <2>2, <2>3
<1>10. ASSUME d.pc = "take", NEW i \in 1..(n + 1)
       PROVE  Depth[d.want] < Depth[d.levels[i].list]
  <2>1. c.want # "reflector" /\ d.want = Source[c.want]
    BY <1>2, <1>10 DEF Evaluating
  <2>2. d.want \in Lists /\ Depth[d.want] < Depth[c.want]
    BY <1>1, <2>1, NamesApart
  <2>3. CASE i = n + 1
    BY <1>1, <1>3, <2>2, <2>3
  <2>4. CASE i # n + 1
    <3>1. i \in 1..n
      BY <1>3, <2>4
    <3>2. Depth[c.want] < Depth[c.levels[i].list] /\ d.levels[i] = c.levels[i]
      BY <1>3, <1>5, <3>1
    <3>3. Depth[d.want] \in Int /\ Depth[c.want] \in Int /\ Depth[c.levels[i].list] \in Int
      BY <1>1, <1>4, <1>6, <2>2, <3>1
    <3>4. QED
      BY <2>2, <3>2, <3>3
  <2>5. QED
    BY <2>3, <2>4
<1>11. d.pc \in {"test", "open", "take"}
  BY <1>2 DEF Evaluating
<1>12. QED
  BY <1>3, <1>8, <1>9, <1>10, <1>11 DEF CallNewest, d

\* A call whose block is begun.
LEMMA EvaluatesNewest ==
  ASSUME Wellformed, NEW t \in Threads, CallNewest(t), call[t].levels # <<>>,
         call'[t] = Evaluates(call[t]), UNCHANGED hashes
  PROVE  CallNewest(t)'
<1> DEFINE c == call[t]
           d == call'[t]
           l == Last(c.levels).list
           n == Len(c.levels)
<1>1. c \in CallState
  BY DEF Wellformed, WellTyped
<1>2. d.levels = c.levels /\ Evaluating(l, d)
  BY <1>1, Evaluation
<1>3. /\ n \in DOMAIN c.levels /\ DOMAIN c.levels = 1..n /\ n \in Nat
      /\ Last(c.levels) = c.levels[n] /\ l \in Lists
      /\ \A i \in DOMAIN c.levels : c.levels[i].list \in Lists
  BY <1>1, Levels
<1>4. ASSUME d.pc = "take", NEW i \in DOMAIN c.levels
      PROVE  Depth[d.want] < Depth[c.levels[i].list]
  <2>1. l # "reflector" /\ d.want = Source[l]
    BY <1>2, <1>4 DEF Evaluating
  <2>2. d.want \in Lists /\ Depth[d.want] < Depth[l]
    BY <1>3, <2>1, NamesApart
  <2>3. CASE i = n
    BY <1>3, <2>2, <2>3
  <2>4. CASE i # n
    <3>1. i < n
      BY <1>3, <2>4
    <3>2. Depth[l] < Depth[c.levels[i].list]
      BY <1>3, <3>1 DEF CallNewest
    <3>3. Depth[d.want] \in Int /\ Depth[l] \in Int /\ Depth[c.levels[i].list] \in Int
      BY <1>3, <2>2, NamesApart
    <3>4. QED
      BY <2>2, <3>2, <3>3
  <2>5. QED
    BY <2>3, <2>4
<1>5. d.pc \in {"open", "take"}
  BY <1>2 DEF Evaluating
<1> HIDE DEF d
<1>6. QED
  BY <1>2, <1>4, <1>5 DEF CallNewest, d

\* A block that is answered has what its name holds.
LEMMA AnswersNewest ==
  ASSUME Wellformed, NEW t \in Threads, CallNewest(t), call[t].levels # <<>>,
         NEW v, v = HashOf(Last(call[t].levels)).val, NEW late,
         AnsweredInside(t, v, late) \/ AnsweredOutside(t, v, late), UNCHANGED hashes
  PROVE  CallNewest(t)'
<1> DEFINE c == call[t]
           d == call'[t]
           n == Len(c.levels)
<1>1. c \in CallState /\ CallChained(t) /\ c.levels \in Seq(Level)
  BY DEF Wellformed, WellTyped, CallState
<1>2. CASE AnsweredOutside(t, v, late)
  <2>1. d.pc = "idle" /\ d.levels = <<>>
    BY <1>2 DEF AnsweredOutside, Idle
  <2>2. QED
    BY <2>1 DEF CallNewest
<1>3. CASE AnsweredInside(t, v, late)
  <2>1. d.pc = "build" /\ d.levels = Front(c.levels) /\ d.val = v /\ n > 1
    BY <1>3 DEF AnsweredInside
  <2>2. /\ n \in Nat \ {0} /\ DOMAIN c.levels = 1..n /\ Last(c.levels) = c.levels[n]
        /\ d.levels \in Seq(Level) /\ Len(d.levels) = n - 1 /\ DOMAIN d.levels = 1..(n - 1)
        /\ \A i \in 1..(n - 1) : d.levels[i] = c.levels[i]
    BY <1>1, <2>1, FrontAndLast, ZenonT(30)
  <2> HIDE DEF d, n
  <2>3. n \in 1..n /\ n - 1 \in 1..(n - 1) /\ \A i \in 1..(n - 1) : i \in 1..n
    BY <2>1, <2>2
  <2>4. Last(d.levels) = c.levels[n - 1] /\ c.levels[n].list = Source[c.levels[n - 1].list]
    BY <1>1, <2>1, <2>2, <2>3 DEF Last, CallChained
  <2>5. PICK k \in Keys : k = Key(c.levels[n].list)
    BY <2>2, NewestLevel
  <2>6. Holds(k)' = v
    BY <2>2, <2>5, NewestLevel DEF Holds
  <2>7. k = Key(Source[Last(d.levels).list])
    BY <2>4, <2>5
  <2>8. QED
    BY <2>1, <2>2, <2>3, <2>6, <2>7, Zenon DEF CallNewest, Holds, d
<1>4. QED
  BY <1>2, <1>3

\* A call that goes on with the same list, or the list made from it.
LEMMA BuildsNewest ==
  ASSUME Wellformed, Widens, NewestOrder, NEW t \in Threads, CallNewest(t), NEW v \in List,
         NEW from \in {"build", "fill"}, NEW to \in {"fill", "store"}, GoesOn(t, from, to, v),
         v.ref = call[t].val.ref, to = "fill" => v = call[t].val
  PROVE  CallNewest(t)'
<1> DEFINE c == call[t]
           d == call'[t]
           l == Last(c.levels).list
<1>1. c \in CallState /\ CallFormed(t) /\ c.val \in List /\ c.levels # <<>> /\ c.pc = from
  BY DEF Wellformed, WellTyped, CallState, CallFormed, GoesOn
<1>2. /\ d.pc = to /\ d.val = v /\ d.levels = c.levels /\ UNCHANGED <<hashes, schema>>
  BY DEF GoesOn
<1>3. l \in Lists /\ l # "reflector" /\ Proper(c.val)
  BY <1>1, Levels DEF CallFormed, InBlock
<1>4. PICK s \in Keys : s = Key(Source[l])
  BY <1>3, NamesApart DEF Keys
<1>5. PICK w \in List : w = c.val
  BY <1>1
<1>6. Holds(s) = w /\ w # None /\ Kept(s) /\ Version(w) <= schema
  BY <1>1, <1>3, <1>4, <1>5, ProperList DEF CallNewest, NewestOrder, Kept
<1>7. Version(v)' = Version(w) /\ Version(w)' = Version(w)
  BY <1>1, <1>3, <1>5, VersionsStay DEF Version
<1>8. Holds(s)' = Holds(s)
  BY <1>2, Zenon DEF Holds
<1> HIDE DEF d
<1>9. CASE to = "fill"
  BY <1>2, <1>4, <1>6, <1>8, <1>9, <1>5, Zenon DEF CallNewest, d, Holds
<1>10. CASE to = "store"
  <2>1. Last(d.levels).list = l /\ d.pc = "store"
    BY <1>2, <1>10
  <2>2. Version(v)' = Version(Holds(s))'
    BY <1>6, <1>7, <1>8 DEF Version
  <2>3. Version(v)' <= schema'
    BY <1>2, <1>6, <1>7 DEF Version
  <2>4. Kept(s)'
    BY <1>6, <1>8 DEF Kept
  <2>5. QED
    BY <1>2, <1>3, <1>4, <2>1, <2>2, <2>3, <2>4, Zenon DEF CallNewest, d, Version, Kept, Holds
<1>11. QED
  BY <1>9, <1>10

\* What is put in its Hash is as new as what it was made from.
LEMMA StoresNewest ==
  ASSUME Wellformed, Wellformed', Widens, NewestOrder, NEW t \in Threads, CallNewest(t), Store(t)
  PROVE  NewestOrder' /\ CallNewest(t)'
<1> DEFINE c == call[t]
<1>1. c.pc = "store" /\ c.levels # <<>> /\ c \in CallState /\ c.val \in List /\ Last(c.levels).list \in Lists
  BY Storing, Levels DEF Wellformed, WellTyped, CallState
<1>2. PICK l \in Lists : l = Last(c.levels).list
  BY <1>1
<1>3. PICK w \in List : w = c.val
  BY <1>1
<1>4. PICK k \in Keys : k = Key(l)
  BY <1>2, Storing
<1>5. PICK h \in DOMAIN hashes[k] : h = Last(c.levels).hash
  BY <1>4, <1>2, Storing
<1>6. /\ c.pc = "store" /\ c.levels # <<>>
      /\ \A j \in Keys : Len(hashes'[j]) = Len(hashes[j]) /\ (j # k => hashes'[j] = hashes[j])
      /\ hashes'[k][h].val = w
      /\ call'[t] = [c EXCEPT !.pc = "read"]
  BY <1>4, <1>5, <1>2, <1>3, Storing, ZenonT(30)
<1>7. UNCHANGED <<schema, opened>>
  BY DEF Store
<1>8. c \in CallState /\ CallFormed(t) /\ Proper(w)
  BY <1>6, <1>3, ZenonT(30) DEF Wellformed, WellTyped, CallState, CallFormed, InBlock
<1>9. h = Len(hashes[k]) /\ hashes[k] # <<>>
  <2>1. h = Len(hashes[k]) /\ hashes[k] \in Seq(Hash) /\ Len(hashes[k]) \in DOMAIN hashes[k]
    BY <1>4, <1>5, <1>6, <1>2, NewestLevel
  <2>2. QED
    BY <2>1, LenProperties, EmptySeq
<1>10. Holds(k)' = w
  <2>1. hashes'[k] # <<>> /\ Len(hashes'[k]) = h
    <3>1. hashes'[k] \in Seq(Hash) /\ hashes[k] \in Seq(Hash) /\ Len(hashes'[k]) = Len(hashes[k])
      BY <1>4, <1>6 DEF Wellformed, WellTyped
    <3>2. QED
      BY <1>9, <3>1, EmptySeq
  <2>2. QED
    BY <1>6, <2>1 DEF Holds, Last
<1>11. \A j \in Keys : j # k => Holds(j)' = Holds(j)
  BY <1>6 DEF Holds
<1>12. /\ Version(w) <= schema /\ Version(w) \in 0..MaxVersion /\ w # None
       /\ l = "reflector" => \A j \in Keys : Kept(j) => Version(Holds(j)) <= Version(w)
       /\ l # "reflector" => /\ Kept(Key(Source[l]))
                             /\ Version(w) = Version(Holds(Key(Source[l])))
  BY <1>6, <1>8, <1>2, <1>3, ProperList DEF CallNewest
<1>13. l # "reflector" => k # "reflector" /\ SourceName(k) = Key(Source[l]) /\ SourceName(k) # k
  BY <1>4, <1>8, NamesApart
<1>14. \A j \in Keys : Kept(j) => Version(Holds(j)) \in 0..MaxVersion
  BY HoldsProper
<1>15. \A v : Version(v)' = Version(v)
  BY <1>7 DEF Version
<1> DEFINE rank(j) == IF j = k THEN Version(w) ELSE Version(Holds(j))
           there(j) == j = k \/ Kept(j)
<1>16. \A j \in Keys : /\ Kept(j)' <=> there(j)
                       /\ Version(Holds(j))' = rank(j)
                       /\ there(j) => rank(j) \in 0..MaxVersion
  BY <1>10, <1>11, <1>12, <1>14, <1>15 DEF Kept
<1>17. ASSUME NEW x \in Keys, NEW a \in Above(x), there(x), there(a) PROVE rank(x) <= rank(a)
  <2>1. a \in Keys /\ SourceName(a) \in Above(x) /\ (a = SourceName(x) \/ a \in Above(SourceName(x)))
        /\ (x = "reflector" => a = x)
    BY NamesAbove
  <2>2. CASE x = k /\ a = k
    BY <1>12, <2>2
  <2>3. CASE x # k /\ a # k
    BY <1>17, <2>3 DEF NewestOrder
  <2>4. CASE x = k /\ a # k
    <3>1. l # "reflector"
      BY <1>4, <2>1, <2>4 DEF Key
    <3>2. PICK s \in Keys : s = SourceName(k)
      BY NamesApart
    <3>3. Kept(s) /\ Version(w) = Version(Holds(s)) /\ (a = s \/ a \in Above(s)) /\ Kept(a)
      BY <1>12, <1>13, <1>17, <2>1, <2>4, <3>1, <3>2
    <3>4. Version(Holds(s)) <= Version(Holds(a))
      BY <1>14, <2>1, <3>3 DEF NewestOrder
    <3>5. QED
      BY <2>4, <3>3, <3>4
  <2>5. CASE x # k /\ a = k
    <3>1. CASE l = "reflector"
      BY <1>12, <1>17, <2>5, <3>1
    <3>2. CASE l # "reflector"
      <4>1. PICK s \in Keys : s = SourceName(k)
        BY NamesApart
      <4>2. Kept(s) /\ Version(w) = Version(Holds(s)) /\ s \in Above(x) /\ Kept(x)
        BY <1>12, <1>13, <1>17, <2>1, <2>5, <3>2, <4>1
      <4>3. Version(Holds(x)) <= Version(Holds(s))
        BY <4>2 DEF NewestOrder
      <4>4. QED
        BY <2>5, <4>2, <4>3
    <3>3. QED
      BY <3>1, <3>2
  <2>6. QED
    BY <2>2, <2>3, <2>4, <2>5
<1>18. \A x \in Keys : there(x) => rank(x) <= schema
  BY <1>12 DEF NewestOrder
<1>19. NewestOrder'
  <2>1. \A x \in Keys : Kept(x)' => Version(Holds(x))' <= schema'
    BY <1>7, <1>16, <1>18
  <2>2. ASSUME NEW x \in Keys, NEW a \in Above(x), Kept(x)', Kept(a)'
        PROVE  Version(Holds(x))' <= Version(Holds(a))'
    <3>1. a \in Keys
      BY NamesAbove
    <3> HIDE DEF rank, there
    <3>2. QED
      BY <1>16, <1>17, <2>2, <3>1
  <2>3. QED
    BY <2>1, <2>2 DEF NewestOrder
<1>20. CallNewest(t)'
  <2> DEFINE d == call'[t]
  <2>1. d.pc = "read" /\ d.levels = c.levels /\ d.val = w
    BY <1>6, <1>8, <1>3 DEF CallState
  <2>2. \A i \in DOMAIN c.levels : c.levels[i].hash = Len(hashes'[Key(c.levels[i].list)])
    BY <1>6, <1>8, Levels DEF CallNewest
  <2>3. HashOf(Last(c.levels))'.val = w
    BY <1>4, <1>5, <1>6, <1>2 DEF HashOf
  <2>4. l = "reflector" => \A x \in Keys : there(x) => rank(x) <= Version(w)
    BY <1>12
  <2>5. l = "reflector" => \A x \in Keys : Kept(x)' => Version(Holds(x))' <= Version(w)'
    <3> HIDE DEF there, rank
    <3>1. QED
      BY <1>15, <1>16, <2>4
  <2>6. l # "reflector" => Kept(Key(Source[l]))' /\ Version(w)' = Version(Holds(Key(Source[l])))'
    <3> SUFFICES ASSUME l # "reflector"
                 PROVE  Kept(Key(Source[l]))' /\ Version(w)' = Version(Holds(Key(Source[l])))'
      OBVIOUS
    <3>1. PICK s \in Keys : s = Key(Source[l])
      BY <1>13, NamesApart
    <3>2. s # k /\ Kept(s) /\ Version(w) = Version(Holds(s))
      BY <1>12, <1>13, <3>1
    <3>3. Holds(s)' = Holds(s)
      BY <1>11, <3>2
    <3>4. QED
      BY <1>15, <3>1, <3>2, <3>3 DEF Kept
  <2>7. Version(w)' <= schema'
    BY <1>7, <1>12, <1>15
  <2> HIDE DEF d
  <2>8. QED
    BY <1>2, <2>1, <2>2, <2>3, <2>5, <2>6, <2>7 DEF CallNewest, d
<1>21. QED
  BY <1>19, <1>20, Zenon

\* In a program with one thread the lists are never newer than their sources, and what
\* is read on the way neither.
LEMMA AlwaysNewest == Spec => []Newest
<1>1. Init => Newest
  <2> SUFFICES ASSUME Init PROVE Newest
    OBVIOUS
  <2>1. \A k \in Keys : ~Kept(k)
    BY DEF Init, Kept, Holds
  <2>2. \A t \in Threads : call[t] = Idle
    BY DEF Init
  <2>3. \A t \in Threads : CallNewest(t)
    BY <2>2 DEF CallNewest, Idle
  <2>4. NewestOrder /\ crew \subseteq Threads
    BY <2>1, NamesAbove DEF NewestOrder, Init
  <2>5. QED
    BY <2>2, <2>3, <2>4 DEF Newest
<1>2. Wellformed /\ Wellformed' /\ Newest /\ [Next]_vars => Newest'
  <2> SUFFICES ASSUME Wellformed, Wellformed', Newest, [Next]_vars, Alone' PROVE Newest'
    BY DEF Newest
  <2>1. /\ Widens /\ schema \in 0..MaxVersion /\ schema' \in 0..MaxVersion /\ crew \subseteq Threads
    BY StepsKeepForm, Zenon DEF Wellformed, WellTyped
  <2>2. crew' = crew
    BY Zenon DEF Next, vars, Ask, Take, Make, Test, Open, BeginFill, EndFill, Build, Store, Read, Fails,
           BeginClear, Clear, Clears, Compile, Fixed
  <2>3. /\ Alone /\ NewestOrder /\ \A t \in crew : CallNewest(t)
        /\ \A t \in Threads \ crew : call[t] = Idle
    BY <2>2 DEF Alone, Newest
  <2>4. ASSUME NEW t \in crew, \A u \in Threads \ {t} : call'[u] = call[u], NewestOrder', CallNewest(t)'
        PROVE  Newest'
    <3>1. \A u \in crew : u = t
      BY <2>3 DEF Alone
    <3>2. QED
      BY <2>2, <2>3, <2>4, <3>1 DEF Newest
  <2>5. ASSUME schema' = schema, UNCHANGED hashes PROVE NewestOrder'
    <3>1. \A k \in Keys : Holds(k)' = Holds(k)
      BY <2>5 DEF Holds
    <3>2. QED
      BY <2>1, <2>3, <2>5, <3>1, NewestOrderStays
  <2>6. ASSUME NEW t \in crew, NEW k \in Keys, schema' = schema, hashes'[k] # <<>>, Last(hashes'[k]).val = None,
               \A j \in Keys : j # k => hashes'[j] = hashes[j]
        PROVE  NewestOrder'
    <3>1. Holds(k)' = None /\ \A j \in Keys : j # k => Holds(j)' = Holds(j)
      BY <2>6 DEF Holds
    <3>2. \A j \in Keys : Holds(j)' = Holds(j) \/ Holds(j)' = None
      BY <3>1
    <3>3. QED
      BY <2>1, <2>3, <2>6, <3>2, NewestOrderStays
  <2>7. ASSUME NEW t \in crew, call'[t].levels = <<>>, call'[t].pc \in {"idle", "take", "clear"}
        PROVE  CallNewest(t)'
    BY <2>7 DEF CallNewest
  <2>8. ASSUME NEW t \in crew, NEW l \in Lists, NEW forced \in BOOLEAN, Ask(t, l, forced) PROVE Newest'
    <3>1. UNCHANGED <<schema, hashes>>
      BY <2>8 DEF Ask
    <3>2. QED
      BY <2>1, <2>4, <2>5, <2>7, <2>8, <3>1, AskKeepsForm
  <2>9. ASSUME NEW t \in crew, Take(t) PROVE Newest'
    <3>1. PICK k \in Keys : k = Key(call[t].want)
      BY <2>1, <2>9, Taking
    <3>2. /\ call[t].pc = "take" /\ UNCHANGED <<schema, opened, hashes>>
          /\ \/ Waits(t)
             \/ Enters(t, Len(hashes[k])) /\ Len(hashes[k]) \in DOMAIN hashes[k]
          /\ \A u \in Threads \ {t} : call'[u] = call[u]
      BY <2>1, <2>9, <3>1, Taking
    <3>3. CASE Waits(t)
      <4>1. CallNewest(t)'
        BY <2>3, <3>2, <3>3 DEF CallNewest, Waits
      <4>2. QED
        BY <2>4, <2>5, <3>2, <4>1
    <3>4. CASE Enters(t, Len(hashes[k])) /\ Len(hashes[k]) \in DOMAIN hashes[k]
      <4>1. PICK h \in Nat : h = Len(hashes[k])
        <5>1. hashes[k] \in Seq(Hash)
          BY DEF Wellformed, WellTyped
        <5>2. QED
          BY <5>1, LenProperties
      <4>2. CallNewest(t)'
        BY <2>1, <2>3, <3>1, <3>2, <3>4, <4>1, EntersNewest
      <4>3. QED
        BY <2>4, <2>5, <3>2, <4>2
    <3>5. QED
      BY <3>2, <3>3, <3>4
  <2>10. ASSUME NEW t \in crew, Make(t) PROVE Newest'
    <3>1. PICK k \in Keys : k = Key(call[t].want)
      BY <2>1, <2>10, Making
    <3>2. /\ call[t].pc = "make" /\ Enters(t, Len(hashes[k]) + 1) /\ UNCHANGED <<schema, opened>>
          /\ \A u \in Threads \ {t} : call'[u] = call[u]
          /\ \A j \in Keys : j # k => hashes'[j] = hashes[j]
          /\ Len(hashes[k]) \in Nat /\ Len(hashes'[k]) = Len(hashes[k]) + 1
          /\ hashes'[k] # <<>> /\ hashes'[k][Len(hashes[k]) + 1].val = None
      BY <2>1, <2>10, <3>1, Making
    <3>3. PICK h \in Nat : h = Len(hashes[k]) + 1
      BY <3>2
    <3>4. CallNewest(t)'
      BY <2>1, <2>3, <3>1, <3>2, <3>3, EntersNewest
    <3>5. NewestOrder'
      BY <2>6, <3>2 DEF Last
    <3>6. QED
      BY <2>4, <3>2, <3>4, <3>5
  <2>11. ASSUME NEW t \in crew, Test(t) PROVE Newest'
    <3> DEFINE c == call[t]
    <3>1. c.levels # <<>> /\ UNCHANGED <<schema, hashes>>
      BY <2>1, <2>11 DEF Test, Wellformed, CallFormed
    <3>2. PICK v \in List : v = HashOf(Last(c.levels)).val
      BY <2>1, <3>1, HashTaken
    <3>3. /\ \/ AnsweredInside(t, v, FALSE) \/ AnsweredOutside(t, v, FALSE)
             \/ call'[t] = Evaluates(call[t])
          /\ \A u \in Threads \ {t} : call'[u] = call[u]
      BY <2>1, <2>11, <3>2, TestKeepsForm
    <3>4. CallNewest(t)'
      BY <2>1, <2>3, <3>1, <3>2, <3>3, EvaluatesNewest, AnswersNewest
    <3>5. QED
      BY <2>4, <2>5, <3>1, <3>3, <3>4
  <2>12. ASSUME NEW t \in crew, Open(t) PROVE Newest'
    <3>1. PICK v \in List : v = call'[t].val
      BY <2>1 DEF Wellformed, WellTyped, CallState
    <3>2. /\ GoesOn(t, "open", "store", v) /\ v.ref = Len(opened')
          /\ opened'[Len(opened')].version = schema
      BY <2>1, <2>12, <3>1, OpenKeepsForm
    <3>3. UNCHANGED <<schema, hashes>> /\ \A u \in Threads \ {t} : call'[u] = call[u]
      BY <3>2 DEF GoesOn
    <3>4. NewestOrder'
      BY <2>5, <3>3
    <3>5. Version(v)' = schema
      BY <3>2 DEF Version
    <3>6. \A k \in Keys : Kept(k)' => Version(Holds(k))' <= Version(v)'
      BY <3>3, <3>4, <3>5 DEF NewestOrder
    <3>7. call[t].pc = "open" /\ call'[t].pc = "store" /\ call'[t].levels = call[t].levels
      BY <3>2 DEF GoesOn
    <3>8. Last(call[t].levels).list = "reflector"
      BY <2>1, <3>7 DEF Wellformed, CallFormed
    <3>9. CallNewest(t)'
      <4>1. Version(v)' <= schema'
        BY <2>1, <3>3, <3>5
      <4>2. CallNewest(t)
        BY <2>3
      <4>3. \A i \in DOMAIN call[t].levels :
              call[t].levels[i].hash = Len(hashes'[Key(call[t].levels[i].list)])
        BY <3>3, <4>2 DEF CallNewest
      <4>4. \A i, j \in DOMAIN call[t].levels :
              i < j => Depth[call[t].levels[j].list] < Depth[call[t].levels[i].list]
        BY <4>2 DEF CallNewest
      <4>5. QED
        BY <3>1, <3>6, <3>7, <3>8, <4>1, <4>3, <4>4 DEF CallNewest
    <3>10. QED
      BY <2>4, <3>3, <3>4, <3>9
  <2>13. ASSUME NEW t \in crew, NEW v \in List, NEW from \in {"build", "fill"}, NEW to \in {"fill", "store"},
                GoesOn(t, from, to, v), v.ref = call[t].val.ref, to = "fill" => v = call[t].val
         PROVE  Newest'
    <3>1. CallNewest(t)'
      BY <2>1, <2>3, <2>13, BuildsNewest
    <3>2. QED
      BY <2>4, <2>5, <2>13, <3>1 DEF GoesOn
  <2>14. ASSUME NEW t \in crew, BeginFill(t) PROVE Newest'
    <3>1. PICK v \in List : v = call[t].val
      BY <2>1 DEF Wellformed, WellTyped, CallState
    <3>2. GoesOn(t, "build", "fill", v)
      BY <2>1, <2>14, <3>1, BeginFillKeepsForm
    <3>3. QED
      BY <2>13, <3>1, <3>2
  <2>15. ASSUME NEW t \in crew, EndFill(t) PROVE Newest'
    <3> DEFINE w == [of |-> Last(call[t].levels).list, ref |-> call[t].val.ref, whole |-> TRUE]
    <3>1. GoesOn(t, "fill", "store", w) /\ w.ref = call[t].val.ref
      BY <2>1, <2>15, EndFillKeepsForm
    <3> HIDE DEF w
    <3>2. call'[t].val = w
      BY <3>1 DEF GoesOn
    <3>3. w \in List
      BY <2>1, <3>2 DEF Wellformed, WellTyped, CallState
    <3>4. QED
      BY <2>13, <3>1, <3>3
  <2>16. ASSUME NEW t \in crew, Build(t) PROVE Newest'
    <3>1. PICK v \in List : v = call'[t].val
      BY <2>1 DEF Wellformed, WellTyped, CallState
    <3>2. GoesOn(t, "build", "store", v) /\ v.ref = call[t].val.ref
      BY <2>1, <2>16, <3>1, BuildKeepsForm
    <3>3. QED
      BY <2>13, <3>1, <3>2
  <2>17. ASSUME NEW t \in crew, Store(t) PROVE Newest'
    <3>1. NewestOrder' /\ CallNewest(t)'
      BY <2>1, <2>3, <2>17, StoresNewest
    <3>2. QED
      BY <2>1, <2>4, <2>17, <3>1, Storing
  <2>18. ASSUME NEW t \in crew, Read(t) PROVE Newest'
    <3> DEFINE c == call[t]
    <3>1. c.levels # <<>> /\ UNCHANGED <<schema, hashes>>
      BY <2>1, <2>18, Zenon DEF Read, Wellformed, CallFormed
    <3>2. PICK v \in List : v = HashOf(Last(c.levels)).val
      BY <2>1, <3>1, HashTaken
    <3>3. /\ AnsweredInside(t, v, v # c.val) \/ AnsweredOutside(t, v, v # c.val)
          /\ \A u \in Threads \ {t} : call'[u] = call[u]
      BY <2>1, <2>18, <3>2, ReadKeepsForm
    <3>4. PICK late \in BOOLEAN : late = (v # c.val)
      OBVIOUS
    <3>5. AnsweredInside(t, v, late) \/ AnsweredOutside(t, v, late)
      BY <3>3, <3>4
    <3>6. CallNewest(t)'
      BY <2>1, <2>3, <3>1, <3>2, <3>5, AnswersNewest
    <3>7. QED
      BY <2>4, <2>5, <3>1, <3>3, <3>6
  <2>19. ASSUME NEW t \in crew, Fails(t) PROVE Newest'
    <3>1. UNCHANGED <<schema, hashes>> /\ Idle.levels = <<>> /\ Idle.pc = "idle"
      BY <2>19 DEF Fails, Idle
    <3>2. QED
      BY <2>1, <2>4, <2>5, <2>7, <2>19, <3>1, FailsKeepsForm
  <2>20. ASSUME NEW t \in crew, BeginClear(t) PROVE Newest'
    <3>1. UNCHANGED <<schema, hashes>>
      BY <2>20 DEF BeginClear
    <3>2. QED
      BY <2>1, <2>4, <2>5, <2>7, <2>20, <3>1, BeginClearKeepsForm
  <2>21. ASSUME NEW t \in crew, Clear(t) PROVE Newest'
    <3>1. PICK k \in call[t].todo : Clears(t, k)
      BY <2>21 DEF Clear
    <3>2. schema' = schema /\ call[t].pc = "clear" /\ Idle.levels = <<>> /\ Idle.pc = "idle"
      BY <2>21, <3>1 DEF Clear, Clears, Idle
    <3>3. /\ k \in Keys /\ \A j \in Keys : j # k => hashes'[j] = hashes[j]
          /\ hashes'[k] # <<>> /\ Len(hashes'[k]) = Len(hashes[k]) + 1
          /\ hashes'[k][Len(hashes[k]) + 1].val = None
          /\ \A u \in Threads \ {t} : call'[u] = call[u]
          /\ call'[t] = Idle \/ (call'[t].pc = "clear" /\ call'[t].levels = <<>>)
      BY <2>1, <3>1, <3>2, Clearing
    <3>4. NewestOrder'
      BY <2>6, <3>2, <3>3 DEF Last
    <3>5. CallNewest(t)'
      BY <2>7, <3>2, <3>3
    <3>6. QED
      BY <2>4, <3>3, <3>4, <3>5
  <2>22. CASE Compile
    <3>1. UNCHANGED <<opened, hashes, call>> /\ schema' = schema + 1
      BY <2>22 DEF Compile
    <3>2. \A k \in Keys : Holds(k)' = Holds(k)
      BY <3>1 DEF Holds
    <3>3. NewestOrder'
      BY <2>1, <2>3, <3>1, <3>2, NewestOrderStays
    <3>4. ASSUME NEW t \in crew PROVE CallNewest(t)'
      <4>1. call[t].pc \in {"store", "read"} => Version(call[t].val) \in 0..MaxVersion
        <5>1. call[t].val \in List /\ CallFormed(t)
          BY <2>1 DEF Wellformed, WellTyped, CallState
        <5>2. QED
          BY <5>1, ProperList DEF CallFormed, InBlock
      <4>2. CallNewest(t)
        BY <2>3
      <4>3. call[t].pc \in {"store", "read"} => Version(call[t].val) <= schema'
        BY <2>1, <3>1, <4>1, <4>2 DEF CallNewest
      <4>4. QED
        BY <3>1, <4>2, <4>3, Zenon DEF CallNewest, Version, Kept, Holds, HashOf
    <3>5. QED
      BY <2>2, <2>3, <3>1, <3>3, <3>4 DEF Newest
  <2>23. CASE UNCHANGED vars
    BY <2>23, ZenonT(30) DEF vars, Newest, NewestOrder, CallNewest, Alone, Version, Kept, Holds, HashOf
  <2>24. QED
    BY <2>8, <2>9, <2>10, <2>11, <2>12, <2>14, <2>15, <2>16, <2>17, <2>18, <2>19, <2>20, <2>21, <2>22,
       <2>23 DEF Next
<1>3. QED
  BY <1>1, <1>2, MetadataWellformed, PTL DEF Spec

\* In a program with one thread no list is newer than the one it is made from, whatever
\* is asked for, forced, cleared or compiled, and wherever a call to the server fails.
THEOREM SourceIsNewestHolds == Spec => []SourceIsNewest
<1>1. Newest => SourceIsNewest
  <2> SUFFICES ASSUME Newest, Alone, NEW l \in Lists \ {"reflector"}, Kept(Key(l)), Kept(Key(Source[l]))
               PROVE  Version(Holds(Key(l))) <= Version(Holds(Key(Source[l])))
    BY DEF SourceIsNewest
  <2>1. Key(l) \in Keys /\ Key(Source[l]) = SourceName(Key(l))
    BY NamesApart DEF Keys
  <2>2. Key(Source[l]) \in Above(Key(l))
    BY <2>1 DEF Above
  <2>3. QED
    BY <2>1, <2>2 DEF Newest, NewestOrder
<1>2. QED
  BY <1>1, AlwaysNewest, PTL

-----------------------------------------------------------------------------
(* One thread: whole lists.                                                *)

\* What a reload that is forced reads, in a program with one thread: a reflector none has
\* loaded anything of, or every element once.
Unread(r) == opened[r].methods = "empty" /\ opened[r].properties = "empty"

CallWhole(t) ==
  LET c == call[t]
      l == Last(c.levels).list
  IN  c.forced =>
        /\ c.pc \in {"store", "read"} => c.val.of = l /\ Whole(c.val) /\ (l = "reflector" => Unread(c.val.ref))
        /\ c.pc \in {"build", "fill"} => c.val.of = Source[l]
        /\ c.pc = "build" => IF l \in {"methods", "properties"} THEN Unread(c.val.ref) ELSE Whole(c.val)
        /\ c.pc = "fill" => opened[c.val.ref][l] = "filling"

WholeRead == Alone => ForcedIsWhole /\ \A t \in crew : CallWhole(t)

\* What is loaded stays loaded.
StaysLoaded ==
  \A r \in 1..Len(opened) : \A m \in {"methods", "properties"} :
    opened[r][m] = "whole" => opened'[r][m] = "whole"

\* An answer that was whole stays so.
LEMMA AnswerWhole ==
  ASSUME Wellformed, StaysLoaded, ForcedIsWhole, Alone' <=> Alone, answer' = answer
  PROVE  ForcedIsWhole'
<1>1. PICK v \in List : v = answer.val
  BY DEF Wellformed, WellTyped
<1>2. (Proper(v) /\ Whole(v)) => Whole(v)'
  BY DEF Proper, Whole, StaysLoaded
<1>3. v # None => Proper(v)
  BY <1>1 DEF Wellformed
<1>4. QED
  BY <1>1, <1>2, <1>3 DEF ForcedIsWhole

\* Beginning to load what nobody has loaded.
LEMMA BeginFillWhole ==
  ASSUME Wellformed, NEW t \in Threads, BeginFill(t), CallWhole(t)
  PROVE  StaysLoaded /\ CallWhole(t)'
<1> DEFINE c == call[t]
<1>1. c \in CallState /\ c.val \in List /\ CallFormed(t) /\ GoesOn(t, "build", "fill", c.val)
  BY BeginFillKeepsForm DEF Wellformed, WellTyped, CallState
<1>2. c.pc = "build" /\ Proper(c.val)
  BY <1>1 DEF BeginFill, CallFormed, InBlock
<1>3. PICK l \in {"methods", "properties"} : l = Last(c.levels).list
  BY DEF BeginFill
<1>4. PICK r \in 1..Len(opened) : r = c.val.ref
  BY <1>2 DEF Proper
<1>5. PICK x \in Fill : x = IF opened[r][l] = "empty" THEN "filling" ELSE "refilling"
  BY DEF Fill
<1>6. Loads(r, l, x) /\ opened[r][l] \in {"empty", "filling", "refilling"}
  BY <1>3, <1>4, <1>5 DEF BeginFill, Loads
<1>7. /\ \A q \in 1..Len(opened) : q # r => opened'[q] = opened[q]
      /\ \A m \in {"methods", "properties"} : opened'[r][m] = IF m = l THEN x ELSE opened[r][m]
  BY <1>6, Loading
<1>8. StaysLoaded
  BY <1>6, <1>7 DEF StaysLoaded
<1>9. /\ call'[t].pc = "fill" /\ call'[t].val = c.val /\ call'[t].levels = c.levels
      /\ call'[t].forced = c.forced
  BY <1>1, Zenon DEF GoesOn, Same
<1>10. c.forced => c.val.of = Source[l] /\ opened'[r][l] = "filling"
  BY <1>2, <1>3, <1>4, <1>5, <1>7 DEF CallWhole, Unread
<1>11. QED
  BY <1>3, <1>4, <1>8, <1>9, <1>10 DEF CallWhole

\* Ending it.
LEMMA EndFillWhole ==
  ASSUME Wellformed, NEW t \in Threads, EndFill(t), CallWhole(t)
  PROVE  StaysLoaded /\ CallWhole(t)'
<1> DEFINE c == call[t]
<1>1. c \in CallState /\ c.val \in List /\ CallFormed(t) /\ c.pc = "fill" /\ c.levels # <<>>
  BY DEF Wellformed, WellTyped, CallState, CallFormed, EndFill
<1>2. Proper(c.val)
  BY <1>1 DEF CallFormed, InBlock
<1>3. PICK l \in {"methods", "properties"} : l = Last(c.levels).list
  BY <1>1 DEF CallFormed
<1>4. PICK r \in 1..Len(opened) : r = c.val.ref
  BY <1>2 DEF Proper
<1>5. PICK x \in Fill : x = IF opened[r][l] \in {"filling", "whole"} THEN "whole" ELSE "spoiled"
  BY DEF Fill
<1>6. Loads(r, l, x)
  BY <1>3, <1>4, <1>5 DEF EndFill, Loads
<1>7. /\ \A q \in 1..Len(opened) : q # r => opened'[q] = opened[q]
      /\ \A m \in {"methods", "properties"} : opened'[r][m] = IF m = l THEN x ELSE opened[r][m]
  BY <1>6, Loading
<1>8. StaysLoaded
  BY <1>5, <1>7 DEF StaysLoaded
<1> DEFINE w == [of |-> l, ref |-> r, whole |-> TRUE]
<1>9. GoesOn(t, "fill", "store", w)
  BY <1>3, <1>4, EndFillKeepsForm
<1>10. /\ call'[t].pc = "store" /\ call'[t].val = w /\ call'[t].levels = c.levels
       /\ call'[t].forced = c.forced
  BY <1>9 DEF GoesOn, Same
<1>11. w.of = l /\ w.ref = r
  OBVIOUS
<1> HIDE DEF w
<1>12. c.forced => opened'[r][l] = "whole"
  BY <1>1, <1>3, <1>4, <1>5, <1>7 DEF CallWhole
<1>13. Last(c.levels).list # "reflector"
  BY <1>3
<1>14. QED
  BY <1>1, <1>3, <1>8, <1>10, <1>11, <1>12, <1>13 DEF CallWhole, Whole

\* A reload that is forced answers every element once, in a program with one thread.
LEMMA AlwaysWhole == Spec => []WholeRead
<1>1. Init => WholeRead
  BY DEF Init, WholeRead, ForcedIsWhole, NoAnswer, CallWhole, Idle
<1>2. Wellformed /\ Wellformed' /\ Fresh /\ Newest /\ WholeRead /\ [Next]_vars => WholeRead'
  <2> SUFFICES ASSUME Wellformed, Wellformed', Fresh, Newest, WholeRead, [Next]_vars, Alone'
               PROVE  WholeRead'
    BY DEF WholeRead
  <2>1. Widens /\ crew \subseteq Threads
    BY StepsKeepForm, Zenon DEF Wellformed, WellTyped
  <2>2. crew' = crew
    BY Zenon DEF Next, vars, Ask, Take, Make, Test, Open, BeginFill, EndFill, Build, Store, Read, Fails,
           BeginClear, Clear, Clears, Compile, Fixed
  <2>3. /\ Alone /\ ForcedIsWhole /\ (Alone' <=> Alone)
        /\ \A t \in crew : CallWhole(t) /\ CallFresh(t) /\ CallNewest(t)
    BY <2>1, <2>2 DEF Alone, WholeRead, Fresh, Newest
  <2>4. ASSUME NEW t \in crew, ForcedIsWhole', CallWhole(t)'
        PROVE  WholeRead'
    <3>1. \A u \in crew : u = t
      BY <2>3 DEF Alone
    <3>2. QED
      BY <2>2, <2>4, <3>1 DEF WholeRead
  <2>5. ASSUME UNCHANGED <<opened, answer>> PROVE ForcedIsWhole'
    BY <2>3, <2>5, AnswerWhole DEF StaysLoaded
  <2>6. ASSUME NEW t \in crew, call'[t].pc \notin InBlock
        PROVE  CallWhole(t)'
    BY <2>6 DEF CallWhole, InBlock
  <2>7. ASSUME NEW t \in crew, NEW l \in Lists, NEW forced \in BOOLEAN, Ask(t, l, forced) PROVE WholeRead'
    <3>1. ForcedIsWhole'
      BY <2>7 DEF Ask, ForcedIsWhole, NoAnswer
    <3>2. CallWhole(t)'
      BY <2>1, <2>6, <2>7, AskKeepsForm DEF InBlock
    <3>3. QED
      BY <2>4, <3>1, <3>2
  <2>8. ASSUME NEW t \in crew, Take(t) PROVE WholeRead'
    <3>1. UNCHANGED <<opened, answer>> /\ (Waits(t) \/ \E h : Enters(t, h))
      BY <2>1, <2>8, Taking
    <3>2. call'[t].pc \notin InBlock
      BY <3>1 DEF Waits, Enters, Evaluating, InBlock
    <3>3. QED
      BY <2>4, <2>5, <2>6, <3>1, <3>2
  <2>9. ASSUME NEW t \in crew, Make(t) PROVE WholeRead'
    <3>1. UNCHANGED <<opened, answer>> /\ \E h : Enters(t, h)
      BY <2>1, <2>9, Making
    <3>2. call'[t].pc \notin InBlock
      BY <3>1 DEF Enters, Evaluating, InBlock
    <3>3. QED
      BY <2>4, <2>5, <2>6, <3>1, <3>2
  <2>10. ASSUME NEW t \in crew, Test(t) PROVE WholeRead'
    <3> DEFINE c == call[t]
               v == HashOf(Last(c.levels)).val
    <3>1. c.pc = "test" /\ ~c.forced /\ c.levels # <<>> /\ c \in CallState /\ opened' = opened
      BY <2>1, <2>3, <2>10 DEF Test, CallFresh, Wellformed, WellTyped, CallFormed
    <3>2. \/ AnsweredInside(t, v, FALSE) \/ AnsweredOutside(t, v, FALSE)
          \/ answer' = answer /\ call'[t] = Evaluates(c)
      BY <2>1, <2>10, TestKeepsForm
    <3>3. CASE AnsweredInside(t, v, FALSE)
      <4>1. answer' = answer /\ ~call'[t].forced
        BY <3>1, <3>3 DEF AnsweredInside, Same
      <4>2. QED
        BY <2>4, <2>5, <3>1, <4>1 DEF CallWhole
    <3>4. CASE AnsweredOutside(t, v, FALSE)
      <4>1. ~answer'.forced /\ call'[t].pc = "idle"
        BY <3>1, <3>4 DEF AnsweredOutside, Idle
      <4>2. QED
        BY <2>4, <2>6, <4>1 DEF ForcedIsWhole, InBlock
    <3>5. CASE answer' = answer /\ call'[t] = Evaluates(c)
      <4>1. ~call'[t].forced
        BY <3>1, <3>5, Evaluation DEF Same
      <4>2. QED
        BY <2>4, <2>5, <3>1, <3>5, <4>1 DEF CallWhole
    <3>6. QED
      BY <3>2, <3>3, <3>4, <3>5
  <2>11. ASSUME NEW t \in crew, Open(t) PROVE WholeRead'
    <3>1. PICK v \in List : v = call'[t].val
      BY <2>1 DEF Wellformed, WellTyped, CallState
    <3>2. /\ GoesOn(t, "open", "store", v) /\ v.ref = Len(opened') /\ v.of = "reflector" /\ v.whole
          /\ opened'[Len(opened')].methods = "empty" /\ opened'[Len(opened')].properties = "empty"
          /\ \A r \in 1..Len(opened) : opened'[r] = opened[r]
      BY <2>1, <2>11, <3>1, OpenKeepsForm
    <3>3. /\ call[t].pc = "open" /\ call'[t].pc = "store" /\ call'[t].levels = call[t].levels
          /\ answer' = answer
      BY <3>2 DEF GoesOn
    <3>4. Last(call[t].levels).list = "reflector"
      BY <2>1, <3>3 DEF Wellformed, CallFormed
    <3>5. StaysLoaded
      BY <3>2 DEF StaysLoaded
    <3>6. CallWhole(t)'
      BY <3>1, <3>2, <3>3, <3>4 DEF CallWhole, Whole, Unread
    <3>7. QED
      BY <2>3, <2>4, <3>3, <3>5, <3>6, AnswerWhole
  <2>12. ASSUME NEW t \in crew, BeginFill(t) PROVE WholeRead'
    <3>1. answer' = answer
      BY <2>12 DEF BeginFill
    <3>2. QED
      BY <2>1, <2>3, <2>4, <2>12, <3>1, BeginFillWhole, AnswerWhole
  <2>13. ASSUME NEW t \in crew, EndFill(t) PROVE WholeRead'
    <3>1. answer' = answer
      BY <2>13 DEF EndFill
    <3>2. QED
      BY <2>1, <2>3, <2>4, <2>13, <3>1, EndFillWhole, AnswerWhole
  <2>14. ASSUME NEW t \in crew, Build(t) PROVE WholeRead'
    <3> DEFINE c == call[t]
    <3>1. PICK v \in List : v = call'[t].val
      BY <2>1 DEF Wellformed, WellTyped, CallState
    <3>2. /\ GoesOn(t, "build", "store", v) /\ v.whole = Whole(c.val) /\ opened' = opened
          /\ c.val.of = Source[Last(c.levels).list] => v.of = Last(c.levels).list
      BY <2>1, <2>14, <3>1, BuildKeepsForm
    <3>3. /\ c.pc = "build" /\ call'[t].pc = "store" /\ call'[t].levels = c.levels /\ answer' = answer
          /\ call'[t].forced = c.forced
      BY <3>2 DEF GoesOn, Same
    <3>4. Last(c.levels).list # "reflector"
      BY <2>1, <3>3, Zenon DEF Wellformed, CallFormed
    <3>5. c.forced => Last(c.levels).list \notin {"methods", "properties"}
      BY <2>3, <2>14, <3>3 DEF Build, CallWhole, Unread
    <3>6. c.forced => v.of = Last(c.levels).list /\ v.whole
      BY <2>3, <3>2, <3>3, <3>5 DEF CallWhole
    <3>7. CallWhole(t)'
      BY <3>1, <3>3, <3>4, <3>5, <3>6 DEF CallWhole, Whole
    <3>8. QED
      BY <2>4, <2>5, <3>2, <3>3, <3>7
  <2>15. ASSUME NEW t \in crew, Store(t) PROVE WholeRead'
    <3>1. /\ call[t].pc = "store" /\ call'[t] = [call[t] EXCEPT !.pc = "read"] /\ call[t] \in CallState
      BY <2>1, <2>15, Storing DEF Wellformed, WellTyped
    <3>2. UNCHANGED <<opened, answer>>
      BY <2>15 DEF Store
    <3>3. /\ call'[t].pc = "read" /\ call'[t].val = call[t].val /\ call'[t].levels = call[t].levels
          /\ call'[t].forced = call[t].forced
      BY <3>1 DEF CallState
    <3>4. CallWhole(t)'
      <4>1. opened' = opened /\ CallWhole(t)
        BY <2>3, <3>2
      <4>2. \A v : Whole(v)' <=> Whole(v)
        BY <4>1, Zenon DEF Whole
      <4>3. \A r : Unread(r)' <=> Unread(r)
        BY <4>1, Zenon DEF Unread
      <4>4. QED
        BY <3>1, <3>3, <4>1, <4>2, <4>3 DEF CallWhole
    <3>5. QED
      BY <2>4, <2>5, <3>2, <3>4
  <2>16. ASSUME NEW t \in crew, Read(t) PROVE WholeRead'
    <3> DEFINE c == call[t]
               n == Len(c.levels)
    <3>1. c.pc = "read" /\ c \in CallState /\ c.levels # <<>> /\ CallChained(t) /\ opened' = opened
      BY <2>1, <2>16, Zenon DEF Read, Wellformed, WellTyped, CallFormed
    <3>2. PICK v \in List : v = c.val
      BY <3>1 DEF CallState
    <3>3. HashOf(Last(c.levels)).val = v
      BY <2>3, <3>1, <3>2 DEF CallNewest
    <3>4. AnsweredInside(t, v, FALSE) \/ AnsweredOutside(t, v, FALSE)
      <4>1. (v # c.val) = FALSE
        BY <3>2
      <4>2. AnsweredInside(t, v, v # c.val) \/ AnsweredOutside(t, v, v # c.val)
        BY <2>1, <2>16, <3>3, ReadKeepsForm
      <4>3. QED
        BY <4>1, <4>2
    <3>5. /\ c.forced => v.of = Last(c.levels).list /\ Whole(v)
          /\ c.forced /\ Last(c.levels).list = "reflector" => Unread(v.ref)
      BY <2>3, <3>1, <3>2 DEF CallWhole
    <3>6. CASE AnsweredInside(t, v, FALSE)
      <4>1. /\ call'[t].pc = "build" /\ call'[t].levels = Front(c.levels) /\ call'[t].val = v /\ n > 1
            /\ answer' = answer /\ call'[t].forced = c.forced
        BY <3>6 DEF AnsweredInside, Same
      <4>2. /\ n \in Nat \ {0} /\ DOMAIN c.levels = 1..n /\ Last(c.levels) = c.levels[n]
            /\ Len(Front(c.levels)) = n - 1
            /\ \A i \in 1..(n - 1) : Front(c.levels)[i] = c.levels[i]
        BY <3>1, Levels, FrontAndLast
      <4> HIDE DEF n
      <4>3. n \in 1..n /\ n - 1 \in 1..(n - 1)
        BY <4>1, <4>2
      <4>4. Last(Front(c.levels)) = c.levels[n - 1] /\ c.levels[n].list = Source[c.levels[n - 1].list]
        BY <3>1, <4>1, <4>2, <4>3 DEF Last, CallChained
      <4>5. PICK l \in Lists : l = Last(Front(c.levels)).list
        <5>1. n - 1 \in 1..n
          BY <4>1, <4>2
        <5>2. QED
          BY <3>1, <4>2, <4>4, <5>1, Levels
      <4>6. c.forced => v.of = Source[l]
        BY <3>5, <4>2, <4>4, <4>5
      <4>7. l \in {"methods", "properties"} => Last(c.levels).list = "reflector"
        BY <4>2, <4>4, <4>5 DEF Source
      <4>8. CallWhole(t)'
        BY <3>1, <3>5, <4>1, <4>5, <4>6, <4>7 DEF CallWhole, Whole, Unread
      <4>9. QED
        BY <2>4, <2>5, <3>1, <4>1, <4>8
    <3>7. CASE AnsweredOutside(t, v, FALSE)
      <4>1. /\ call'[t].pc = "idle" /\ answer'.val = v /\ answer'.forced = c.forced
        BY <3>7 DEF AnsweredOutside, Idle
      <4>2. ForcedIsWhole'
        BY <3>1, <3>5, <4>1 DEF ForcedIsWhole, Whole
      <4>3. QED
        BY <2>4, <2>6, <4>1, <4>2 DEF InBlock
    <3>8. QED
      BY <3>4, <3>6, <3>7
  <2>17. ASSUME NEW t \in crew, Fails(t) PROVE WholeRead'
    <3>1. UNCHANGED <<opened, answer>> /\ Idle.pc = "idle"
      BY <2>17 DEF Fails, Idle
    <3>2. QED
      BY <2>1, <2>4, <2>5, <2>6, <2>17, <3>1, FailsKeepsForm DEF InBlock
  <2>18. ASSUME NEW t \in crew, BeginClear(t) PROVE WholeRead'
    <3>1. UNCHANGED <<opened, answer>>
      BY <2>18 DEF BeginClear
    <3>2. QED
      BY <2>1, <2>4, <2>5, <2>6, <2>18, <3>1, BeginClearKeepsForm DEF InBlock
  <2>19. ASSUME NEW t \in crew, Clear(t) PROVE WholeRead'
    <3>1. PICK k \in call[t].todo : Clears(t, k)
      BY <2>19 DEF Clear
    <3>2. UNCHANGED <<opened, answer>> /\ call[t].pc = "clear" /\ Idle.pc = "idle"
      BY <2>19, <3>1 DEF Clear, Clears, Idle
    <3>3. call'[t].pc \in {"idle", "clear"}
      BY <2>1, <3>1, <3>2, Clearing, SMTT(30)
    <3>4. QED
      BY <2>4, <2>5, <2>6, <3>2, <3>3 DEF InBlock
  <2>20. ASSUME UNCHANGED <<opened, call, answer>> PROVE WholeRead'
    BY <2>2, <2>3, <2>5, <2>20, ZenonT(40) DEF WholeRead, CallWhole, Whole, Unread
  <2>21. CASE Compile
    BY <2>20, <2>21 DEF Compile
  <2>22. CASE UNCHANGED vars
    BY <2>20, <2>22 DEF vars
  <2>23. QED
    BY <2>7, <2>8, <2>9, <2>10, <2>11, <2>12, <2>13, <2>14, <2>15, <2>16, <2>17, <2>18, <2>19, <2>21,
       <2>22 DEF Next
<1>3. QED
  BY <1>1, <1>2, MetadataWellformed, AlwaysFresh, AlwaysNewest, PTL DEF Spec

\* In a program with one thread a reload that is forced answers every element once, even
\* after a load that an exception has cut short.
THEOREM ForcedIsWholeHolds == Spec => []ForcedIsWhole
<1>1. WholeRead => ForcedIsWhole
  BY DEF WholeRead, ForcedIsWhole
<1>2. QED
  BY <1>1, AlwaysWhole, PTL

-----------------------------------------------------------------------------
(* The end of a call.                                                      *)

\* What a call has left to do: a list deeper inside takes seven steps, a list that
\* waits for its source four, a clearing one for each name.
LeftToDo(c) ==
  LET n == Len(c.levels) IN
  CASE c.pc = "idle"  -> 0
    [] c.pc = "clear" -> Cardinality(c.todo)
    [] c.pc = "take"  -> 4 * n + 7 * Depth[c.want] + 7
    [] c.pc = "make"  -> 4 * n + 7 * Depth[c.want] + 6
    [] c.pc = "test"  -> 4 * n + 7 * Depth[Last(c.levels).list] + 1
    [] c.pc = "build" -> 4 * n
    [] c.pc \in {"open", "fill"} -> 4 * n - 1
    [] c.pc = "store" -> 4 * n - 2
    [] c.pc = "read"  -> 4 * n - 3

\* No thread waits for another one in a call of its own: each step of a call brings its
\* end nearer, whatever the other threads have put, read, loaded or cleared meanwhile.
EndsNearer ==
  [][\A t \in crew :
       (call[t].pc # "idle" /\ call'[t] # call[t]) => LeftToDo(call'[t]) < LeftToDo(call[t])]_vars

\* The blocks are no deeper than the lists are from the reflector.
Nested(c) ==
  /\ \A i \in DOMAIN c.levels : i + Depth[c.levels[i].list] <= 5
  /\ c.pc \in {"take", "make"} => Len(c.levels) + Depth[c.want] <= 4

\* A list and the list it is made from.
LEMMA DepthOfSource ==
  ASSUME NEW l \in Lists
  PROVE  /\ Depth[l] \in 0..4
         /\ l = "reflector" => Depth[l] = 0
         /\ l # "reflector" => Source[l] \in Lists /\ Depth[Source[l]] \in 0..4 /\ Depth[Source[l]] < Depth[l]
BY NamesApart DEF Depth

\* The names cleared are finitely many.
LEMMA ClearedFinite == IsFiniteSet(Cleared)
<1>1. \A S, x : IsFiniteSet(S) => IsFiniteSet(S \cup {x})
  BY FS_AddElement
<1>2. IsFiniteSet({})
  BY FS_EmptySet
<1> DEFINE A == {"reflector", "methods", "method_names", "properties", "property_names"}
           B == {"relation_names", "bt_relations", "bt_relation_names", "hm_relations", "hm_relation_names"}
           C == {"attributes", "attribute_names", "stream_attributes", "stream_attribute_names",
                 "transient_attribute_names"}
<1>3. IsFiniteSet(A)
  <2>1. A = {} \cup {"reflector"} \cup {"methods"} \cup {"method_names"} \cup {"properties"}
            \cup {"property_names"}
    OBVIOUS
  <2> HIDE DEF A
  <2>2. QED
    BY <1>1, <1>2, <2>1, Zenon
<1>4. IsFiniteSet(A \cup B)
  <2>1. A \cup B = A \cup {"relation_names"} \cup {"bt_relations"} \cup {"bt_relation_names"}
                    \cup {"hm_relations"} \cup {"hm_relation_names"}
    OBVIOUS
  <2> HIDE DEF A, B
  <2>2. QED
    BY <1>1, <1>3, <2>1, Zenon
<1>5. IsFiniteSet(A \cup B \cup C)
  <2> DEFINE D == A \cup B
  <2>1. D \cup C = D \cup {"attributes"} \cup {"attribute_names"} \cup {"stream_attributes"}
                    \cup {"stream_attribute_names"} \cup {"transient_attribute_names"}
    <3> HIDE DEF D
    <3>1. QED
      OBVIOUS
  <2>2. IsFiniteSet(D)
    BY <1>4
  <2> HIDE DEF D, C
  <2>3. IsFiniteSet(D \cup C)
    BY <1>1, <2>1, <2>2, Zenon
  <2>4. QED
    BY <2>3 DEF D
<1>6. Cleared \subseteq A \cup B \cup C
  <2>1. ASSUME NEW l \in Lists, Key(l) # "" PROVE Key(l) \in A \cup B \cup C
    <3>1. l \in DOMAIN Source \cup {"reflector"}
      BY ListsAssumption
    <3>2. QED
      BY <2>1, <3>1, Zenon DEF Source, Key
  <2>2. QED
    BY <2>1, Zenon DEF Cleared, Keys
<1>7. QED
  BY <1>5, <1>6, FS_Subset

\* A call that is given a Hash is nearer its end.
LEMMA EntersNearer ==
  ASSUME Wellformed, NEW t \in Threads, NEW h, Enters(t, h), call[t].pc \in {"take", "make"},
         Nested(call[t])
  PROVE  Nested(call'[t]) /\ LeftToDo(call'[t]) < LeftToDo(call[t])
<1> DEFINE e == [list |-> call[t].want, hash |-> h]
<1>1. PICK c \in CallState : c = call[t]
  BY DEF Wellformed, WellTyped
<1>2. PICK d : d = call'[t]
  OBVIOUS
<1>3. /\ d.levels = Append(c.levels, e)
      /\ \/ d.pc = "test"
         \/ c.want = "reflector" /\ d.pc = "open"
         \/ c.want # "reflector" /\ d.pc = "take" /\ d.want = Source[c.want]
  BY <1>1, <1>2 DEF Enters, Evaluating
<1>4. PICK n \in Nat : n = Len(c.levels) /\ DOMAIN c.levels = 1..n
  BY <1>1, Levels
<1>5. /\ Len(d.levels) = n + 1 /\ DOMAIN d.levels = 1..(n + 1) /\ Last(d.levels) = e
      /\ d.levels[n + 1] = e /\ \A i \in 1..n : d.levels[i] = c.levels[i]
  <2>1. c.levels \in Seq(Level) /\ c.levels \in Seq(Level \cup {e}) /\ e \in Level \cup {e}
    BY <1>1 DEF CallState
  <2> HIDE DEF e
  <2>2. QED
    BY <1>3, <1>4, <2>1, Grown
<1>6. PICK w \in Lists : w = c.want
  BY <1>1 DEF CallState
<1>7. PICK k \in 0..4 : k = Depth[w]
  BY DepthOfSource
<1>8. n + k <= 4 /\ \A i \in 1..n : i + Depth[c.levels[i].list] <= 5
  BY <1>1, <1>4, <1>6, <1>7 DEF Nested
<1>9. ASSUME NEW i \in 1..(n + 1) PROVE i + Depth[d.levels[i].list] <= 5
  <2>1. CASE i = n + 1
    BY <1>1, <1>5, <1>6, <1>7, <1>8, <2>1
  <2>2. CASE i # n + 1
    BY <1>5, <1>8, <2>2
  <2>3. QED
    BY <2>1, <2>2
<1>10. PICK left \in Nat : left = LeftToDo(c) /\ left >= 4 * n + 7 * k + 6
  <2>1. c.pc \in {"take", "make"}
    BY <1>1
  <2>2. c.pc = "take" => LeftToDo(c) = 4 * n + 7 * k + 7
    BY <1>4, <1>6, <1>7 DEF LeftToDo
  <2>3. c.pc = "make" => LeftToDo(c) = 4 * n + 7 * k + 6
    BY <1>4, <1>6, <1>7 DEF LeftToDo
  <2>4. QED
    BY <2>1, <2>2, <2>3
<1>11. CASE d.pc = "test"
  <2>1. LeftToDo(d) = 4 * (n + 1) + 7 * k + 1
    BY <1>1, <1>5, <1>6, <1>7, <1>11 DEF LeftToDo
  <2>2. LeftToDo(d) < left
    BY <1>10, <2>1
  <2>3. Nested(d)
    BY <1>5, <1>9, <1>11 DEF Nested
  <2>4. QED
    BY <1>1, <1>2, <1>10, <2>2, <2>3
<1>12. CASE d.pc = "open" /\ w = "reflector"
  <2>1. LeftToDo(d) = 4 * (n + 1) - 1
    BY <1>5, <1>12 DEF LeftToDo
  <2>2. LeftToDo(d) < left
    BY <1>10, <2>1
  <2>3. Nested(d)
    BY <1>5, <1>9, <1>12 DEF Nested
  <2>4. QED
    BY <1>1, <1>2, <1>10, <2>2, <2>3
<1>13. CASE d.pc = "take" /\ w # "reflector" /\ d.want = Source[w]
  <2>1. PICK j \in 0..4 : j = Depth[d.want] /\ j < k
    BY <1>7, <1>13, DepthOfSource
  <2>2. LeftToDo(d) = 4 * (n + 1) + 7 * j + 7
    BY <1>5, <1>13, <2>1 DEF LeftToDo
  <2>3. n + 1 + j <= 4
    BY <1>8, <2>1
  <2>4. LeftToDo(d) < left
    <3>1. 7 * j + 7 <= 7 * k
      BY <2>1
    <3>2. QED
      BY <1>10, <2>2, <3>1
  <2>5. Nested(d)
    BY <1>5, <1>9, <1>13, <2>1, <2>3 DEF Nested
  <2>6. QED
    BY <1>1, <1>2, <1>10, <2>4, <2>5
<1>14. QED
  BY <1>3, <1>6, <1>11, <1>12, <1>13

\* So is one that begins the block of its list.
LEMMA EvaluatesNearer ==
  ASSUME Wellformed, NEW t \in Threads, call[t].pc = "test", call'[t] = Evaluates(call[t]),
         Nested(call[t])
  PROVE  Nested(call'[t]) /\ LeftToDo(call'[t]) < LeftToDo(call[t])
<1>1. PICK c \in CallState : c = call[t]
  BY DEF Wellformed, WellTyped
<1>2. PICK d : d = call'[t]
  OBVIOUS
<1>3. c.levels # <<>> /\ c.pc = "test"
  BY <1>1 DEF Wellformed, CallFormed
<1>4. PICK l \in Lists : l = Last(c.levels).list
  BY <1>3, Levels
<1>5. /\ d.levels = c.levels
      /\ \/ l = "reflector" /\ d.pc = "open"
         \/ l # "reflector" /\ d.pc = "take" /\ d.want = Source[l]
  <2>1. d = Evaluates(c)
    BY <1>1, <1>2
  <2>2. d.levels = c.levels /\ Evaluating(l, d)
    BY <1>3, <1>4, <2>1, Evaluation
  <2>3. QED
    BY <2>2 DEF Evaluating
<1>6. PICK n \in Nat : /\ n = Len(c.levels) /\ DOMAIN c.levels = 1..n /\ n \in DOMAIN c.levels
                      /\ Last(c.levels) = c.levels[n]
  BY <1>3, Levels
<1>7. PICK k \in 0..4 : k = Depth[l]
  BY DepthOfSource
<1>8. n + k <= 5 /\ \A i \in DOMAIN d.levels : i + Depth[d.levels[i].list] <= 5
  BY <1>1, <1>4, <1>5, <1>6, <1>7 DEF Nested
<1>9. LeftToDo(c) = 4 * n + 7 * k + 1
  BY <1>3, <1>4, <1>6, <1>7 DEF LeftToDo
<1>10. CASE l = "reflector"
  <2>1. d.pc = "open"
    BY <1>5, <1>10
  <2>2. LeftToDo(d) = 4 * n - 1
    BY <1>5, <1>6, <2>1 DEF LeftToDo
  <2>3. LeftToDo(d) < LeftToDo(c)
    BY <1>9, <2>2
  <2>4. Nested(d)
    BY <1>8, <2>1 DEF Nested
  <2>5. QED
    BY <1>1, <1>2, <2>3, <2>4
<1>11. CASE l # "reflector"
  <2>1. PICK j \in 0..4 : j = Depth[d.want] /\ j < k
    BY <1>5, <1>7, <1>11, DepthOfSource
  <2>2. d.pc = "take"
    BY <1>5, <1>11
  <2>3. LeftToDo(d) = 4 * n + 7 * j + 7
    BY <1>5, <1>6, <2>1, <2>2 DEF LeftToDo
  <2>4. LeftToDo(d) < LeftToDo(c)
    <3>1. 7 * j + 7 <= 7 * k
      BY <2>1
    <3>2. QED
      BY <1>9, <2>3, <3>1
  <2>5. Len(d.levels) + Depth[d.want] <= 4
    BY <1>5, <1>6, <1>8, <2>1
  <2>6. Nested(d)
    BY <1>8, <2>2, <2>5 DEF Nested
  <2>7. QED
    BY <1>1, <1>2, <2>4, <2>6
<1>12. QED
  BY <1>10, <1>11

\* And one whose innermost list is answered.
LEMMA AnswersNearer ==
  ASSUME Wellformed, NEW t \in Threads, NEW v, NEW late, call[t].pc \in {"test", "read"},
         AnsweredInside(t, v, late) \/ AnsweredOutside(t, v, late), Nested(call[t])
  PROVE  Nested(call'[t]) /\ LeftToDo(call'[t]) < LeftToDo(call[t])
<1>1. PICK c \in CallState : c = call[t]
  BY DEF Wellformed, WellTyped
<1>2. PICK d : d = call'[t]
  OBVIOUS
<1>3. c.levels \in Seq(Level) /\ c.levels # <<>> /\ c.pc \in {"test", "read"}
  BY <1>1 DEF Wellformed, CallFormed, CallState
<1>4. PICK n \in Nat \ {0} : n = Len(c.levels) /\ DOMAIN c.levels = 1..n
  BY <1>3, FrontAndLast
<1>5. PICK left \in Nat : left = LeftToDo(c) /\ left >= 4 * n - 3
  <2>1. PICK k \in 0..4 : k = Depth[Last(c.levels).list]
    BY <1>3, Levels, DepthOfSource
  <2>2. c.pc = "test" => LeftToDo(c) = 4 * n + 7 * k + 1
    BY <1>4, <2>1 DEF LeftToDo
  <2>3. c.pc = "read" => LeftToDo(c) = 4 * n - 3
    BY <1>4 DEF LeftToDo
  <2>4. QED
    BY <1>3, <2>2, <2>3
<1>6. CASE AnsweredInside(t, v, late)
  <2>1. d.pc = "build" /\ d.levels = Front(c.levels)
    BY <1>1, <1>2, <1>6 DEF AnsweredInside
  <2>2. /\ Len(d.levels) = n - 1 /\ DOMAIN d.levels = 1..(n - 1)
        /\ \A i \in 1..(n - 1) : d.levels[i] = c.levels[i]
    BY <1>3, <1>4, <2>1, FrontAndLast
  <2>3. LeftToDo(d) = 4 * (n - 1)
    BY <2>1, <2>2 DEF LeftToDo
  <2>4. LeftToDo(d) < left
    BY <1>5, <2>3
  <2>5. \A i \in 1..(n - 1) : i \in 1..n /\ i + Depth[c.levels[i].list] <= 5
    BY <1>1, <1>4 DEF Nested
  <2>6. Nested(d)
    BY <2>1, <2>2, <2>5 DEF Nested
  <2>7. QED
    BY <1>1, <1>2, <1>5, <2>4, <2>6
<1>7. CASE AnsweredOutside(t, v, late)
  <2>1. d = Idle
    BY <1>2, <1>7 DEF AnsweredOutside
  <2>2. LeftToDo(d) = 0 /\ Nested(d)
    BY <2>1 DEF LeftToDo, Nested, Idle
  <2>3. QED
    BY <1>1, <1>2, <1>5, <2>2
<1>8. QED
  BY <1>6, <1>7

\* Within a block, a call goes on to what is left of it.
LEMMA GoesNearer ==
  ASSUME Wellformed, NEW t \in Threads, NEW d, d.levels = call[t].levels, Nested(call[t]),
         \/ call[t].pc = "open" /\ d.pc = "store"
         \/ call[t].pc = "build" /\ d.pc \in {"fill", "store"}
         \/ call[t].pc = "fill" /\ d.pc = "store"
         \/ call[t].pc = "store" /\ d.pc = "read"
  PROVE  Nested(d) /\ LeftToDo(d) < LeftToDo(call[t])
<1>1. PICK n \in Nat : n = Len(call[t].levels)
  BY Levels DEF Wellformed, WellTyped
<1>2. Nested(d)
  BY DEF Nested
<1>3. LeftToDo(d) < LeftToDo(call[t])
  BY <1>1 DEF LeftToDo
<1>4. QED
  BY <1>2, <1>3

\* A call has never more to do than a list that is farthest from the reflector takes.
LEMMA AtMost ==
  ASSUME Wellformed, NEW t \in Threads, Nested(call[t])
  PROVE  /\ LeftToDo(call[t]) \in Nat /\ (call[t].pc # "clear" => LeftToDo(call[t]) <= 35)
         /\ (call[t].pc \notin {"idle", "clear"} => LeftToDo(call[t]) > 0)
<1>1. PICK c \in CallState : c = call[t]
  BY DEF Wellformed, WellTyped
<1>2. PICK n \in Nat : n = Len(c.levels) /\ DOMAIN c.levels = 1..n
  BY Levels
<1>3. c.pc = "idle" => LeftToDo(c) = 0
  BY DEF LeftToDo
<1>4. c.pc = "clear" => LeftToDo(c) \in Nat
  <2>1. IsFiniteSet(c.todo)
    BY ClearedFinite, FS_Subset DEF CallState
  <2>2. QED
    BY <2>1, FS_CardinalityType DEF LeftToDo
<1>5. ASSUME c.pc \in {"take", "make"} PROVE LeftToDo(c) \in 1..35
  <2>1. PICK k \in 0..4 : k = Depth[c.want]
    BY DepthOfSource DEF CallState
  <2>2. n + k <= 4
    BY <1>1, <1>2, <1>5, <2>1 DEF Nested
  <2>3. LeftToDo(c) = 4 * n + 7 * k + 7 \/ LeftToDo(c) = 4 * n + 7 * k + 6
    BY <1>2, <1>5, <2>1 DEF LeftToDo
  <2>4. QED
    BY <2>2, <2>3
<1>6. ASSUME c.pc \in {"test", "open", "build", "fill", "store", "read"} PROVE LeftToDo(c) \in 1..35
  <2>1. c.levels # <<>>
    BY <1>1, <1>6 DEF Wellformed, CallFormed
  <2>2. n \in DOMAIN c.levels /\ Last(c.levels) = c.levels[n] /\ Last(c.levels).list \in Lists
    BY <1>2, <2>1, Levels
  <2>3. PICK k \in 0..4 : k = Depth[Last(c.levels).list]
    BY <2>2, DepthOfSource
  <2>4. n >= 1 /\ n + k <= 5
    BY <1>1, <1>2, <2>2, <2>3 DEF Nested
  <2>5. LeftToDo(c) \in {4 * n + 7 * k + 1, 4 * n, 4 * n - 1, 4 * n - 2, 4 * n - 3}
    BY <1>2, <1>6, <2>3 DEF LeftToDo
  <2>6. QED
    BY <2>4, <2>5
<1>7. c.pc \in {"idle", "clear"} \cup {"take", "make"} \cup {"test", "open", "build", "fill", "store", "read"}
  BY DEF CallState
<1> DEFINE left == LeftToDo(c)
<1>8. /\ c.pc = "idle" => left = 0
      /\ c.pc = "clear" => left \in Nat
      /\ c.pc \notin {"idle", "clear"} => left \in 1..35
  BY <1>3, <1>4, <1>5, <1>6, <1>7
<1> HIDE DEF left
<1>9. left \in Nat /\ (c.pc # "clear" => left <= 35) /\ (c.pc \notin {"idle", "clear"} => left > 0)
  BY <1>8
<1>10. QED
  BY <1>1, <1>9 DEF left

\* Every call is in blocks that end.
Ends == \A t \in Threads : Nested(call[t])

\* One that takes a step is nearer its end then.
Nears(t) == LeftToDo(call'[t]) < LeftToDo(call[t])

Stepping == \A t \in crew : (call[t].pc # "idle" /\ call'[t] # call[t]) => Nears(t)

\* A thread clears one name less, or none any more.
LEMMA ClearsNearer ==
  ASSUME Wellformed, NEW t \in Threads, call[t].pc = "clear", NEW k \in call[t].todo, Clears(t, k),
         Nested(call[t])
  PROVE  Nested(call'[t]) /\ Nears(t)
<1>1. PICK c \in CallState : c = call[t]
  BY DEF Wellformed, WellTyped
<1>2. PICK d : d = call'[t]
  OBVIOUS
<1>3. c.pc = "clear" /\ k \in c.todo /\ IsFiniteSet(c.todo)
  BY <1>1, ClearedFinite, FS_Subset DEF CallState
<1>4. d = IF c.todo = {k} THEN Idle ELSE [c EXCEPT !.todo = @ \ {k}]
  BY <1>1, <1>2 DEF Clears, Wellformed, WellTyped
<1>5. PICK n \in Nat : n = Cardinality(c.todo)
  BY <1>3, FS_CardinalityType
<1>6. Cardinality(c.todo \ {k}) = n - 1 /\ IsFiniteSet(c.todo \ {k})
  BY <1>3, <1>5, FS_RemoveElement
<1>7. LeftToDo(c) = n
  BY <1>3, <1>5 DEF LeftToDo
<1>8. CASE c.todo = {k}
  <2>1. n = 1
    BY <1>5, <1>8, FS_Singleton
  <2>2. LeftToDo(d) = 0 /\ Nested(d)
    BY <1>4, <1>8 DEF LeftToDo, Nested, Idle
  <2>3. QED
    BY <1>1, <1>2, <1>7, <2>1, <2>2 DEF Nears
<1>9. CASE c.todo # {k}
  <2>1. d.pc = "clear" /\ d.levels = c.levels /\ d.todo = c.todo \ {k}
    BY <1>3, <1>4, <1>9 DEF CallState
  <2>2. LeftToDo(d) = n - 1
    BY <1>6, <2>1 DEF LeftToDo
  <2>3. Nested(d)
    BY <1>1, <2>1 DEF Nested
  <2>4. QED
    BY <1>1, <1>2, <1>5, <1>7, <2>2, <2>3 DEF Nears
<1>10. QED
  BY <1>8, <1>9

\* Each step leaves every call in blocks that end, and its own nearer that.
LEMMA StepsNearer ==
  ASSUME Wellformed, Wellformed', Ends, [Next]_vars
  PROVE  Ends' /\ Stepping
<1>1. crew \subseteq Threads /\ \A t \in Threads : call[t] \in CallState /\ Nested(call[t])
  BY DEF Wellformed, WellTyped, Ends
<1>2. ASSUME NEW t \in Threads, \A u \in Threads \ {t} : call'[u] = call[u], Nested(call'[t]),
             call[t].pc = "idle" \/ Nears(t)
      PROVE  Ends' /\ Stepping
  <2>1. ASSUME NEW u \in Threads PROVE Nested(call'[u])
    BY <1>1, <1>2
  <2>2. Ends'
    BY <2>1 DEF Ends
  <2>3. Stepping
    BY <1>1, <1>2 DEF Stepping
  <2>4. QED
    BY <2>2, <2>3
<1>3. ASSUME NEW t \in crew, NEW l \in Lists, NEW forced \in BOOLEAN, Ask(t, l, forced)
      PROVE  Ends' /\ Stepping
  <2>1. /\ call[t].pc = "idle" /\ \A u \in Threads \ {t} : call'[u] = call[u]
        /\ call'[t].pc = "take" /\ call'[t].want = l /\ call'[t].levels = <<>>
    BY <1>1, <1>3, AskKeepsForm DEF Ask
  <2>2. PICK k \in 0..4 : k = Depth[l]
    BY DepthOfSource
  <2>3. Nested(call'[t])
    BY <2>1, <2>2 DEF Nested
  <2>4. QED
    BY <1>1, <1>2, <2>1, <2>3
<1>4. ASSUME NEW t \in crew, Take(t) PROVE Ends' /\ Stepping
  <2>1. /\ call[t].pc = "take" /\ (Waits(t) \/ \E h : Enters(t, h))
        /\ \A u \in Threads \ {t} : call'[u] = call[u]
    BY <1>1, <1>4, Taking
  <2>2. CASE Waits(t)
    <3>1. PICK c \in CallState : c = call[t]
      BY <1>1
    <3>2. PICK d : d = call'[t]
      OBVIOUS
    <3>3. d.pc = "make" /\ d.levels = c.levels /\ d.want = c.want /\ c.pc = "take" /\ c.want \in Lists
      BY <2>1, <2>2, <3>1, <3>2 DEF Waits, CallState
    <3>4. PICK k \in 0..4 : k = Depth[c.want]
      BY <3>3, DepthOfSource
    <3>5. PICK n \in Nat : n = Len(c.levels)
      BY Levels
    <3>6. LeftToDo(c) = 4 * n + 7 * k + 7 /\ LeftToDo(d) = 4 * n + 7 * k + 6
      BY <3>3, <3>4, <3>5 DEF LeftToDo
    <3>7. Nested(d)
      <4>1. Nested(c)
        BY <1>1, <3>1
      <4>2. QED
        BY <3>3, <4>1 DEF Nested
    <3>8. QED
      BY <1>1, <1>2, <2>1, <3>1, <3>2, <3>6, <3>7 DEF Nears
  <2>3. CASE \E h : Enters(t, h)
    BY <1>1, <1>2, <2>1, <2>3, EntersNearer DEF Nears
  <2>4. QED
    BY <2>1, <2>2, <2>3
<1>5. ASSUME NEW t \in crew, Make(t) PROVE Ends' /\ Stepping
  <2>1. /\ call[t].pc = "make" /\ \E h : Enters(t, h)
        /\ \A u \in Threads \ {t} : call'[u] = call[u]
    BY <1>1, <1>5, Making
  <2>2. QED
    BY <1>1, <1>2, <2>1, EntersNearer DEF Nears
<1>6. ASSUME NEW t \in crew, Test(t) PROVE Ends' /\ Stepping
  <2> DEFINE v == HashOf(Last(call[t].levels)).val
             late == FALSE
  <2>1. /\ call[t].pc = "test" /\ \A u \in Threads \ {t} : call'[u] = call[u]
        /\ \/ AnsweredInside(t, v, late) \/ AnsweredOutside(t, v, late)
           \/ call'[t] = Evaluates(call[t])
    BY <1>1, <1>6, TestKeepsForm DEF Test
  <2> HIDE DEF v, late
  <2>2. Nested(call'[t]) /\ Nears(t)
    <3>1. CASE AnsweredInside(t, v, late) \/ AnsweredOutside(t, v, late)
      BY <1>1, <2>1, <3>1, AnswersNearer DEF Nears
    <3>2. CASE call'[t] = Evaluates(call[t])
      BY <1>1, <2>1, <3>2, EvaluatesNearer DEF Nears
    <3>3. QED
      BY <2>1, <3>1, <3>2
  <2>3. QED
    BY <1>1, <1>2, <2>1, <2>2
<1>7. ASSUME NEW t \in Threads, NEW from, NEW to, NEW v, GoesOn(t, from, to, v),
             \/ from = "open" /\ to = "store"
             \/ from = "build" /\ to \in {"fill", "store"}
             \/ from = "fill" /\ to = "store"
      PROVE  Ends' /\ Stepping
  <2>1. /\ call[t].pc = from /\ call'[t].pc = to /\ call'[t].levels = call[t].levels
        /\ \A u \in Threads \ {t} : call'[u] = call[u]
    BY <1>7 DEF GoesOn
  <2>2. PICK d : d = call'[t]
    OBVIOUS
  <2>3. Nested(d) /\ LeftToDo(d) < LeftToDo(call[t])
    BY <1>1, <1>7, <2>1, <2>2, GoesNearer
  <2>4. QED
    BY <1>1, <1>2, <2>1, <2>2, <2>3 DEF Nears
<1>8. ASSUME NEW t \in crew, Open(t) PROVE Ends' /\ Stepping
  <2>1. GoesOn(t, "open", "store", call'[t].val)
    BY <1>1, <1>8, OpenKeepsForm
  <2>2. QED
    BY <1>1, <1>7, <2>1
<1>9. ASSUME NEW t \in crew, BeginFill(t) PROVE Ends' /\ Stepping
  <2>1. GoesOn(t, "build", "fill", call[t].val)
    BY <1>1, <1>9, BeginFillKeepsForm
  <2>2. QED
    BY <1>1, <1>7, <2>1
<1>10. ASSUME NEW t \in crew, EndFill(t) PROVE Ends' /\ Stepping
  <2> DEFINE v == [of |-> Last(call[t].levels).list, ref |-> call[t].val.ref, whole |-> TRUE]
  <2>1. GoesOn(t, "fill", "store", v)
    BY <1>1, <1>10, EndFillKeepsForm
  <2> HIDE DEF v
  <2>2. QED
    BY <1>1, <1>7, <2>1
<1>11. ASSUME NEW t \in crew, Build(t) PROVE Ends' /\ Stepping
  <2>1. GoesOn(t, "build", "store", call'[t].val)
    BY <1>1, <1>11, BuildKeepsForm
  <2>2. QED
    BY <1>1, <1>7, <2>1
<1>12. ASSUME NEW t \in crew, Store(t) PROVE Ends' /\ Stepping
  <2>1. PICK c \in CallState : c = call[t]
    BY <1>1
  <2>2. PICK d : d = call'[t]
    OBVIOUS
  <2>3. /\ c.pc = "store" /\ d = [c EXCEPT !.pc = "read"]
        /\ \A u \in Threads \ {t} : call'[u] = call[u]
    BY <1>1, <1>12, <2>1, <2>2, Storing
  <2>4. d.pc = "read" /\ d.levels = c.levels
    BY <2>3 DEF CallState
  <2>5. Nested(d) /\ LeftToDo(d) < LeftToDo(call[t])
    BY <1>1, <2>1, <2>3, <2>4, GoesNearer
  <2>6. QED
    BY <1>1, <1>2, <2>2, <2>3, <2>5 DEF Nears
<1>13. ASSUME NEW t \in crew, Read(t) PROVE Ends' /\ Stepping
  <2> DEFINE v == HashOf(Last(call[t].levels)).val
             late == v # call[t].val
  <2>1. /\ call[t].pc = "read" /\ \A u \in Threads \ {t} : call'[u] = call[u]
        /\ AnsweredInside(t, v, late) \/ AnsweredOutside(t, v, late)
    BY <1>1, <1>13, ReadKeepsForm DEF Read
  <2> HIDE DEF v, late
  <2>2. Nested(call'[t]) /\ Nears(t)
    BY <1>1, <2>1, AnswersNearer DEF Nears
  <2>3. QED
    BY <1>1, <1>2, <2>1, <2>2
<1>14. ASSUME NEW t \in crew, Fails(t) PROVE Ends' /\ Stepping
  <2>1. call'[t] = Idle /\ \A u \in Threads \ {t} : call'[u] = call[u]
    BY <1>1, <1>14, FailsKeepsForm
  <2>2. call[t].pc \in {"open", "build", "fill", "take"}
    BY <1>14 DEF Fails
  <2>3. LeftToDo(call'[t]) = 0 /\ Nested(call'[t])
    BY <2>1 DEF LeftToDo, Nested, Idle
  <2>4. LeftToDo(call[t]) \in Nat /\ LeftToDo(call[t]) > 0
    BY <1>1, <2>2, AtMost
  <2>5. QED
    BY <1>1, <1>2, <2>1, <2>3, <2>4 DEF Nears
<1>15. ASSUME NEW t \in crew, BeginClear(t) PROVE Ends' /\ Stepping
  <2>1. /\ call[t].pc = "idle" /\ \A u \in Threads \ {t} : call'[u] = call[u]
        /\ call'[t].pc = "clear" /\ call'[t].levels = <<>>
    BY <1>1, <1>15, BeginClearKeepsForm DEF BeginClear
  <2>2. Nested(call'[t])
    BY <2>1 DEF Nested
  <2>3. QED
    BY <1>1, <1>2, <2>1, <2>2
<1>16. ASSUME NEW t \in crew, Clear(t) PROVE Ends' /\ Stepping
  <2>1. PICK k \in call[t].todo : Clears(t, k)
    BY <1>16 DEF Clear
  <2>2. call[t].pc = "clear"
    BY <1>16 DEF Clear
  <2>3. \A u \in Threads \ {t} : call'[u] = call[u]
    BY <1>1, <2>1, <2>2, Clearing
  <2>4. Nested(call'[t]) /\ Nears(t)
    BY <1>1, <2>1, <2>2, ClearsNearer
  <2>5. QED
    BY <1>1, <1>2, <2>3, <2>4
<1>17. ASSUME call' = call PROVE Ends' /\ Stepping
  BY <1>17 DEF Ends, Stepping
<1>18. CASE Compile
  BY <1>17, <1>18 DEF Compile
<1>19. CASE UNCHANGED vars
  BY <1>17, <1>19 DEF vars
<1>20. QED
  BY <1>3, <1>4, <1>5, <1>6, <1>8, <1>9, <1>10, <1>11, <1>12, <1>13, <1>14, <1>15, <1>16, <1>18, <1>19
     DEF Next

\* Every call is in blocks that end.
LEMMA CallsEnd == Spec => []Ends
<1>1. Init => Ends
  BY DEF Init, Ends, Nested, Idle
<1>2. Wellformed /\ Wellformed' /\ Ends /\ [Next]_vars => Ends'
  BY StepsNearer
<1>3. QED
  BY <1>1, <1>2, MetadataWellformed, PTL DEF Spec

\* A call for a list ends after at most 35 steps of its thread, and one that clears after
\* one step for each name: no step of its own ever takes it farther from its end, and no
\* step of another thread can.
THEOREM EndsNearerHolds ==
  Spec => /\ [](\A t \in crew : /\ LeftToDo(call[t]) \in Nat
                                /\ call[t].pc # "clear" => LeftToDo(call[t]) <= 35)
          /\ EndsNearer
<1>1. Wellformed /\ Ends => \A t \in crew : /\ LeftToDo(call[t]) \in Nat
                                            /\ call[t].pc # "clear" => LeftToDo(call[t]) <= 35
  <2> SUFFICES ASSUME Wellformed, Ends, NEW t \in crew
               PROVE  LeftToDo(call[t]) \in Nat /\ (call[t].pc # "clear" => LeftToDo(call[t]) <= 35)
    OBVIOUS
  <2>1. t \in Threads
    BY DEF Wellformed, WellTyped
  <2>2. QED
    BY <2>1, AtMost DEF Ends
<1>2. Wellformed /\ Wellformed' /\ Ends /\ [Next]_vars
        => [\A t \in crew : (call[t].pc # "idle" /\ call'[t] # call[t])
                              => LeftToDo(call'[t]) < LeftToDo(call[t])]_vars
  BY StepsNearer DEF Stepping, Nears
<1>3. QED
  BY <1>1, <1>2, CallsEnd, MetadataWellformed, PTL DEF Spec, EndsNearer
=============================================================================
