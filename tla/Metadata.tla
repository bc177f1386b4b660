------------------------------ MODULE Metadata ------------------------------
(***************************************************************************)
(* The metadata of one Cache class, memoised on Intersys::Object: the      *)
(* intersys_* lists and metadata_cache_was_dirty! of callable.rb, and the  *)
(* relationship objects of reflection.rb they are read from.               *)
(*                                                                         *)
(* All threads of the program share the lists.  Ruby may switch to another *)
(* thread anywhere; a step is what one does with a Hash, a relationship or *)
(* the server, and the blocks are cut into steps at those places.          *)
(***************************************************************************)
EXTENDS Integers, Sequences, SequencesExt

CONSTANTS
  Lists,       \* the lists considered, those they are made from included
  Threads,     \* threads that may ask for them
  EmptyNames,  \* whether Ruby lets an instance variable be called "@"
               \*   (before 2.0): subset of {"accepted", "refused"}
  MaxVersion,  \* bound on the changes of the class on the server
  MaxAsks, MaxFaults, MaxDirty  \* bounds on asks, failing calls, clearings

\* What each list is made from.
Source ==
  [methods |-> "reflector", method_names |-> "methods",
   properties |-> "reflector", property_names |-> "properties",
   relations |-> "properties", relation_names |-> "relations",
   bt_relations |-> "relations", bt_relation_names |-> "bt_relations",
   hm_relations |-> "relations", hm_relation_names |-> "hm_relations",
   attributes |-> "properties", attribute_names |-> "attributes",
   stream_attributes |-> "attributes", stream_attribute_names |-> "stream_attributes",
   transient_attributes |-> "properties",
   transient_attribute_names |-> "transient_attributes"]

ASSUME ListsAssumption ==
  /\ "reflector" \in Lists /\ Lists \subseteq DOMAIN Source \cup {"reflector"}
  /\ \A l \in Lists \ {"reflector"} : Source[l] \in Lists
ASSUME NamesAssumption == EmptyNames \subseteq {"accepted", "refused"}
ASSUME VersionAssumption == MaxVersion \in Nat

\* The name intersys_memoized is given: two lists share the empty one.
Key(l) == IF l \in {"relations", "transient_attributes"} THEN "" ELSE l

Keys == {Key(l) : l \in Lists}

\* The place of each name in metadata_cache_was_dirty!, which clears the first one
\* first; it clears "relations" and "transient_attributes" too, which no list is
\* kept under.
Place ==
  [reflector |-> 1, methods |-> 2, method_names |-> 3, properties |-> 4, property_names |-> 5,
   relation_names |-> 6, bt_relations |-> 7, bt_relation_names |-> 8, hm_relations |-> 9,
   hm_relation_names |-> 10, attributes |-> 11, attribute_names |-> 12, stream_attributes |-> 13,
   stream_attribute_names |-> 14, transient_attribute_names |-> 15]

\* What it clears of them.
Cleared == Keys \ {""}

VARIABLES
  schema,     \* version of the class on the server
  opened,     \* the reflectors opened so far, with their two relationships
  hashes,     \* per name, the Hashes it has had, its own last
  call,       \* per thread, the list it is being asked for
  crew,       \* fixed: the threads there are
  emptyName,  \* fixed: what Ruby makes of "@"
  faults, asks, clearings,  \* counters
  cleared,    \* version of the class when the last complete clearing began
  answer      \* the last list answered, until another one is asked for

vars == <<schema, opened, hashes, call, crew, emptyName, faults, asks,
          clearings, cleared, answer>>

\* A list of a given kind, read through a reflector; whole unless it was made
\* from a list with elements missing or repeated.
List == [of: Lists, ref: Nat, whole: BOOLEAN]
None == [of |-> "reflector", ref |-> 0, whole |-> TRUE]

\* @list of a relationship: being filled by one load or after another one, and
\* loaded with every element once or not.
Fill == {"empty", "filling", "refilling", "whole", "spoiled"}

\* A Hash with the list it holds.  since is history: the version of the class when
\* the clearing began that made it or, of the clearings before that, the latest.
Hash == [val: List, since: 0..MaxVersion]

\* levels: the lists whose blocks are being evaluated, the innermost last, each with
\* the number of the Hash it will be put in.  overtaken is history: a Hash held the
\* list of another thread when it was read again.
Idle == [pc |-> "idle", want |-> "reflector", forced |-> FALSE, levels |-> <<>>,
         val |-> None, since |-> 0, todo |-> {}, overtaken |-> FALSE]

NoAnswer == [list |-> "reflector", val |-> None, forced |-> FALSE, since |-> 0,
             overtaken |-> FALSE]

TypeOK ==
  /\ schema \in 0..MaxVersion
  /\ opened \in Seq([version: 0..MaxVersion, methods: Fill, properties: Fill])
  /\ hashes \in [Keys -> Seq(Hash)]
  /\ call \in [Threads -> [pc: {"idle", "take", "make", "test", "open", "build", "fill", "store",
                                "read", "clear"},
                           want: Lists, forced: BOOLEAN, levels: Seq([list: Lists, hash: Nat]),
                           val: List, since: 0..MaxVersion, todo: SUBSET Cleared,
                           overtaken: BOOLEAN]]
  /\ crew \subseteq Threads /\ emptyName \in EmptyNames
  /\ faults \in Nat /\ asks \in Nat /\ clearings \in Nat
  /\ cleared \in 0..MaxVersion
  /\ answer \in [list: Lists, val: List, forced: BOOLEAN, since: 0..MaxVersion,
                 overtaken: BOOLEAN]
  /\ \A k \in Keys : \A h \in DOMAIN hashes[k] : hashes[k][h].val.ref <= Len(opened)
  /\ \A t \in Threads :
       /\ call[t].pc \in {"test", "open", "build", "fill", "store", "read"} => call[t].levels # <<>>
       /\ \A i \in DOMAIN call[t].levels :
            call[t].levels[i].hash \in DOMAIN hashes[Key(call[t].levels[i].list)]

Init ==
  /\ schema = 0 /\ opened = <<>>
  /\ hashes = [k \in Keys |-> <<>>]
  /\ call = [t \in Threads |-> Idle]
  /\ crew \in (SUBSET Threads) \ {{}} /\ emptyName \in EmptyNames
  /\ faults = 0 /\ asks = 0 /\ clearings = 0 /\ cleared = 0
  /\ answer = NoAnswer

Version(v) == opened[v.ref].version

\* to_a answers @list itself, which a later load may still append to; the
\* other lists are copies.
Whole(v) ==
  IF v.of \in {"methods", "properties"} THEN opened[v.ref][v.of] = "whole" ELSE v.whole

Fixed == UNCHANGED <<crew, emptyName>>

\* What the name holds now, and the clearing it was last told of.
Holds(k) == IF hashes[k] = <<>> THEN None ELSE Last(hashes[k]).val
Floor(k) == IF hashes[k] = <<>> THEN 0 ELSE Last(hashes[k]).since

-----------------------------------------------------------------------------
(* intersys_memoized.                                                      *)

\* A thread asks for a list.
Ask(t, l, forced) ==
  /\ call[t].pc = "idle" /\ asks < MaxAsks /\ asks' = asks + 1
  /\ call' = [call EXCEPT ![t] = [Idle EXCEPT !.pc = "take", !.want = l,
                                              !.forced = forced,
                                              !.since = IF forced THEN schema ELSE 0]]
  /\ answer' = NoAnswer
  /\ UNCHANGED <<schema, opened, hashes, faults, clearings, cleared>> /\ Fixed

\* The call with the block of its innermost list begun: it asks for the source first.
Evaluates(c) ==
  LET l == Last(c.levels).list
  IN  IF l = "reflector" THEN [c EXCEPT !.pc = "open"]
      ELSE [c EXCEPT !.pc = "take", !.want = Source[l]]

\* Slip: a reload is forced of the list asked for and not of its sources.
TookForcingOne(c, h) ==
  LET inside == [c EXCEPT !.levels = Append(@, [list |-> c.want, hash |-> h])]
  IN  IF c.forced /\ c.levels = <<>> THEN Evaluates(inside) ELSE [inside EXCEPT !.pc = "test"]

\* The call with a Hash for the list it wants: a forced one does not ask what it holds.
Took(c, h) ==
  LET inside == [c EXCEPT !.levels = Append(@, [list |-> c.want, hash |-> h])]
  IN  IF c.forced THEN Evaluates(inside) ELSE [inside EXCEPT !.pc = "test"]

\* common_get_or_set: the Hash of the name is taken, if it has one.
Take(t) ==
  LET c == call[t]
      k == Key(c.want)
  IN
  /\ c.pc = "take" /\ (k = "" => emptyName = "accepted")
  /\ call' = [call EXCEPT ![t] = IF hashes[k] = <<>> THEN [c EXCEPT !.pc = "make"]
                                 ELSE Took(c, Len(hashes[k]))]
  /\ UNCHANGED <<schema, opened, hashes, faults, asks, clearings, cleared, answer>> /\ Fixed

\* Otherwise it is given one, even if another thread has given it one meanwhile.
Make(t) ==
  LET c == call[t]
      k == Key(c.want)
  IN
  /\ c.pc = "make"
  /\ hashes' = [hashes EXCEPT ![k] = Append(@, [val |-> None, since |-> Floor(k)])]
  /\ call' = [call EXCEPT ![t] = Took(c, Len(hashes'[k]))]
  /\ UNCHANGED <<schema, opened, faults, asks, clearings, cleared, answer>> /\ Fixed

\* A list is answered to the block that asked for it, or to the program.
Answers(t, v, overtaken) ==
  LET c == call[t]
      late == c.overtaken \/ overtaken
  IN
  IF Len(c.levels) > 1
  THEN /\ call' = [call EXCEPT ![t] = [c EXCEPT !.pc = "build", !.levels = Front(@), !.val = v,
                                                !.overtaken = late]]
       /\ UNCHANGED answer
  ELSE /\ call' = [call EXCEPT ![t] = Idle]
       /\ answer' = [list |-> Last(c.levels).list, val |-> v, forced |-> c.forced,
                     since |-> c.since, overtaken |-> late]

\* What is in the Hash is answered; otherwise the block is evaluated.
Test(t) ==
  LET c == call[t]
      level == Last(c.levels)
      v == hashes[Key(level.list)][level.hash].val
  IN
  /\ c.pc = "test"
  /\ IF v # None THEN Answers(t, v, FALSE)
     ELSE call' = [call EXCEPT ![t] = Evaluates(c)] /\ UNCHANGED answer
  /\ UNCHANGED <<schema, opened, hashes, faults, asks, clearings, cleared>> /\ Fixed

\* Slip: the name is looked up again, and the list put in the Hash it has now.
StoreLate(t) ==
  LET c == call[t]
      k == Key(Last(c.levels).list)
      h == Len(hashes[k])
  IN
  /\ c.pc = "store"
  /\ hashes' = [hashes EXCEPT ![k][h].val = c.val]
  /\ call' = [call EXCEPT ![t].pc = "read", ![t].levels[Len(c.levels)].hash = h]
  /\ UNCHANGED <<schema, opened, faults, asks, clearings, cleared, answer>> /\ Fixed

\* Slip: a list kept in the meantime is not replaced, nor noticed.
StoreUnlessKept(t) ==
  LET c == call[t]
      k == Key(Last(c.levels).list)
      h == Last(c.levels).hash
      v == IF hashes[k][h].val = None THEN c.val ELSE hashes[k][h].val
  IN
  /\ c.pc = "store"
  /\ hashes' = [hashes EXCEPT ![k][h].val = v]
  /\ call' = [call EXCEPT ![t].pc = "read", ![t].val = v]
  /\ UNCHANGED <<schema, opened, faults, asks, clearings, cleared, answer>> /\ Fixed

\* Slip: only the list asked for is kept, and not what is read on the way.
StoreOutermost(t) ==
  LET c == call[t]
      k == Key(Last(c.levels).list)
      h == Last(c.levels).hash
  IN
  /\ c.pc = "store"
  /\ IF Len(c.levels) = 1
     THEN /\ hashes' = [hashes EXCEPT ![k][h].val = c.val]
          /\ call' = [call EXCEPT ![t].pc = "read"]
     ELSE /\ call' = [call EXCEPT ![t].pc = "build", ![t].levels = Front(@)]
          /\ UNCHANGED hashes
  /\ UNCHANGED <<schema, opened, faults, asks, clearings, cleared, answer>> /\ Fixed

\* The value of the block is put in the Hash that was taken before it was
\* evaluated: after a clearing that is no longer the one the name has.
Store(t) ==
  LET c == call[t]
      k == Key(Last(c.levels).list)
      h == Last(c.levels).hash
  IN
  /\ c.pc = "store"
  /\ hashes' = [hashes EXCEPT ![k][h].val = c.val]
  /\ call' = [call EXCEPT ![t].pc = "read"]
  /\ UNCHANGED <<schema, opened, faults, asks, clearings, cleared, answer>> /\ Fixed

\* The Hash is read once more, whoever has put what there since.
Read(t) ==
  LET c == call[t]
      level == Last(c.levels)
      v == hashes[Key(level.list)][level.hash].val
  IN
  /\ c.pc = "read"
  /\ Answers(t, v, v # c.val)
  /\ UNCHANGED <<schema, opened, hashes, faults, asks, clearings, cleared>> /\ Fixed

-----------------------------------------------------------------------------
(* The blocks.                                                             *)

\* ClassDefinition.open.
Open(t) ==
  /\ call[t].pc = "open"
  /\ opened' = Append(opened, [version |-> schema, methods |-> "empty", properties |-> "empty"])
  /\ call' = [call EXCEPT ![t].pc = "store",
                          ![t].val = [of |-> "reflector", ref |-> Len(opened'), whole |-> TRUE]]
  /\ UNCHANGED <<schema, hashes, faults, asks, clearings, cleared, answer>> /\ Fixed

\* to_a of a relationship that is not loaded: @list ||= [], and a new load
\* appends to whatever an earlier one has left or another one is appending.
BeginFill(t) ==
  LET c == call[t]
      l == Last(c.levels).list
      r == c.val.ref
  IN
  /\ c.pc = "build" /\ l \in {"methods", "properties"}
  /\ opened[r][l] \in {"empty", "filling", "refilling"}
  /\ opened' = [opened EXCEPT ![r][l] = IF @ = "empty" THEN "filling" ELSE "refilling"]
  /\ call' = [call EXCEPT ![t].pc = "fill"]
  /\ UNCHANGED <<schema, hashes, faults, asks, clearings, cleared, answer>> /\ Fixed

\* @loaded = true.
EndFill(t) ==
  LET c == call[t]
      l == Last(c.levels).list
      r == c.val.ref
  IN
  /\ c.pc = "fill"
  /\ opened' = [opened EXCEPT ![r][l] = IF @ \in {"filling", "whole"} THEN "whole" ELSE "spoiled"]
  /\ call' = [call EXCEPT ![t].pc = "store", ![t].val = [of |-> l, ref |-> r, whole |-> TRUE]]
  /\ UNCHANGED <<schema, hashes, faults, asks, clearings, cleared, answer>> /\ Fixed

\* to_a of a loaded relationship, and the map and find_all of the other lists.
\* What is made from a list of another kind is of no kind that was asked for;
\* it is named for that kind.
Build(t) ==
  LET c == call[t]
      l == Last(c.levels).list
      r == c.val.ref
      ofOther == c.val.of # Source[l]
  IN
  /\ c.pc = "build"
  /\ l \in {"methods", "properties"} => opened[r][l] \in {"whole", "spoiled"}
  /\ call' = [call EXCEPT ![t].pc = "store",
                ![t].val = [of |-> IF ofOther THEN c.val.of ELSE l, ref |-> r,
                            whole |-> Whole(c.val)]]
  /\ UNCHANGED <<schema, opened, hashes, faults, asks, clearings, cleared, answer>> /\ Fixed

\* Slip: only the innermost block is left.
FailsInside(t) ==
  /\ call[t].pc \in {"open", "build", "fill"} /\ faults < MaxFaults /\ faults' = faults + 1
  /\ call' = [call EXCEPT ![t].levels = Front(@), ![t].pc = "build"]
  /\ UNCHANGED <<schema, opened, hashes, asks, clearings, cleared, answer>> /\ Fixed

\* A call to the server fails, or Ruby refuses the name "@": the exception
\* leaves all the blocks, and what is stored so far stays.
Fails(t) ==
  /\ \/ call[t].pc \in {"open", "build", "fill"} /\ faults < MaxFaults /\ faults' = faults + 1
     \/ /\ call[t].pc = "take" /\ Key(call[t].want) = "" /\ emptyName = "refused"
        /\ UNCHANGED faults
  /\ call' = [call EXCEPT ![t] = Idle]
  /\ UNCHANGED <<schema, opened, hashes, asks, clearings, cleared, answer>> /\ Fixed

-----------------------------------------------------------------------------
(* metadata_cache_was_dirty!, and the server.                              *)

BeginClear(t) ==
  /\ call[t].pc = "idle" /\ clearings < MaxDirty /\ clearings' = clearings + 1
  /\ call' = [call EXCEPT ![t] = [Idle EXCEPT !.pc = "clear", !.since = schema, !.todo = Cleared]]
  /\ UNCHANGED <<schema, opened, hashes, faults, asks, cleared, answer>> /\ Fixed

Later(a, b) == IF a > b THEN a ELSE b

\* A name gets a new Hash.
Clears(t, k) ==
  LET c == call[t]
      done == c.todo = {k}
  IN
  /\ hashes' = [hashes EXCEPT ![k] = Append(@, [val |-> None, since |-> Later(c.since, Floor(k))])]
  /\ call' = [call EXCEPT ![t] = IF done THEN Idle ELSE [c EXCEPT !.todo = @ \ {k}]]
  /\ cleared' = IF done THEN Later(c.since, cleared) ELSE cleared
  /\ UNCHANGED <<schema, opened, faults, asks, clearings, answer>> /\ Fixed

\* Slip: the names are cleared in the opposite order.
ClearBackwards(t) ==
  /\ call[t].pc = "clear"
  /\ \E k \in call[t].todo : (\A j \in call[t].todo : Place[k] >= Place[j]) /\ Clears(t, k)

\* Each name in its turn; another thread may run in between.
Clear(t) ==
  /\ call[t].pc = "clear"
  /\ \E k \in call[t].todo : (\A j \in call[t].todo : Place[k] <= Place[j]) /\ Clears(t, k)

\* The class is compiled anew on the server.
Compile ==
  /\ schema < MaxVersion /\ schema' = schema + 1
  /\ UNCHANGED <<opened, hashes, call, faults, asks, clearings, cleared, answer>> /\ Fixed

Next ==
  \/ \E t \in crew, l \in Lists, forced \in BOOLEAN : Ask(t, l, forced)
  \/ \E t \in crew : Take(t)
  \/ \E t \in crew : Make(t)
  \/ \E t \in crew : Test(t)
  \/ \E t \in crew : Open(t)
  \/ \E t \in crew : BeginFill(t)
  \/ \E t \in crew : EndFill(t)
  \/ \E t \in crew : Build(t)
  \/ \E t \in crew : Store(t)
  \/ \E t \in crew : Read(t)
  \/ \E t \in crew : Fails(t)
  \/ \E t \in crew : BeginClear(t)
  \/ \E t \in crew : Clear(t)
  \/ Compile

Spec == Init /\ [][Next]_vars

-----------------------------------------------------------------------------
(* Properties.                                                             *)

Alone == \A t, u \in crew : t = u

Kept(k) == Holds(k) # None

\* The lists under the empty name and those made from them.
MixedLists ==
  {"relations", "relation_names", "bt_relations", "bt_relation_names", "hm_relations",
   "hm_relation_names", "transient_attributes", "transient_attribute_names"}

\* A forced reload answers the class as it was at the call or later, whatever the other
\* threads read, force, clear or fail to read meanwhile, unless one of them has put a
\* list of its own in a Hash between the two lines in which the reload writes and reads it.
ForcedIsFresh ==
  (answer.forced /\ ~answer.overtaken /\ answer.val # None) =>
    Version(answer.val) >= answer.since

\* In a program with one thread it also answers every element once, even after
\* a load that an exception has cut short.
ForcedIsWhole ==
  (Alone /\ answer.forced /\ answer.val # None) => Whole(answer.val)

\* Once a clearing is complete, nothing read before it is kept or will be put
\* back by a thread that was reading meanwhile, save under the empty name and
\* in the lists made from it: the names are cleared sources first, and a list
\* is put in the Hash that was there before its sources were asked for.
ClearedIsGone ==
  \A k \in Cleared : (Kept(k) /\ k \notin MixedLists) => Version(Holds(k)) >= cleared

\* In a program with one thread, no list is newer than the one it is made
\* from: a reload renews what it reads on the way, and never only a copy.
SourceIsNewest ==
  Alone => \A l \in Lists \ {"reflector"} :
             (Kept(Key(l)) /\ Kept(Key(Source[l])))
               => Version(Holds(Key(l))) <= Version(Holds(Key(Source[l])))
=============================================================================
