---------------------------- MODULE Transaction ----------------------------
(***************************************************************************)
(* Intersys::Object.transaction: nested blocks of one Ruby thread over the *)
(* transaction level of its connection (start, commit and rollback of      *)
(* ext/database.c), with the exceptions that pass through them and the     *)
(* loss or the renewal of the link under them.                             *)
(*                                                                         *)
(* The frames of nested calls differ in nothing but their place, so their  *)
(* number stands for them.                                                 *)
(***************************************************************************)
EXTENDS Naturals

CONSTANTS
  Writes,        \* writes the program may make, each once
  MaxDepth,      \* bound on the nesting of blocks
  MaxLevel,      \* bound on $TLEVEL
  Programs,      \* the programs considered, see program below
  EmptyCommits   \* the servers considered, see emptyCommit below

ASSUME DepthAssumption == MaxDepth \in Nat /\ MaxLevel \in Nat
ASSUME ProgramsAssumption == Programs \subseteq {"plain", "rescuing", "unruly"}
ASSUME EmptyCommitsAssumption == EmptyCommits \subseteq {"raises", "passes"}

VARIABLES
  depth,    \* calls of transaction whose block runs
  raising,  \* what is on its way out of the innermost block, or "none"
  level,    \* $TLEVEL of the connection's server process
  pending,  \* writes of the open transaction
  durable,  \* writes that are there to stay
  link,     \* "up" or "down"
  mine,     \* writes made since the outermost block began
  ended,    \* how the last outermost block ended
  course,   \* "cut" if the link was lost or renewed since the outermost block
            \*   began, "unbroken" otherwise
  program,  \* fixed: "plain" if only StandardErrors leave its blocks, up to the
            \*   outermost caller, and no link is renewed under a block;
            \*   "rescuing" if outer blocks may rescue them and blocks survive
            \*   a renewed link; "unruly" if other exceptions, and break,
            \*   return and throw, leave blocks too
  emptyCommit \* fixed: whether commit "raises" or "passes" when no transaction
            \*   is open

fixed == <<program, emptyCommit>>
vars == <<depth, raising, level, pending, durable, link, mine, ended, course, fixed>>

TypeOK ==
  /\ depth \in 0..MaxDepth /\ level \in Nat
  /\ raising \in {"none", "standard", "other"}
  /\ pending \subseteq Writes /\ durable \subseteq Writes /\ mine \subseteq Writes
  /\ link \in {"up", "down"} /\ course \in {"unbroken", "cut"}
  /\ ended \in {"none", "returned", "raised", "left"}
  /\ program \in Programs /\ emptyCommit \in EmptyCommits

Init ==
  /\ depth = 0 /\ raising = "none" /\ level = 0
  /\ pending = {} /\ durable = {} /\ mine = {}
  /\ link = "up" /\ course = "unbroken" /\ ended = "none"
  /\ program \in Programs /\ emptyCommit \in EmptyCommits

-----------------------------------------------------------------------------
(* The server.                                                             *)

\* The server process ends, or is left: it rolls its transaction back.
ServerDropsAll == level' = 0 /\ pending' = {}

\* The outermost commit makes the writes durable, an inner one counts down.
ServerCommits ==
  /\ link = "up" /\ level > 0 /\ level' = level - 1
  /\ IF level = 1
       THEN durable' = durable \cup pending /\ pending' = {}
       ELSE UNCHANGED <<durable, pending>>

-----------------------------------------------------------------------------
(* Entering a block, and what its code does.                               *)

\* Slip: a nested call joins the transaction that is open.
StartsOutermostOnly ==
  /\ raising = "none" /\ depth < MaxDepth /\ level < MaxLevel /\ link = "up"
  /\ depth' = depth + 1 /\ level' = IF depth = 0 THEN level + 1 ELSE level
  /\ IF depth = 0 THEN mine' = {} /\ course' = "unbroken" ELSE UNCHANGED <<mine, course>>
  /\ UNCHANGED <<raising, pending, durable, link, ended, fixed>>

\* database.start is called outside begin; then the block runs.
Start ==
  /\ raising = "none" /\ depth < MaxDepth /\ level < MaxLevel /\ link = "up"
  /\ depth' = depth + 1 /\ level' = level + 1
  /\ IF depth = 0 THEN mine' = {} /\ course' = "unbroken" ELSE UNCHANGED <<mine, course>>
  /\ UNCHANGED <<raising, pending, durable, link, ended, fixed>>

\* A write inside a block: part of the open transaction, if there is one.
Write(w) ==
  /\ raising = "none" /\ depth > 0 /\ link = "up" /\ w \notin mine \cup durable
  /\ mine' = mine \cup {w}
  /\ IF level > 0
       THEN pending' = pending \cup {w} /\ UNCHANGED durable
       ELSE durable' = durable \cup {w} /\ UNCHANGED pending
  /\ UNCHANGED <<depth, raising, level, link, ended, course, fixed>>

\* The code of a block, any call of the binding or a start that fails in it
\* raises; or the block is left in another way.
Raise(kind) ==
  /\ raising = "none" /\ depth > 0
  /\ kind = "standard" \/ program = "unruly"
  /\ raising' = kind
  /\ UNCHANGED <<depth, level, pending, durable, link, mine, ended, course, fixed>>

\* The code of an outer block rescues what left the inner one.
Rescue ==
  /\ program # "plain" /\ raising # "none" /\ depth > 0
  /\ raising' = "none"
  /\ UNCHANGED <<depth, level, pending, durable, link, mine, ended, course, fixed>>

-----------------------------------------------------------------------------
(* The end of a block.                                                     *)

Leaves(how) ==
  /\ depth' = depth - 1
  /\ ended' = IF depth = 1 THEN how ELSE ended
  /\ UNCHANGED <<link, mine, course, fixed>>

\* Slip: a block that is not the outermost one does not commit.
ReturnsOutermostOnly ==
  /\ raising = "none" /\ depth > 0
  /\ IF depth = 1 THEN ServerCommits ELSE UNCHANGED <<level, durable, pending>>
  /\ Leaves("returned")
  /\ UNCHANGED raising

\* Slip: commit ends every level at once.
ReturnsWholly ==
  /\ raising = "none" /\ depth > 0 /\ link = "up"
  /\ durable' = durable \cup pending /\ pending' = {} /\ level' = 0
  /\ Leaves("returned")
  /\ UNCHANGED raising

\* The block is over: database.commit, and transaction returns.
Returns ==
  /\ raising = "none" /\ depth > 0
  /\ \/ ServerCommits
     \/ /\ link = "up" /\ level = 0 /\ emptyCommit = "passes"
        /\ UNCHANGED <<level, durable, pending>>
  /\ Leaves("returned")
  /\ UNCHANGED raising

\* The commit raises, inside begin: without an open transaction, or because the
\* link is gone.
CommitRaises ==
  /\ raising = "none" /\ depth > 0
  /\ link = "down" \/ (level = 0 /\ emptyCommit = "raises")
  /\ raising' = "standard"
  /\ UNCHANGED <<depth, level, pending, durable, link, mine, ended, course, fixed>>

\* The link is lost during the commit, before or after the server did it.
CommitCutOff ==
  /\ raising = "none" /\ depth > 0 /\ link = "up" /\ level > 0
  /\ durable' \in {durable, IF level = 1 THEN durable \cup pending ELSE durable}
  /\ ServerDropsAll
  /\ raising' = "standard" /\ link' = "down" /\ course' = "cut"
  /\ UNCHANGED <<depth, mine, ended, fixed>>

\* Slip: the commit is in an ensure clause.
UnwindStandardCommits ==
  /\ raising = "standard" /\ depth > 0
  /\ ServerCommits
  /\ Leaves("raised")
  /\ raising' = IF depth = 1 THEN "none" ELSE "standard"

\* rescue StandardError: database.rollback, which takes every level back.  The
\* exception goes on, or the one that rollback raises without an open transaction
\* or over a lost link, which is a StandardError like it.
UnwindStandard ==
  /\ raising = "standard" /\ depth > 0
  /\ \/ link = "up" /\ level > 0 /\ ServerDropsAll
     \/ (link = "down" \/ level = 0) /\ UNCHANGED <<level, pending>>
  /\ Leaves("raised")
  /\ raising' = IF depth = 1 THEN "none" ELSE "standard"
  /\ UNCHANGED durable

\* No clause matches and there is no ensure: the frame is gone, and that is all.
UnwindOther ==
  /\ raising = "other" /\ depth > 0
  /\ Leaves("left")
  /\ raising' = IF depth = 1 THEN "none" ELSE "other"
  /\ UNCHANGED <<level, pending, durable>>

-----------------------------------------------------------------------------
(* The link.                                                               *)

Lose ==
  /\ link = "up" /\ link' = "down" /\ course' = "cut"
  /\ ServerDropsAll
  /\ UNCHANGED <<depth, raising, durable, mine, ended, fixed>>

\* The link is replaced, by reconnect! or by the reconnection inside prepare
\* (460): the old server process is left, with what it had open.  Inside a block
\* the NoMethodError of reconnect! goes on its way, unless the host application
\* supplies what is missing and the block continues.
Renew ==
  /\ raising = "none"
  /\ link' = "up" /\ course' = "cut"
  /\ ServerDropsAll
  /\ raising' = IF depth = 0 \/ program # "plain" THEN "none" ELSE "standard"
  /\ UNCHANGED <<depth, durable, mine, ended, fixed>>

Next ==
  \/ Start
  \/ \E w \in Writes : Write(w)
  \/ \E kind \in {"standard", "other"} : Raise(kind)
  \/ Rescue
  \/ Returns \/ CommitRaises \/ CommitCutOff
  \/ UnwindStandard \/ UnwindOther
  \/ Lose \/ Renew

Spec == Init /\ [][Next]_vars

-----------------------------------------------------------------------------
(* Properties.                                                             *)

\* While nothing but StandardErrors leaves blocks, the server is never deeper
\* in transactions than Ruby is in blocks: no level is left behind that would
\* turn the next outermost commit into an inner one.
LevelBelowDepth ==
  program # "unruly" => level <= depth /\ (pending # {} => level > 0)

\* A level that was left behind, by an exception that is no StandardError or by
\* break, return or throw, disables commit: until a rollback drops everything,
\* calls of transaction return and nothing at all becomes durable.
StrandedNeverDurable ==
  [][level > depth =>
       /\ durable' = durable
       /\ level' > depth' \/ (level' = 0 /\ pending' = {})]_vars

\* What ReturnMeansDurable rests on: with rescued exceptions and renewed links
\* commit has to raise when no transaction is open.
LossIsNoticed == program = "plain" \/ (program = "rescuing" /\ emptyCommit = "raises")

\* A call of transaction that returns has made all its writes durable, with
\* nested blocks, rescued exceptions and renewed links too: whoever lost work
\* meets the commit that raises.
ReturnMeansDurable ==
  LossIsNoticed /\ depth = 0 /\ ended = "returned" => mine \subseteq durable

\* A call of transaction that raises, over a link that held, has made none of
\* its writes durable; true only as long as no inner exception is rescued.
RaiseMeansNothing ==
  program = "plain" /\ depth = 0 /\ ended = "raised" /\ course = "unbroken"
    => mine \cap durable = {}

\* Without rescued inner exceptions and renewed links a transaction call is an
\* atomic block, whatever its nesting, its exceptions and the loss of the link.
\* The program is fixed, so that the other programs map to no block at all.
A == INSTANCE AtomicBlock WITH
       work <- IF program = "plain" /\ depth > 0 THEN mine ELSE {},
       durable <- IF program = "plain" THEN durable ELSE {}

BlocksAreAtomic == A!ASpec

\* "In case of exception ROLLBACK TRANSACTION is called" (object.rb:127): when
\* an exception has left the outermost block, no transaction is open.
ExceptionRollsBack ==
  (depth = 0 /\ ended \in {"raised", "left"}) => (level = 0 /\ pending = {})
=============================================================================
