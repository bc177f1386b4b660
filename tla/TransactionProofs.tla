------------------------- MODULE TransactionProofs -------------------------
(***************************************************************************)
(* What holds of transaction blocks for every nesting and set of writes.   *)
(***************************************************************************)
EXTENDS Transaction, TLAPS

\* Every step keeps the types of the frames, the level and the writes.
THEOREM TypeCorrect == Spec => []TypeOK
<1>1. Init => TypeOK
  BY DepthAssumption DEF Init, TypeOK
<1>2. TypeOK /\ [Next]_vars => TypeOK'
  <2> SUFFICES ASSUME TypeOK, [Next]_vars PROVE TypeOK'
    OBVIOUS
  <2> USE DepthAssumption DEF TypeOK, fixed, Leaves, ServerDropsAll
  <2>1. CASE Start
    BY <2>1 DEF Start
  <2>2. ASSUME NEW w \in Writes, Write(w) PROVE TypeOK'
    BY <2>2 DEF Write
  <2>3. ASSUME NEW kind \in {"standard", "other"}, Raise(kind) PROVE TypeOK'
    BY <2>3 DEF Raise
  <2>4. CASE Rescue \/ CommitRaises \/ CommitCutOff
    BY <2>4 DEF Rescue, CommitRaises, CommitCutOff
  <2>5. CASE Returns
    BY <2>5 DEF Returns, ServerCommits
  <2>6. CASE UnwindStandard \/ UnwindOther
    BY <2>6 DEF UnwindStandard, UnwindOther
  <2>7. CASE Lose \/ Renew
    BY <2>7 DEF Lose, Renew
  <2>8. CASE UNCHANGED vars
    BY <2>8 DEF vars
  <2>9. QED
    BY <2>1, <2>2, <2>3, <2>4, <2>5, <2>6, <2>7, <2>8 DEF Next
<1>3. QED
  BY <1>1, <1>2, PTL DEF Spec

\* The kind of program and of server do not change.
LEMMA ProgramFixed ==
  ASSUME [Next]_vars PROVE UNCHANGED <<program, emptyCommit>>
<1>1. CASE Next
  BY <1>1 DEF Next, fixed, Start, Write, Raise, Rescue, Returns, CommitRaises,
              CommitCutOff, UnwindStandard, UnwindOther, Lose, Renew, Leaves
<1>2. CASE UNCHANGED vars
  BY <1>2 DEF vars, fixed
<1>3. QED
  BY <1>1, <1>2

-----------------------------------------------------------------------------
(* Blocks that only StandardErrors leave.                                  *)

\* The strengthening of LevelBelowDepth: nothing but StandardErrors is on its way.
Orderly ==
  program # "unruly" =>
    /\ raising # "other"
    /\ level <= depth /\ (level = 0 => pending = {})
    /\ link = "down" => level = 0

LEMMA OrderlyInductive ==
  ASSUME TypeOK, Orderly, [Next]_vars
  PROVE  Orderly'
<1> SUFFICES ASSUME program # "unruly" PROVE Orderly'
  <2>1. program' = program
    BY ProgramFixed
  <2>2. QED
    BY <2>1 DEF Orderly
<1> USE DEF Orderly, TypeOK, Leaves, ServerDropsAll, fixed
<1>1. CASE Start
  BY <1>1 DEF Start
<1>2. ASSUME NEW w \in Writes, Write(w) PROVE Orderly'
  BY <1>2 DEF Write
<1>3. ASSUME NEW kind \in {"standard", "other"}, Raise(kind) PROVE Orderly'
  BY <1>3 DEF Raise
<1>4. CASE Rescue \/ CommitRaises \/ CommitCutOff
  BY <1>4 DEF Rescue, CommitRaises, CommitCutOff
<1>5. CASE Returns
  BY <1>5 DEF Returns, ServerCommits
<1>6. CASE UnwindStandard \/ UnwindOther
  BY <1>6 DEF UnwindStandard, UnwindOther
<1>7. CASE Lose \/ Renew
  BY <1>7 DEF Lose, Renew
<1>8. CASE UNCHANGED vars
  BY <1>8 DEF vars
<1>9. QED
  BY <1>1, <1>2, <1>3, <1>4, <1>5, <1>6, <1>7, <1>8 DEF Next

\* As long as only StandardErrors leave blocks no level is left behind.
THEOREM LevelBelowDepthHolds == Spec => []LevelBelowDepth
<1>1. Init => Orderly
  BY DepthAssumption DEF Init, Orderly
<1>2. TypeOK /\ Orderly => LevelBelowDepth
  BY DEF TypeOK, Orderly, LevelBelowDepth
<1>3. QED
  BY <1>1, <1>2, OrderlyInductive, TypeCorrect, PTL DEF Spec

\* The strengthening of ReturnMeansDurable.  As long as the level is equal to the
\* depth, no rollback has touched the outermost block and all its writes are
\* pending.  A level that fell behind stays behind, down to the commit of the
\* outermost block, which raises.
InStep ==
  program # "unruly" /\ emptyCommit = "raises" =>
    /\ (depth > 0 /\ level = depth) => mine \subseteq pending
    /\ (depth = 0 /\ ended = "returned") => mine \subseteq durable

LEMMA InStepInductive ==
  ASSUME TypeOK, Orderly, InStep, [Next]_vars
  PROVE  InStep'
<1> SUFFICES ASSUME program # "unruly", emptyCommit = "raises" PROVE InStep'
  <2>1. UNCHANGED <<program, emptyCommit>>
    BY ProgramFixed
  <2>2. QED
    BY <2>1 DEF InStep
<1> USE DEF InStep, Orderly, TypeOK, Leaves, ServerDropsAll, fixed
<1>1. CASE Start
  BY <1>1 DEF Start
<1>2. ASSUME NEW w \in Writes, Write(w) PROVE InStep'
  BY <1>2 DEF Write
<1>3. ASSUME NEW kind \in {"standard", "other"}, Raise(kind) PROVE InStep'
  BY <1>3 DEF Raise
<1>4. CASE Rescue \/ CommitRaises
  BY <1>4 DEF Rescue, CommitRaises
<1>5. CASE CommitCutOff
  BY <1>5 DEF CommitCutOff
<1>6. CASE Returns
  <2>1. ServerCommits
    BY <1>6 DEF Returns
  <2>2. CASE level = 1
    <3>1. durable' = durable \cup pending /\ pending' = {} /\ level' = 0
      BY <2>1, <2>2 DEF ServerCommits
    <3>2. depth = 1 => mine \subseteq durable'
      BY <2>2, <3>1
    <3>3. QED
      BY <1>6, <3>1, <3>2 DEF Returns
  <2>3. CASE level # 1
    <3>1. level' = level - 1 /\ level' > 0 /\ UNCHANGED <<durable, pending>>
      BY <2>1, <2>3 DEF ServerCommits
    <3>2. depth > 1
      BY <3>1
    <3>3. QED
      BY <1>6, <3>1, <3>2 DEF Returns
  <2>4. QED
    BY <2>2, <2>3
<1>7. CASE UnwindStandard
  BY <1>7 DEF UnwindStandard
<1>8. CASE UnwindOther
  BY <1>8 DEF UnwindOther
<1>9. CASE Lose \/ Renew
  BY <1>9 DEF Lose, Renew
<1>10. CASE UNCHANGED vars
  BY <1>10 DEF vars
<1>11. QED
  BY <1>1, <1>2, <1>3, <1>4, <1>5, <1>6, <1>7, <1>8, <1>9, <1>10 DEF Next

-----------------------------------------------------------------------------
(* Levels left behind.                                                     *)

\* Whatever leaves blocks: while a level is left behind nothing becomes durable,
\* and it stays behind until a rollback drops everything.
THEOREM StrandedNeverDurableHolds == Spec => StrandedNeverDurable
<1>1. TypeOK /\ [Next]_vars
        => [level > depth =>
              /\ durable' = durable
              /\ level' > depth' \/ (level' = 0 /\ pending' = {})]_vars
  <2> SUFFICES ASSUME TypeOK, Next, level > depth
               PROVE  /\ durable' = durable
                      /\ level' > depth' \/ (level' = 0 /\ pending' = {})
    OBVIOUS
  <2> USE DEF TypeOK, Leaves, ServerDropsAll
  <2>1. CASE Start
    BY <2>1 DEF Start
  <2>2. ASSUME NEW w \in Writes, Write(w)
        PROVE  durable' = durable /\ level' > depth'
    BY <2>2 DEF Write
  <2>3. ASSUME NEW kind \in {"standard", "other"}, Raise(kind)
        PROVE  durable' = durable /\ level' > depth'
    BY <2>3 DEF Raise
  <2>4. CASE Rescue \/ CommitRaises \/ CommitCutOff
    BY <2>4 DEF Rescue, CommitRaises, CommitCutOff
  <2>5. CASE Returns
    BY <2>5 DEF Returns, ServerCommits
  <2>6. CASE UnwindStandard
    <3>1. durable' = durable /\ depth' = depth - 1
      BY <2>6 DEF UnwindStandard
    <3>2. \/ level' = 0 /\ pending' = {}
          \/ level' = level
      BY <2>6 DEF UnwindStandard
    <3>3. QED
      BY <3>1, <3>2
  <2>7. CASE UnwindOther
    BY <2>7 DEF UnwindOther
  <2>8. CASE Lose \/ Renew
    BY <2>8 DEF Lose, Renew
  <2>9. QED
    BY <2>1, <2>2, <2>3, <2>4, <2>5, <2>6, <2>7, <2>8 DEF Next
<1>2. QED
  BY <1>1, TypeCorrect, PTL DEF Spec, StrandedNeverDurable

-----------------------------------------------------------------------------
(* What the exceptions that are rescued leave behind.                      *)

\* A StandardError that leaves the outermost block leaves no transaction open, and nothing
\* else leaves blocks unless the program is unruly.
Cleaned ==
  /\ level = 0 => pending = {}
  /\ link = "down" => level = 0
  /\ (depth = 0 /\ ended = "raised") => level = 0
  /\ program # "unruly" => raising # "other" /\ ended # "left"

LEMMA CleanedInductive ==
  ASSUME TypeOK, Cleaned, [Next]_vars
  PROVE  Cleaned'
<1>1. program' = program
  BY ProgramFixed
<1> USE DEF Cleaned, TypeOK, Leaves, ServerDropsAll, fixed
<1>2. CASE Start
  BY <1>2 DEF Start
<1>3. ASSUME NEW w \in Writes, Write(w) PROVE Cleaned'
  BY <1>3 DEF Write
<1>4. ASSUME NEW kind \in {"standard", "other"}, Raise(kind) PROVE Cleaned'
  BY <1>4 DEF Raise
<1>5. CASE Rescue \/ CommitRaises \/ CommitCutOff
  BY <1>5 DEF Rescue, CommitRaises, CommitCutOff
<1>6. CASE Returns
  BY <1>6 DEF Returns, ServerCommits
<1>7. CASE UnwindStandard
  BY <1>7 DEF UnwindStandard
<1>8. CASE UnwindOther
  BY <1>1, <1>8 DEF UnwindOther
<1>9. CASE Lose \/ Renew
  BY <1>9 DEF Lose, Renew
<1>10. CASE UNCHANGED vars
  BY <1>10 DEF vars
<1>11. QED
  BY <1>2, <1>3, <1>4, <1>5, <1>6, <1>7, <1>8, <1>9, <1>10 DEF Next

\* "In case of exception ROLLBACK TRANSACTION is called" (object.rb:127) is true of every
\* StandardError, whatever has left the blocks of the program before, and over a link
\* that is lost or renewed: only after another exception, or break, return or throw, can
\* a transaction be open when the outermost block has been left, and only an unruly
\* program has those.
THEOREM StandardErrorRollsBack ==
  Spec => []((ended # "left" => ExceptionRollsBack) /\ (program # "unruly" => ExceptionRollsBack))
<1>1. Init => Cleaned
  BY DEF Init, Cleaned
<1>2. Cleaned => (ended # "left" => ExceptionRollsBack) /\ (program # "unruly" => ExceptionRollsBack)
  BY DEF Cleaned, ExceptionRollsBack
<1>3. QED
  BY <1>1, <1>2, CleanedInductive, TypeCorrect, PTL DEF Spec

-----------------------------------------------------------------------------
(* Atomicity.                                                              *)

\* The strengthening for atomicity: while no exception is on its way the level
\* is the depth, unless the link is down, and the block's writes are pending and
\* nowhere else.
Together ==
  program = "plain" =>
    /\ raising # "other"
    /\ depth = 0 => raising = "none"
    /\ level <= depth /\ (level = 0 => pending = {})
    /\ (depth > 0 /\ raising = "none" /\ link = "up") => level = depth
    /\ (depth > 0 /\ (raising = "none" \/ course = "unbroken")) => mine \cap durable = {}
    /\ (depth = 0 /\ ended = "returned") => mine \subseteq durable
    /\ (depth = 0 /\ ended = "raised" /\ course = "unbroken") => mine \cap durable = {}
    /\ level > 0 => (link = "up" /\ pending = mine)

LEMMA TogetherInductive ==
  ASSUME TypeOK, Together, [Next]_vars
  PROVE  Together'
<1> SUFFICES ASSUME program = "plain" PROVE Together'
  <2>1. program' = program
    BY ProgramFixed
  <2>2. QED
    BY <2>1 DEF Together
<1> USE DEF Together, TypeOK, Leaves, ServerDropsAll, fixed
<1>1. CASE Start
  BY <1>1 DEF Start
<1>2. ASSUME NEW w \in Writes, Write(w) PROVE Together'
  BY <1>2 DEF Write
<1>3. ASSUME NEW kind \in {"standard", "other"}, Raise(kind) PROVE Together'
  BY <1>3 DEF Raise
<1>4. CASE Rescue
  BY <1>4 DEF Rescue
<1>5. CASE CommitRaises \/ CommitCutOff
  BY <1>5 DEF CommitRaises, CommitCutOff
<1>6. CASE Returns
  BY <1>6 DEF Returns, ServerCommits
<1>7. CASE UnwindStandard \/ UnwindOther
  BY <1>7 DEF UnwindStandard, UnwindOther
<1>8. CASE Lose
  BY <1>8 DEF Lose
<1>9. CASE Renew
  <2>1. depth > 0 => raising' = "standard"
    BY <1>9 DEF Renew
  <2>2. raising' # "other" /\ (depth = 0 => raising' = "none")
    BY <1>9 DEF Renew
  <2>3. /\ level' = 0 /\ pending' = {} /\ course' = "cut"
        /\ UNCHANGED <<depth, durable, mine, ended, fixed>>
    BY <1>9 DEF Renew
  <2>4. QED
    BY <2>1, <2>2, <2>3
<1>10. CASE UNCHANGED vars
  BY <1>10 DEF vars
<1>11. QED
  BY <1>1, <1>2, <1>3, <1>4, <1>5, <1>6, <1>7, <1>8, <1>9, <1>10 DEF Next

\* The invariant of a plain program.
THEOREM TogetherHolds == Spec => []Together
<1>1. Init => Together
  BY DepthAssumption DEF Init, Together
<1>2. QED
  BY <1>1, TogetherInductive, TypeCorrect, PTL DEF Spec

\* A call of transaction that returns has made all its writes durable, whatever
\* was rescued, lost or renewed inside it, as long as commit raises without an
\* open transaction; a plain program never commits without one.
THEOREM ReturnMeansDurableHolds == Spec => []ReturnMeansDurable
<1>1. Init => Orderly /\ InStep
  BY DepthAssumption DEF Init, Orderly, InStep
<1>2. InStep /\ Together => ReturnMeansDurable
  BY DEF InStep, Together, ReturnMeansDurable, LossIsNoticed
<1>3. QED
  BY <1>1, <1>2, OrderlyInductive, InStepInductive, TogetherHolds, TypeCorrect, PTL
     DEF Spec

\* A call of transaction that raises over a link that held has made nothing durable.
THEOREM RaiseMeansNothingHolds == Spec => []RaiseMeansNothing
<1>1. Together => RaiseMeansNothing
  BY DEF Together, RaiseMeansNothing
<1>2. QED
  BY <1>1, TogetherHolds, PTL

\* The work of the abstract block.
Work == IF depth > 0 THEN mine ELSE {}

\* Each step of the blocks is a step of an atomic block, or none.
LEMMA StepIsAtomic ==
  ASSUME TypeOK, TypeOK', Together, Together', program = "plain", [Next]_vars
  PROVE  \/ Work \cap durable = {} /\ UNCHANGED durable
            /\ \E w \in Writes \ durable : Work' = Work \cup {w}
         \/ durable' = durable \cup Work /\ Work' \in {Work, {}}
         \/ Work' = {} /\ UNCHANGED durable
         \/ UNCHANGED <<Work, durable>>
<1> USE DEF Together, TypeOK, Leaves, ServerDropsAll, fixed, Work
<1>1. CASE Start
  BY <1>1 DEF Start
<1>2. ASSUME NEW w \in Writes, Write(w)
      PROVE  /\ Work \cap durable = {} /\ UNCHANGED durable
             /\ w \notin durable /\ Work' = Work \cup {w}
  BY <1>2 DEF Write
<1>3. CASE (\E kind \in {"standard", "other"} : Raise(kind)) \/ Rescue \/ CommitRaises
  BY <1>3 DEF Raise, Rescue, CommitRaises
<1>4. CASE CommitCutOff
  <2>1. Work' = Work /\ Work = mine /\ pending = mine
    BY <1>4 DEF CommitCutOff
  <2>2. durable' = durable \/ durable' = durable \cup Work
    BY <1>4, <2>1 DEF CommitCutOff
  <2>3. QED
    BY <2>1, <2>2
<1>5. CASE Returns
  <2>1. level = depth /\ ServerCommits /\ Work = mine /\ pending = mine
    BY <1>5 DEF Returns, ServerCommits
  <2>2. CASE depth = 1
    BY <1>5, <2>1, <2>2 DEF Returns, ServerCommits
  <2>3. CASE depth # 1
    <3>1. depth' > 0 /\ mine' = mine
      BY <1>5, <2>3 DEF Returns
    <3>2. durable' = durable
      BY <2>1, <2>3 DEF ServerCommits
    <3>3. QED
      BY <2>1, <3>1, <3>2
  <2>4. QED
    BY <2>2, <2>3
<1>6. CASE UnwindStandard \/ UnwindOther
  <2>1. depth' = depth - 1 /\ depth > 0 /\ UNCHANGED <<mine, durable>>
    BY <1>6 DEF UnwindStandard, UnwindOther
  <2>2. QED
    BY <2>1
<1>7. CASE Lose \/ Renew
  BY <1>7 DEF Lose, Renew
<1>8. CASE UNCHANGED vars
  BY <1>8 DEF vars
<1>9. QED
  BY <1>1, <1>2, <1>3, <1>4, <1>5, <1>6, <1>7, <1>8 DEF Next

\* A call of transaction of a plain program is an atomic block for every nesting,
\* every way of failing and every loss of the link, in a commit as well.
THEOREM Implements == Spec => BlocksAreAtomic
<1>1. Init => A!AInit
  BY DEF Init, A!AInit
<1>2. TypeOK /\ TypeOK' /\ Together /\ Together' /\ [Next]_vars => [A!ANext]_(A!avars)
  <2> SUFFICES ASSUME TypeOK, TypeOK', Together, Together', [Next]_vars
               PROVE  [A!ANext]_(A!avars)
    OBVIOUS
  <2>1. program' = program
    BY ProgramFixed
  <2>2. CASE program = "plain"
    BY <2>1, <2>2, StepIsAtomic DEF A!ANext, A!Add, A!Keep, A!Leave, A!avars, Work
  <2>3. CASE program # "plain"
    BY <2>1, <2>3 DEF A!avars
  <2>4. QED
    BY <2>2, <2>3
<1>3. QED
  BY <1>1, <1>2, TogetherHolds, TypeCorrect, PTL
     DEF Spec, BlocksAreAtomic, A!ASpec
=============================================================================
