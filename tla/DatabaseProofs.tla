--------------------------- MODULE DatabaseProofs ---------------------------
(***************************************************************************)
(* What holds of Database for every set of links, of classes and of codes  *)
(* the binding may answer, of Definitions for every number of them, and of *)
(* Query, the statements of a Database, for every number of them and every *)
(* size of the pool.                                                       *)
(***************************************************************************)
EXTENDS MCDatabase, Query, TLAPS

\* run, the error convention of common.c, lets a code pass or turns it into
\* one of the two exceptions of the binding.
LEMMA RunRange ==
  ASSUME NEW err
  PROVE  run(err) \in LibraryErrors \cup {"ok"}
BY DEF run, LibraryErrors

\* A code RUN raises on is reported as one of those exceptions.
LEMMA LoudRange ==
  ASSUME NEW h, NEW open, NEW c \in Loud(h, open)
  PROVE  run(c) \in LibraryErrors
BY RunRange DEF Loud, Passes

\* The codes of a failed opening are reported as exceptions too.
LEMMA OpenFailsRange ==
  ASSUME NEW c \in OpenFails
  PROVE  run(c) \in LibraryErrors
BY CodesAssumption DEF run, LibraryErrors

\* The exceptions of the binding are results, and differ from every other.
LEMMA ErrorsAreResults ==
  /\ LibraryErrors \subseteq Results
  /\ LibraryErrors \cap {"ok", "NoMethodError", "OtherError", "TypeError"} = {}
BY DEF LibraryErrors, Results

\* Freeing only ever shrinks the set of open handles.
LEMMA AfterFreeShrinks ==
  ASSUME NEW h, NEW open, NEW code
  PROVE  AfterFree(h, open, code) \subseteq open
BY DEF AfterFree

\* intersys_base_real_close keeps the types of the struct and of the handles,
\* and only ever frees.
LEMMA RealCloseType ==
  ASSUME TypeOK, NEW op \in Ops, RealClose(op)
  PROVE  /\ base' \in [connection: Handles, database: Handles, closed: BOOLEAN]
         /\ base'.connection = base.connection
         /\ base'.database = base.database
         /\ conns' \subseteq conns
         /\ dbs' \subseteq dbs
         /\ answer' \in [op: Ops, result: Results]
<1> USE DEF TypeOK, Answer
<1>1. \A c : run(c) \in Results
  BY RunRange, ErrorsAreResults DEF Results
<1>2. CASE base.closed
  BY <1>1, <1>2 DEF RealClose, Results
<1>3. CASE ~base.closed
  <2>1. base' = [base EXCEPT !.closed = TRUE]
    BY <1>3 DEF RealClose
  <2>2. conns' \subseteq conns /\ dbs' \subseteq dbs
    BY <1>3, AfterFreeShrinks DEF RealClose, DbsAfter, ConnsAfter
  <2>3. answer' \in [op: Ops, result: Results]
    BY <1>1, <1>3 DEF RealClose
  <2>4. QED
    BY <2>1, <2>2, <2>3
<1>4. QED
  BY <1>2, <1>3

-----------------------------------------------------------------------------
(* Type correctness.                                                       *)

\* Every operation of the Database object keeps the types of the struct, of
\* the binding's handles and of the memoised metadata.
THEOREM TypeCorrect == Spec => []TypeOK
<1>1. Init => TypeOK
  BY DEF Init, TypeOK, Handles, Phases, Ops, Results
<1>2. TypeOK /\ [Next]_vars => TypeOK'
  <2> SUFFICES ASSUME TypeOK, [Next]_vars PROVE TypeOK'
    OBVIOUS
  <2> USE RunRange, LoudRange, OpenFailsRange, ErrorsAreResults
      DEF TypeOK, Handles, Phases, Ops, Answer
  <2>1. CASE InitializeRefused
    BY <2>1 DEF InitializeRefused, Results
  <2>2. CASE InitializeHalfOpens
    BY <2>2 DEF InitializeHalfOpens, Fresh
  <2>3. CASE InitializeOpens
    BY <2>3, ZenonT(40) DEF InitializeOpens, Fresh, Results
  <2>4. CASE ReconnectKeepsDatabase
    BY <2>4 DEF ReconnectKeepsDatabase
  <2>5. CASE ReconnectKeepsConnection
    BY <2>5 DEF ReconnectKeepsConnection, DbsAfter, AfterFree
  <2>6. CASE ReconnectRefused
    BY <2>6 DEF ReconnectRefused, DbsAfter, ConnsAfter, AfterFree
  <2>7. CASE ReconnectHalfOpens
    BY <2>7 DEF ReconnectHalfOpens, DbsAfter, ConnsAfter, AfterFree, Fresh
  <2>8. CASE ReconnectOpens
    <3>1. PICK l \in Fresh :
            /\ base' = [base EXCEPT !.connection = l, !.database = l]
            /\ issued' = issued \cup {l}
            /\ AfterReopening(l)
      BY <2>8 DEF ReconnectOpens
    <3>2. l \in Links
      BY DEF Fresh
    <3>3. dbs' \subseteq Links /\ conns' \subseteq Links
      BY <2>8 DEF ReconnectOpens, DbsAfter, ConnsAfter, AfterFree, Fresh
    <3>4. memo' \in [Classes -> Handles]
      BY <3>1, <3>2 DEF AfterReopening
    <3>5. answer' \in [op: Ops, result: Results]
      BY <3>1 DEF AfterReopening, Results
    <3>6. lost' \subseteq Links /\ phase' = phase
      BY <2>8, <3>1, <3>2 DEF ReconnectOpens, AfterReopening
    <3>7. QED
      BY <3>1, <3>2, <3>3, <3>4, <3>5, <3>6
  <2>9. CASE Close
    BY <2>9, RealCloseType DEF Close
  <2>10. CASE Collect
    BY <2>10, RealCloseType DEF Collect
  <2>11. ASSUME NEW c \in Classes, Memoize(c) PROVE TypeOK'
    BY <2>11 DEF Memoize, Usable, Up, Results
  <2>12. ASSUME NEW l \in Links, Lose(l) PROVE TypeOK'
    BY <2>12 DEF Lose
  <2>13. CASE UNCHANGED vars
    BY <2>13 DEF vars
  <2>14. QED
    BY <2>1, <2>2, <2>3, <2>4, <2>5, <2>6, <2>7, <2>8, <2>9, <2>10, <2>11,
       <2>12, <2>13 DEF Next, Initialize, Reconnect
<1>3. QED
  BY <1>1, <1>2, PTL DEF Spec

-----------------------------------------------------------------------------
(* One link at a time.                                                     *)

\* What the safety theorems assume of the binding: an answer that RUN lets
\* through means that an open handle has been freed.  Negative answers, which
\* RUN ignores, would leave the old link open beside the new one.
FreesTellTruth == \A c \in LostFree : Passes(c) => c = 0

\* The strengthening of SoleLink: links are issued before they are open or
\* lost, and a struct that was never initialised has none.
IInv ==
  /\ TypeOK
  /\ SoleLink
  /\ conns \subseteq issued
  /\ lost \subseteq issued
  /\ phase = "allocated" => conns = {} /\ dbs = {}

\* After a quiet release of the struct's handle nothing is left open.
LEMMA QuietReleases ==
  ASSUME FreesTellTruth, NEW h, NEW open, open \subseteq {h},
         NEW c \in Quiet(h, open)
  PROVE  AfterFree(h, open, c) = {}
BY DEF FreesTellTruth, Quiet, FreeCodes, AfterFree

\* The frees of reconnect! and of close go from the database handle to the
\* connection, so that the database handle never outlives the connection.
LEMMA RealCloseSole ==
  ASSUME FreesTellTruth, IInv, NEW op, RealClose(op)
  PROVE  /\ dbs' \subseteq dbs
         /\ conns' \subseteq conns
         /\ dbs' \subseteq conns'
<1>1. CASE base.closed
  BY <1>1 DEF RealClose, IInv, SoleLink
<1>2. CASE ~base.closed /\ UNCHANGED <<conns, dbs>>
  BY <1>2 DEF IInv, SoleLink
<1>3. CASE /\ \E c \in Quiet(base.database, dbs) : dbs' = DbsAfter(c)
           /\ \E c \in FreeCodes(base.connection, conns) : conns' = ConnsAfter(c)
  <2>1. dbs' = {}
    BY <1>3, QuietReleases DEF IInv, SoleLink, DbsAfter
  <2>2. conns' \subseteq conns
    BY <1>3, AfterFreeShrinks DEF ConnsAfter
  <2>3. QED
    BY <2>1, <2>2
<1>4. QED
  BY <1>1, <1>2, <1>3 DEF RealClose

LEMMA IInvInductive ==
  ASSUME FreesTellTruth, IInv, TypeOK', [Next]_vars
  PROVE  IInv'
<1> USE DEF IInv, SoleLink, TypeOK
<1>1. CASE InitializeRefused
  BY <1>1 DEF InitializeRefused
<1>2. CASE InitializeHalfOpens
  BY <1>2 DEF InitializeHalfOpens, Fresh
<1>3. CASE InitializeOpens
  BY <1>3 DEF InitializeOpens, Fresh
<1>4. CASE ReconnectKeepsDatabase
  BY <1>4 DEF ReconnectKeepsDatabase
<1>5. CASE ReconnectKeepsConnection
  BY <1>5, QuietReleases DEF ReconnectKeepsConnection, DbsAfter
<1>6. CASE ReconnectRefused
  BY <1>6, QuietReleases DEF ReconnectRefused, DbsAfter, ConnsAfter
<1>7. CASE ReconnectHalfOpens
  BY <1>7, QuietReleases DEF ReconnectHalfOpens, DbsAfter, ConnsAfter, Fresh
<1>8. CASE ReconnectOpens
  <2>1. PICK l \in Fresh :
          /\ base' = [base EXCEPT !.connection = l, !.database = l]
          /\ issued' = issued \cup {l}
          /\ \E c \in Quiet(base.database, dbs) : dbs' = DbsAfter(c) \cup {l}
          /\ \E c \in Quiet(base.connection, conns) : conns' = ConnsAfter(c) \cup {l}
          /\ AfterReopening(l)
    BY <1>8 DEF ReconnectOpens
  <2>2. dbs' = {l} /\ conns' = {l}
    BY <2>1, QuietReleases DEF DbsAfter, ConnsAfter
  <2>3. lost' \subseteq issued' /\ phase' = phase /\ phase = "live"
    BY <1>8, <2>1 DEF ReconnectOpens, AfterReopening
  <2>4. QED
    BY <2>1, <2>2, <2>3 DEF Fresh
<1>9. CASE Close
  BY <1>9, RealCloseSole, RealCloseType DEF Close, Ops
<1>10. CASE Collect
  BY <1>10, RealCloseSole, RealCloseType DEF Collect, Ops
<1>11. ASSUME NEW c \in Classes, Memoize(c) PROVE IInv'
  BY <1>11 DEF Memoize
<1>12. ASSUME NEW l \in Links, Lose(l) PROVE IInv'
  BY <1>12 DEF Lose
<1>13. CASE UNCHANGED vars
  BY <1>13 DEF vars
<1>14. QED
  BY <1>1, <1>2, <1>3, <1>4, <1>5, <1>6, <1>7, <1>8, <1>9, <1>10, <1>11,
     <1>12, <1>13 DEF Next, Initialize, Reconnect

\* The invariant the theorems below share.
THEOREM Inductive == ASSUME FreesTellTruth PROVE Spec => []IInv
<1>1. Init => IInv
  BY DEF Init, IInv, SoleLink, TypeOK, Handles, Phases, Ops, Results
<1>2. IInv /\ TypeOK' /\ [Next]_vars => IInv'
  BY IInvInductive
<1>3. Spec => []TypeOK
  BY TypeCorrect
<1>4. QED
  BY <1>1, <1>2, <1>3, PTL DEF Spec

\* Whatever the interleaving of reconnect!, close, failed openings and losses,
\* the binding holds at most the link the struct names.
THEOREM SoleLinkHolds == ASSUME FreesTellTruth PROVE Spec => []SoleLink
<1>1. IInv => SoleLink
  BY DEF IInv
<1>2. QED
  BY <1>1, Inductive, PTL

-----------------------------------------------------------------------------
(* What the caller of reconnect! may conclude.                             *)

\* The step form of OutcomeTellsLink, one case per ending of reconnect!.
LEMMA OutcomeStep ==
  ASSUME FreesTellTruth, IInv, TypeOK', Reconnect
  PROVE  \/ answer'.result \in LibraryErrors <=> ~Usable'
         \/ /\ "preloader" \in Hosts /\ answer'.result # "ok"
            /\ Up' /\ base'.connection \notin issued
            /\ \A c \in Classes : Fits(c)'
<1> USE DEF Answer
<1>1. CASE ReconnectKeepsDatabase
  <2>1. answer'.result \in LibraryErrors
    BY <1>1, LoudRange DEF ReconnectKeepsDatabase
  <2>2. base.database \notin dbs \/ base.database \in lost
    BY <1>1 DEF ReconnectKeepsDatabase, Loud, FreeCodes, Passes, run
  <2>3. ~Usable
    BY <2>2 DEF Usable, Up, IInv, SoleLink
  <2>4. UNCHANGED <<base, conns, dbs, lost>>
    BY <1>1 DEF ReconnectKeepsDatabase
  <2>5. QED
    BY <2>1, <2>3, <2>4 DEF Usable, Up
<1>2. CASE ReconnectKeepsConnection
  <2>1. answer'.result \in LibraryErrors
    BY <1>2, LoudRange DEF ReconnectKeepsConnection
  <2>2. dbs' = {}
    BY <1>2, QuietReleases DEF ReconnectKeepsConnection, DbsAfter, IInv, SoleLink
  <2>3. QED
    BY <2>1, <2>2 DEF Usable, Up
<1>3. CASE ReconnectRefused
  <2>1. answer'.result \in LibraryErrors
    BY <1>3, OpenFailsRange DEF ReconnectRefused
  <2>2. dbs' = {}
    BY <1>3, QuietReleases DEF ReconnectRefused, DbsAfter, IInv, SoleLink
  <2>3. QED
    BY <2>1, <2>2 DEF Usable, Up
<1>4. CASE ReconnectHalfOpens
  <2>1. answer'.result \in LibraryErrors
    BY <1>4, OpenFailsRange DEF ReconnectHalfOpens
  <2>2. dbs' = {}
    BY <1>4, QuietReleases DEF ReconnectHalfOpens, DbsAfter, IInv, SoleLink
  <2>3. QED
    BY <2>1, <2>2 DEF Usable, Up
<1>5. CASE ReconnectOpens
  <2>1. PICK l \in Fresh :
          /\ base' = [base EXCEPT !.connection = l, !.database = l]
          /\ \E c \in Quiet(base.database, dbs) : dbs' = DbsAfter(c) \cup {l}
          /\ \E c \in Quiet(base.connection, conns) : conns' = ConnsAfter(c) \cup {l}
          /\ AfterReopening(l)
    BY <1>5 DEF ReconnectOpens
  <2>2. base'.connection = l /\ base'.database = l
    BY <2>1 DEF IInv, TypeOK
  <2>3. l \notin lost /\ l \notin issued /\ Up'
    BY <2>1, <2>2 DEF Fresh, IInv, Up
  <2>4. CASE UNCHANGED lost /\ answer'.result \in {"ok", "NoMethodError"}
    <3>1. Usable'
      BY <2>2, <2>3, <2>4 DEF Usable
    <3>2. answer'.result \notin LibraryErrors
      BY <2>4, ErrorsAreResults
    <3>3. QED
      BY <3>1, <3>2
  <2>5. CASE /\ "preloader" \in Hosts /\ answer'.result # "ok"
             /\ memo' \in [Classes -> {NoLink, l}]
    BY <2>2, <2>3, <2>5 DEF Fits
  <2>6. \/ UNCHANGED lost /\ answer'.result \in {"ok", "NoMethodError"}
        \/ /\ "preloader" \in Hosts /\ memo' \in [Classes -> {NoLink, l}]
           /\ answer'.result \in LibraryErrors \cup {"NoMethodError", "OtherError"}
    BY <2>1 DEF AfterReopening
  <2>7. QED
    BY <2>4, <2>5, <2>6, ErrorsAreResults
<1>6. QED
  BY <1>1, <1>2, <1>3, <1>4, <1>5 DEF Reconnect

\* reconnect! raises an exception of the binding exactly when it leaves no
\* usable link; only what a preloader raises comes out later, with the new link
\* in the struct and no metadata of an old one.
THEOREM OutcomeTellsLinkHolds ==
  ASSUME FreesTellTruth PROVE Spec => OutcomeTellsLink
<1>1. IInv /\ TypeOK' /\ [Next]_vars
        => [Reconnect =>
              \/ answer'.result \in LibraryErrors <=> ~Usable'
              \/ /\ "preloader" \in Hosts /\ answer'.result # "ok"
                 /\ Up' /\ base'.connection \notin issued
                 /\ \A c \in Classes : Fits(c)']_vars
  BY OutcomeStep
<1>2. QED
  BY <1>1, Inductive, TypeCorrect, PTL DEF Spec, OutcomeTellsLink

-----------------------------------------------------------------------------
(* The limits of reconnect!.                                               *)

\* With a binding that never overlooks the free of a handle that is not open,
\* no operation gives a struct that lost its database handle another one.
THEOREM BrokenStaysBrokenHolds ==
  ASSUME \A c \in StaleFree : ~Passes(c)
  PROVE  Spec => BrokenStaysBroken
<1> DEFINE Stays == (phase # "allocated" /\ base.database \notin dbs)
                      => base'.database \notin dbs'
<1>1. TypeOK /\ [Next]_vars => Stays
  <2> SUFFICES ASSUME TypeOK, [Next]_vars, phase # "allocated", base.database \notin dbs
               PROVE  base'.database \notin dbs'
    OBVIOUS
  <2>1. Quiet(base.database, dbs) = {}
    BY DEF Quiet, FreeCodes
  <2>2. CASE Initialize
    BY <2>2 DEF Initialize, InitializeRefused, InitializeHalfOpens, InitializeOpens
  <2>3. CASE ReconnectKeepsDatabase
    BY <2>3 DEF ReconnectKeepsDatabase
  <2>4. CASE ReconnectKeepsConnection \/ ReconnectRefused \/ ReconnectHalfOpens
             \/ ReconnectOpens
    BY <2>1, <2>4 DEF ReconnectKeepsConnection, ReconnectRefused,
                      ReconnectHalfOpens, ReconnectOpens
  <2>5. CASE Close
    BY <2>5, RealCloseType DEF Close, Ops
  <2>6. CASE Collect
    BY <2>6, RealCloseType DEF Collect, Ops
  <2>7. ASSUME NEW c \in Classes, Memoize(c) PROVE base'.database \notin dbs'
    BY <2>7 DEF Memoize
  <2>8. ASSUME NEW l \in Links, Lose(l) PROVE base'.database \notin dbs'
    BY <2>8 DEF Lose
  <2>9. CASE UNCHANGED vars
    BY <2>9 DEF vars
  <2>10. QED
    BY <2>2, <2>3, <2>4, <2>5, <2>6, <2>7, <2>8, <2>9 DEF Next, Reconnect
<1>2. TypeOK /\ [Next]_vars => [Stays]_vars
  BY <1>1
<1>3. QED
  BY <1>2, TypeCorrect, PTL DEF Spec, BrokenStaysBroken

\* Metadata gets stale in a reconnect! that ends with NoMethodError and nowhere
\* else, whatever callbacks the host supplies.
THEOREM StaleIsAnnouncedHolds ==
  ASSUME FreesTellTruth PROVE Spec => StaleIsAnnounced
<1> DEFINE Unused == phase = "allocated" => \A c \in Classes : memo[c] = NoLink
           Said   == ~Stale /\ Stale' => answer' = [op |-> "reconnect!", result |-> "NoMethodError"]
<1>1. Init => Unused
  BY DEF Init
<1>2. IInv /\ Unused /\ IInv' /\ [Next]_vars => Unused' /\ Said
  <2> SUFFICES ASSUME IInv, Unused, IInv', [Next]_vars PROVE Unused' /\ Said
    OBVIOUS
  <2>1. CASE InitializeRefused \/ InitializeHalfOpens
    BY <2>1 DEF InitializeRefused, InitializeHalfOpens, Stale
  <2>2. CASE InitializeOpens
    BY <2>2 DEF InitializeOpens, Stale, Fits
  <2>3. CASE ReconnectKeepsDatabase
    BY <2>3 DEF ReconnectKeepsDatabase, Stale, Fits, Up
  <2>4. CASE ReconnectKeepsConnection \/ ReconnectRefused \/ ReconnectHalfOpens
    <3>1. dbs' = {} /\ phase = "live" /\ phase' = phase
      BY <2>4, QuietReleases
         DEF ReconnectKeepsConnection, ReconnectRefused, ReconnectHalfOpens, DbsAfter, IInv, SoleLink
    <3>2. QED
      BY <3>1 DEF Stale, Up
  <2>5. CASE ReconnectOpens
    <3>1. PICK l \in Fresh :
            /\ base' = [base EXCEPT !.connection = l, !.database = l]
            /\ AfterReopening(l)
      BY <2>5 DEF ReconnectOpens
    <3>2. base'.connection = l /\ phase = "live" /\ phase' = phase
      BY <2>5, <3>1 DEF ReconnectOpens, IInv, TypeOK
    <3>3. CASE Answer("reconnect!", "NoMethodError")
      BY <3>2, <3>3 DEF Answer
    <3>4. CASE memo' \in [Classes -> {NoLink, l}]
      BY <3>2, <3>4 DEF Stale, Fits
    <3>5. QED
      BY <3>1, <3>3, <3>4 DEF AfterReopening
  <2>6. CASE Close
    <3>1. base'.connection = base.connection /\ base'.database = base.database
          /\ conns' \subseteq conns /\ dbs' \subseteq dbs
      BY <2>6, RealCloseType DEF Close, Ops, IInv
    <3>2. QED
      BY <2>6, <3>1 DEF Close, Stale, Fits, Up
  <2>7. CASE Collect
    BY <2>7 DEF Collect, Stale
  <2>8. ASSUME NEW c \in Classes, Memoize(c) PROVE Unused' /\ Said
    <3>1. UNCHANGED <<base, conns, dbs, phase>> /\ phase = "live"
      BY <2>8 DEF Memoize
    <3>2. \A d \in Classes : memo'[d] \in {memo[d], base.connection}
      BY <2>8 DEF Memoize, IInv, TypeOK
    <3>3. QED
      BY <3>1, <3>2 DEF Stale, Fits, Up
  <2>9. ASSUME NEW l \in Links, Lose(l) PROVE Unused' /\ Said
    BY <2>9 DEF Lose, Stale, Fits, Up
  <2>10. CASE UNCHANGED vars
    BY <2>10 DEF vars, Stale, Fits, Up
  <2>11. QED
    BY <2>1, <2>2, <2>3, <2>4, <2>5, <2>6, <2>7, <2>8, <2>9, <2>10
       DEF Next, Initialize, Reconnect
<1>3. IInv /\ Unused /\ IInv' /\ [Next]_vars => [Said]_vars
  BY <1>2
<1>4. QED
  BY <1>1, <1>2, <1>3, Inductive, PTL DEF Spec, StaleIsAnnounced

-----------------------------------------------------------------------------
(* The end of a healthy object.                                            *)

\* An object collected with a working link frees both handles and raises
\* nothing inside the collector.
THEOREM HealthyEndIsCleanHolds ==
  ASSUME FreesTellTruth PROVE Spec => HealthyEndIsClean
<1> DEFINE Clean == (phase # "dead" /\ phase' = "dead" /\ Usable /\ ~base.closed)
                      => (conns' = {} /\ dbs' = {} /\ answer'.result = "ok")
<1>1. IInv /\ [Next]_vars => Clean
  <2> SUFFICES ASSUME IInv, [Next]_vars, phase # "dead", phase' = "dead", Usable, ~base.closed
               PROVE  conns' = {} /\ dbs' = {} /\ answer'.result = "ok"
    OBVIOUS
  <2>1. Collect
    BY DEF Next, Initialize, InitializeRefused, InitializeHalfOpens,
           InitializeOpens, Reconnect, ReconnectKeepsDatabase,
           ReconnectKeepsConnection, ReconnectRefused, ReconnectHalfOpens,
           ReconnectOpens, Close, Memoize, Lose, vars
  <2>2. dbs = {base.database} /\ conns = {base.connection}
    BY DEF IInv, SoleLink, Usable, Up
  <2>3. base.database = base.connection
    BY <2>2 DEF IInv, SoleLink
  <2>4. /\ FreeCodes(base.database, dbs) = {0}
        /\ FreeCodes(base.connection, conns) = {0}
    BY <2>2, <2>3 DEF FreeCodes, Usable
  <2>5. run(0) = "ok" /\ Passes(0)
    BY DEF run, Passes
  <2>6. /\ Loud(base.database, dbs) = {}
        /\ Quiet(base.database, dbs) = {0}
    BY <2>4, <2>5 DEF Loud, Quiet
  <2>7. /\ dbs' = DbsAfter(0)
        /\ conns' = ConnsAfter(0)
        /\ answer'.result = "ok"
    BY <2>1, <2>4, <2>5, <2>6 DEF Collect, RealClose, Answer
  <2>8. QED
    BY <2>2, <2>7 DEF DbsAfter, ConnsAfter, AfterFree
<1>2. IInv /\ [Next]_vars => [Clean]_vars
  BY <1>1
<1>3. QED
  BY <1>2, Inductive, PTL DEF Spec, HealthyEndIsClean

-----------------------------------------------------------------------------
(* Definitions.                                                            *)

\* Who has which handle: a definition that is dead has none of its own, one that has
\* both and is alive has its class definition as long as its link stands, and what is
\* left behind or was raised for is one of the kinds DefinitionsGiveBack names.
HandleOf(d) ==
  /\ definition[d].life = "none" => d \notin classDefs \cup ownDefs \cup sweepRaised
  /\ definition[d].life = "making" =>
       /\ d \in classDefs /\ d \notin ownDefs \cup sweepRaised
       /\ definition[d].link = renewals
  /\ definition[d].life \in {"made", "dropped"} =>
       /\ d \notin sweepRaised
       /\ definition[d].def = "named" /\ definition[d].link = renewals => d \in classDefs
  /\ definition[d].life = "dead" =>
       /\ d \notin ownDefs
       /\ d \in classDefs \cup sweepRaised =>
            definition[d].def = "null" \/ definition[d].link # renewals \/ linkState = "lost"
  /\ d \in ownDefs => definition[d].def = "named"
  /\ definition[d].link <= renewals

Accounts == \A d \in Definitions : HandleOf(d)

\* How far the call has come: one definition is made at a time, a method only for a
\* call that waits for it, and a name that was tried in vain was not there or met a
\* lost link, which then is lost still or has been renewed.
Lookups ==
  /\ \A d, e \in Definitions :
       definition[d].life = "making" /\ definition[e].life = "making" => d = e
  /\ caller.since <= renewals
  /\ caller.result = "asked" /\ caller.attempt = 1 => caller.late = {}
  /\ caller.result \in {"asked", "NoMethodError"} /\ caller.attempt = 2 /\ 1 \in caller.exists =>
       1 \in caller.late \cup caller.odd
  /\ caller.result = "NoMethodError" =>
       caller.attempt = 2 /\ caller.exists \subseteq caller.late \cup caller.odd
  /\ asks = "remote" /\ 1 \in caller.late =>
       /\ linkState = "lost" \/ renewals > caller.since
       /\ caller.result = "NoMethodError" => renewals > caller.since
  /\ \A d \in Definitions :
       definition[d].life = "making" /\ definition[d].type = "method" =>
         /\ caller.result = "asked"
         /\ asks = "remote" /\ 1 \in caller.late => renewals > caller.since

\* Making, dropping and collecting definitions keeps their types.
THEOREM DefTypeCorrect == DefSpec => []DefTypeOK
<1>1. DefInit => DefTypeOK
  BY BadFreeAssumption DEF DefInit, DefTypeOK, Zeroed, DefTypes, DefLives, Attempts, Callers
<1>2. DefTypeOK /\ [DefNext]_defVars => DefTypeOK'
  <2> SUFFICES ASSUME DefTypeOK, [DefNext]_defVars PROVE DefTypeOK'
    OBVIOUS
  <2> USE DEF DefTypes, DefLives, Attempts, Link
  <2> DEFINE Answered == {"called", "NoMethodError"} \cup LibraryErrors
  <2>1. run(461) \in Answered /\ run(5001) \in Answered
    BY DEF run, LibraryErrors, LinkErrors
  <2>2. ASSUME NEW result \in Answered, NEW asked \in Callers, EndsCall(asked, result)
        PROVE  caller' \in Callers
    BY <2>2 DEF EndsCall, Callers
  <2>3. /\ caller \in Callers
        /\ [caller EXCEPT !.late = @ \cup {caller.attempt}] \in Callers
        /\ [caller EXCEPT !.odd = @ \cup {caller.attempt}] \in Callers
    BY DEF DefTypeOK, Callers
  <2> HIDE DEF Answered
  <2>4. CASE AskMethod
    BY <2>4 DEF AskMethod, DefTypeOK, Callers
  <2>5. ASSUME NEW d \in Definitions, NEW type \in DefTypes, ClassDef(d, type) PROVE DefTypeOK'
    BY <2>5 DEF ClassDef, DefTypeOK
  <2>6. ASSUME NEW d \in Definitions, NEW type \in DefTypes, ClassDefRefused(d, type)
        PROVE  DefTypeOK'
    <3>2. run(IF linkState = "lost" THEN 461 ELSE 5001) \in Answered
      BY <2>1
    <3>3. CASE type = "method"
      <4>1. EndsCall(caller, run(IF linkState = "lost" THEN 461 ELSE 5001))
        BY <2>6, <3>3 DEF ClassDefRefused, Answers
      <4>2. caller' \in Callers
        BY <2>2, <2>3, <3>2, <4>1
      <4>3. QED
        BY <2>6, <4>2 DEF ClassDefRefused, Zeroed, DefTypeOK
    <3>4. CASE type # "method"
      BY <2>6, <3>4 DEF ClassDefRefused, Zeroed, DefTypeOK
    <3>5. QED
      BY <3>3, <3>4
  <2>7. ASSUME NEW d \in Definitions, NEW life \in DefLives, NEW def \in {"null", "named"},
               Becomes(d, life, def),
               caller' \in Callers
        PROVE  DefTypeOK'
    <3>1. definition' \in [Definitions -> [type: DefTypes, link: 0..MaxRenewals,
                                           def: {"null", "named"}, life: DefLives]]
      <4>1. definition' = [definition EXCEPT ![d].life = life, ![d].def = def]
        BY <2>7 DEF Becomes
      <4>2. definition[d] \in [type: DefTypes, link: 0..MaxRenewals, def: {"null", "named"}, life: DefLives]
        BY DEF DefTypeOK
      <4>3. [definition[d] EXCEPT !.life = life, !.def = def]
              \in [type: DefTypes, link: 0..MaxRenewals, def: {"null", "named"}, life: DefLives]
        BY <2>7, <4>2
      <4>4. QED
        BY <4>1, <4>3 DEF DefTypeOK
    <3>2. QED
      BY <2>7, <3>1 DEF Becomes, DefTypeOK
  <2>8. ASSUME NEW d \in Definitions, OwnDefRefused(d) PROVE DefTypeOK'
    <3>1. caller' \in Callers
      <4>1. CASE definition[d].type = "method"
        <5>1. EndsCall(caller, run(5001))
          BY <2>8, <4>1 DEF OwnDefRefused, Answers
        <5>2. QED
          BY <2>1, <2>2, <2>3, <5>1
      <4>2. CASE definition[d].type # "method"
        BY <2>8, <4>2 DEF OwnDefRefused, DefTypeOK
      <4>3. QED
        BY <4>1, <4>2
    <3>2. QED
      BY <2>7, <2>8, <3>1 DEF OwnDefRefused
  <2>9. ASSUME NEW d \in Definitions, DetailsRefused(d) PROVE DefTypeOK'
    BY <2>7, <2>9 DEF DetailsRefused, DefTypeOK
  <2>10. ASSUME NEW d \in Definitions, NoSuchMethod(d) PROVE DefTypeOK'
    <3>1. "NoMethodError" \in Answered
      BY DEF Answered
    <3>2. PICK asked \in Callers : EndsCall(asked, "NoMethodError")
      BY <2>3, <2>10 DEF NoSuchMethod
    <3>3. caller' \in Callers
      BY <2>2, <3>1, <3>2
    <3>4. QED
      BY <2>7, <2>10, <3>3 DEF NoSuchMethod
  <2>11. ASSUME NEW d \in Definitions, MethodRefused(d) PROVE DefTypeOK'
    <3>1. EndsCall(caller, run(461))
      BY <2>11 DEF MethodRefused, Answers
    <3>2. caller' \in Callers
      BY <2>1, <2>2, <2>3, <3>1
    <3>3. QED
      BY <2>7, <2>11, <3>2 DEF MethodRefused
  <2>12. ASSUME NEW d \in Definitions, Describes(d) PROVE DefTypeOK'
    BY <2>2, <2>3, <2>7, <2>12 DEF Describes, Answers, DefTypeOK, Answered
  <2>13. ASSUME NEW d \in Definitions, DropDefinition(d) PROVE DefTypeOK'
    BY <2>13 DEF DropDefinition, DefTypeOK
  <2>14. ASSUME NEW d \in Definitions, CollectDefinition(d) PROVE DefTypeOK'
    BY <2>14 DEF CollectDefinition, DefTypeOK
  <2>15. CASE LinkLost \/ LinkRenewed
    BY <2>15, BadFreeAssumption DEF LinkLost, LinkRenewed, DefTypeOK
  <2>16. CASE UNCHANGED defVars
    BY <2>16 DEF defVars, DefTypeOK
  <2>17. QED
    BY <2>4, <2>5, <2>6, <2>8, <2>9, <2>10, <2>11, <2>12, <2>13, <2>14, <2>15, <2>16 DEF DefNext
<1>3. QED
  BY <1>1, <1>2, PTL DEF DefSpec

\* A struct that is not filled names no handle.
LEMMA ZeroedFields ==
  ASSUME NEW link, NEW life
  PROVE  /\ Zeroed(link, life).type = "property" /\ Zeroed(link, life).link = link
         /\ Zeroed(link, life).def = "null" /\ Zeroed(link, life).life = life
BY DEF Zeroed

\* Whatever making a definition came to, or where it failed, the accounts are in order.
LEMMA BecomesInOrder ==
  ASSUME DefTypeOK, Accounts, NEW d \in Definitions, definition[d].life = "making",
         \/ \E def \in {"null", "named"} : Becomes(d, "dropped", def)
         \/ Becomes(d, "made", "named")
  PROVE  Accounts'
<1>1. PICK life \in {"made", "dropped"}, def \in {"null", "named"} : Becomes(d, life, def)
  OBVIOUS
<1>2. /\ definition' = [definition EXCEPT ![d].life = life, ![d].def = def]
      /\ ownDefs' = IF def = "named" THEN ownDefs \cup {d} ELSE ownDefs
      /\ UNCHANGED <<classDefs, renewals, linkState, sweepRaised>>
  BY <1>1 DEF Becomes, Link
<1>3. ASSUME NEW e \in Definitions, e # d PROVE HandleOf(e)'
  <2>1. definition'[e] = definition[e] /\ (e \in ownDefs' <=> e \in ownDefs)
    BY <1>2, <1>3 DEF DefTypeOK
  <2>2. HandleOf(e)
    BY DEF Accounts
  <2>3. QED
    BY <1>2, <2>1, <2>2 DEF HandleOf
<1>4. HandleOf(d)'
  <2>1. /\ definition'[d].life = life /\ definition'[d].def = def
        /\ definition'[d].link = definition[d].link
    BY <1>2 DEF DefTypeOK
  <2>2. HandleOf(d)
    BY DEF Accounts
  <2>3. QED
    BY <1>2, <2>1, <2>2 DEF HandleOf
<1>5. QED
  BY <1>3, <1>4 DEF Accounts

\* The accounts of a definition that a step does not touch stay in order.
LEMMA OtherHandles ==
  ASSUME DefTypeOK, Accounts, NEW e \in Definitions,
         definition'[e] = definition[e], e \in classDefs' <=> e \in classDefs,
         e \in ownDefs' <=> e \in ownDefs, e \in sweepRaised' <=> e \in sweepRaised,
         UNCHANGED <<renewals, linkState>>
  PROVE  HandleOf(e)'
BY DEF Accounts, HandleOf

\* Handles are allocated and given back as HandleOf says, whatever fails.
LEMMA AccountsInOrder ==
  ASSUME DefTypeOK, Accounts, [DefNext]_defVars
  PROVE  Accounts'
<1>1. CASE AskMethod
  BY <1>1 DEF AskMethod, Accounts, HandleOf, Link
<1>2. ASSUME NEW d \in Definitions, NEW type \in DefTypes, ClassDef(d, type) PROVE Accounts'
  <2>1. ASSUME NEW e \in Definitions, e # d PROVE HandleOf(e)'
    <3>1. /\ definition'[e] = definition[e] /\ (e \in classDefs' <=> e \in classDefs)
          /\ UNCHANGED <<ownDefs, sweepRaised, renewals, linkState>>
      BY <1>2, <2>1 DEF ClassDef, DefTypeOK, Link
    <3>2. QED
      BY <3>1, OtherHandles
  <2>2. HandleOf(d)'
    <3>1. HandleOf(d) /\ definition[d].life = "none"
      BY <1>2 DEF ClassDef, Accounts
    <3>2. /\ definition'[d].life = "making" /\ definition'[d].link = renewals
          /\ d \in classDefs' /\ UNCHANGED <<ownDefs, sweepRaised, renewals, linkState>>
      BY <1>2 DEF ClassDef, DefTypeOK, Link
    <3>3. renewals \in Int
      BY BadFreeAssumption DEF DefTypeOK
    <3>4. QED
      BY <3>1, <3>2, <3>3 DEF HandleOf
  <2>3. QED
    BY <2>1, <2>2 DEF Accounts
<1>3. ASSUME NEW d \in Definitions, NEW type \in DefTypes, ClassDefRefused(d, type) PROVE Accounts'
  <2>1. UNCHANGED <<classDefs, ownDefs, sweepRaised, renewals, linkState>>
    BY <1>3 DEF ClassDefRefused, Link
  <2>2. ASSUME NEW e \in Definitions, e # d PROVE HandleOf(e)'
    <3>1. definition'[e] = definition[e]
      BY <1>3, <2>2 DEF ClassDefRefused, DefTypeOK
    <3>2. QED
      BY <2>1, <3>1, OtherHandles
  <2>3. HandleOf(d)'
    <3>1. HandleOf(d) /\ definition[d].life = "none"
      BY <1>3 DEF ClassDefRefused, Accounts
    <3>2. definition'[d] = Zeroed(renewals, "dropped")
      BY <1>3 DEF ClassDefRefused, DefTypeOK
    <3>3. renewals \in Int
      BY BadFreeAssumption DEF DefTypeOK
    <3>4. QED
      BY <2>1, <3>1, <3>2, <3>3, ZeroedFields DEF HandleOf
  <2>4. QED
    BY <2>2, <2>3 DEF Accounts
<1>4. ASSUME NEW d \in Definitions,
             \/ OwnDefRefused(d) \/ DetailsRefused(d) \/ NoSuchMethod(d) \/ MethodRefused(d)
             \/ Describes(d)
      PROVE  Accounts'
  <2>1. definition[d].life = "making"
    BY <1>4 DEF OwnDefRefused, DetailsRefused, NoSuchMethod, MethodRefused, Describes
  <2>2. \/ Becomes(d, "dropped", "null") \/ Becomes(d, "dropped", "named")
        \/ Becomes(d, "made", "named")
    BY <1>4 DEF OwnDefRefused, DetailsRefused, NoSuchMethod, MethodRefused, Describes
  <2>3. QED
    BY <2>1, <2>2, BecomesInOrder
<1>5. ASSUME NEW d \in Definitions, DropDefinition(d) PROVE Accounts'
  <2>1. UNCHANGED <<classDefs, ownDefs, sweepRaised, renewals, linkState>>
    BY <1>5 DEF DropDefinition, Link
  <2>2. ASSUME NEW e \in Definitions, e # d PROVE HandleOf(e)'
    <3>1. definition'[e] = definition[e]
      BY <1>5, <2>2 DEF DropDefinition, DefTypeOK
    <3>2. QED
      BY <2>1, <3>1, OtherHandles
  <2>3. HandleOf(d)'
    <3>1. HandleOf(d) /\ definition[d].life = "made"
      BY <1>5 DEF DropDefinition, Accounts
    <3>2. /\ definition'[d].life = "dropped" /\ definition'[d].def = definition[d].def
          /\ definition'[d].link = definition[d].link
      BY <1>5 DEF DropDefinition, DefTypeOK
    <3>3. QED
      BY <2>1, <3>1, <3>2 DEF HandleOf
  <2>4. QED
    BY <2>2, <2>3 DEF Accounts
<1>6. ASSUME NEW d \in Definitions, CollectDefinition(d) PROVE Accounts'
  <2>1. PICK own \in OwnDefCodes(d), class \in ClassDefCodes(d) :
          /\ ownDefs' = ownDefs \ {d}
          /\ classDefs' = IF Passes(own) /\ class = 0 THEN classDefs \ {d} ELSE classDefs
          /\ sweepRaised' = IF Passes(own) /\ Passes(class) THEN sweepRaised
                            ELSE sweepRaised \cup {d}
    BY <1>6 DEF CollectDefinition
  <2>2. UNCHANGED <<renewals, linkState>> /\ HandleOf(d) /\ definition[d].life = "dropped"
    BY <1>6 DEF CollectDefinition, Link, Accounts
  <2>3. ASSUME NEW e \in Definitions, e # d PROVE HandleOf(e)'
    <3>1. /\ definition'[e] = definition[e] /\ (e \in classDefs' <=> e \in classDefs)
          /\ (e \in ownDefs' <=> e \in ownDefs) /\ (e \in sweepRaised' <=> e \in sweepRaised)
      BY <1>6, <2>1, <2>3 DEF CollectDefinition, DefTypeOK
    <3>2. QED
      BY <2>2, <3>1, OtherHandles
  <2>4. /\ definition'[d].life = "dead" /\ definition'[d].def = definition[d].def
        /\ definition'[d].link = definition[d].link
    BY <1>6 DEF CollectDefinition, DefTypeOK
  <2>5. definition[d].def = "named" /\ definition[d].link = renewals /\ linkState # "lost"
          => own = 0 /\ class = 0
    BY <2>1, <2>2 DEF OwnDefCodes, ClassDefCodes, HandleOf
  <2>6. Passes(0)
    BY DEF Passes, run
  <2>7. definition[d].def \in {"null", "named"}
    BY DEF DefTypeOK
  <2>8. HandleOf(d)'
    BY <2>1, <2>2, <2>4, <2>5, <2>6, <2>7 DEF HandleOf
  <2>9. QED
    BY <2>3, <2>8 DEF Accounts
<1>7. CASE LinkLost
  BY <1>7 DEF LinkLost, Accounts, HandleOf
<1>8. CASE LinkRenewed
  <2>1. /\ renewals \in Int /\ renewals' = renewals + 1 /\ classDefs' = {}
        /\ UNCHANGED <<definition, ownDefs, sweepRaised>>
        /\ \A d \in Definitions : definition[d].life # "making"
    BY <1>8, BadFreeAssumption DEF LinkRenewed, DefTypeOK
  <2>2. ASSUME NEW d \in Definitions PROVE HandleOf(d)'
    <3>1. HandleOf(d) /\ definition[d].link \in Int
      BY BadFreeAssumption DEF Accounts, DefTypeOK
    <3>2. QED
      BY <2>1, <3>1 DEF HandleOf
  <2>3. QED
    BY <2>2 DEF Accounts
<1>9. CASE UNCHANGED defVars
  BY <1>9 DEF defVars, Accounts, HandleOf
<1>10. QED
  BY <1>1, <1>2, <1>3, <1>4, <1>5, <1>6, <1>7, <1>8, <1>9 DEF DefNext

\* What a definition leaves behind in the binding, or raises in the collector, is what
\* DefinitionsGiveBack says, however many are made and wherever making one fails.
THEOREM DefinitionsGiveBackHolds == DefSpec => []DefinitionsGiveBack
<1>1. DefInit => Accounts
  BY ZeroedFields DEF DefInit, Accounts, HandleOf
<1>2. DefTypeOK /\ Accounts /\ [DefNext]_defVars => Accounts'
  BY AccountsInOrder
<1>3. DefTypeOK /\ Accounts => DefinitionsGiveBack
  BY DEF DefTypeOK, Accounts, HandleOf, DefinitionsGiveBack
<1>4. QED
  BY <1>1, <1>2, <1>3, DefTypeCorrect, PTL DEF DefSpec

\* The caller is told how making its method ended.
LEMMA MethodAnswered ==
  ASSUME DefTypeOK, Lookups, UNCHANGED <<renewals, linkState, asks>>,
         \A d \in Definitions : definition'[d].life # "making",
         caller.result = "asked",
         NEW result, result # "asked", NEW asked \in Callers, EndsCall(asked, result),
         asked.attempt = caller.attempt, asked.exists = caller.exists,
         asked.since = caller.since, asked.result = caller.result,
         caller.odd \subseteq asked.odd,
         asked.late \in {caller.late, caller.late \cup {caller.attempt}},
         linkState = "lost" \/ asked.late = caller.late,
         result = "NoMethodError" /\ caller.attempt \in caller.exists =>
           caller.attempt \in asked.late \cup asked.odd,
         \/ caller.attempt = 1
         \/ asks = "remote" /\ 1 \in caller.late => renewals > caller.since
         \/ result # "NoMethodError"
  PROVE  Lookups'
<1>1. /\ caller.attempt \in {1, 2} /\ caller.exists \subseteq {1, 2} /\ caller.late \subseteq {1, 2}
      /\ caller \in Callers
  BY DEF DefTypeOK, Callers, Attempts
<1>2. CASE result = "NoMethodError" /\ caller.attempt = 1
  <2>1. /\ caller'.attempt = 2 /\ caller'.late = asked.late /\ caller'.result = "asked"
        /\ caller'.odd = asked.odd
        /\ caller'.exists = caller.exists /\ caller'.since = caller.since
    BY <1>1, <1>2 DEF EndsCall, Callers
  <2>2. caller.late = {}
    BY <1>2 DEF Lookups
  <2>3. QED
    BY <1>1, <1>2, <2>1, <2>2 DEF Lookups
<1>3. CASE ~(result = "NoMethodError" /\ caller.attempt = 1)
  <2>1. /\ caller'.attempt = caller.attempt /\ caller'.late = asked.late /\ caller'.result = result
        /\ caller'.odd = asked.odd
        /\ caller'.exists = caller.exists /\ caller'.since = caller.since
    BY <1>1, <1>3 DEF EndsCall, Callers
  <2>2. QED
    BY <1>1, <1>3, <2>1 DEF Lookups
<1>4. QED
  BY <1>2, <1>3

\* Calls and the definitions made for them follow each other as Lookups says.
LEMMA LookupsInOrder ==
  ASSUME DefTypeOK, Lookups, [DefNext]_defVars
  PROVE  Lookups'
<1>1. CASE AskMethod
  <2>1. PICK first \in Attempts, exists \in SUBSET Attempts :
          /\ \A a \in exists : a >= first
          /\ caller' = [attempt |-> first, exists |-> exists, late |-> {},
                        odd |-> {}, since |-> renewals, result |-> "asked"]
    BY <1>1 DEF AskMethod
  <2>2. \A d \in Definitions :
          ~(definition[d].life = "making" /\ definition[d].type = "method")
    BY <1>1 DEF AskMethod, Lookups
  <2>3. 1 \in exists => first = 1
    BY <2>1 DEF Attempts
  <2>4. UNCHANGED <<definition, renewals, linkState, asks>> /\ renewals \in Int
    BY <1>1, BadFreeAssumption DEF AskMethod, Link, DefTypeOK
  <2>5. QED
    BY <2>1, <2>2, <2>3, <2>4 DEF Lookups
<1>2. ASSUME NEW d \in Definitions, NEW type \in DefTypes, ClassDef(d, type) PROVE Lookups'
  <2>1. /\ \A e \in Definitions : e # d => definition'[e] = definition[e]
        /\ definition'[d].type = type
        /\ \A e \in Definitions : definition[e].life # "making"
        /\ type = "method" => caller.result = "asked"
        /\ linkState = "lost" => asks = "copied"
        /\ UNCHANGED <<caller, renewals, linkState, asks>>
    BY <1>2 DEF ClassDef, Due, Link, DefTypeOK
  <2>2. linkState \in {"up", "lost"}
    BY DEF DefTypeOK
  <2>3. QED
    BY <2>1, <2>2 DEF Lookups
<1>3. ASSUME NEW d \in Definitions, NEW type \in DefTypes, ClassDefRefused(d, type) PROVE Lookups'
  <2>1. /\ \A e \in Definitions : e # d => definition'[e] = definition[e]
        /\ definition'[d] = Zeroed(renewals, "dropped")
        /\ \A e \in Definitions : definition[e].life # "making"
        /\ type = "method" => caller.result = "asked"
        /\ UNCHANGED <<renewals, linkState, asks>>
    BY <1>3 DEF ClassDefRefused, Due, Link, DefTypeOK
  <2>2. \A e \in Definitions : definition'[e].life # "making"
    BY <2>1, ZeroedFields
  <2>3. CASE type = "method"
    <3> DEFINE result == run(IF linkState = "lost" THEN 461 ELSE 5001)
    <3>1. result # "asked" /\ result # "NoMethodError"
      BY DEF run, LinkErrors
    <3>2. EndsCall(caller, result)
      BY <1>3, <2>3 DEF ClassDefRefused, Answers
    <3> HIDE DEF result
    <3>3. QED
      BY <2>1, <2>2, <2>3, <3>1, <3>2, MethodAnswered DEF DefTypeOK
  <2>4. CASE type # "method"
    BY <1>3, <2>1, <2>2, <2>4 DEF ClassDefRefused, Lookups
  <2>5. QED
    BY <2>3, <2>4
<1>4. ASSUME NEW d \in Definitions,
             \/ OwnDefRefused(d) \/ DetailsRefused(d) \/ NoSuchMethod(d) \/ MethodRefused(d)
             \/ Describes(d)
      PROVE  Lookups'
  <2>1. definition[d].life = "making"
    BY <1>4 DEF OwnDefRefused, DetailsRefused, NoSuchMethod, MethodRefused, Describes
  <2>2. \/ Becomes(d, "dropped", "null") \/ Becomes(d, "dropped", "named")
        \/ Becomes(d, "made", "named")
    BY <1>4 DEF OwnDefRefused, DetailsRefused, NoSuchMethod, MethodRefused, Describes
  <2>3. /\ \A e \in Definitions : definition'[e].life # "making"
        /\ UNCHANGED <<renewals, linkState, asks>>
    <3>1. \A e \in Definitions \ {d} : definition[e].life # "making"
      BY <2>1 DEF Lookups
    <3>2. \A e \in Definitions \ {d} : definition'[e] = definition[e]
      BY <2>2 DEF Becomes, DefTypeOK
    <3>3. definition'[d].life \in {"made", "dropped"}
      BY <2>2 DEF Becomes, DefTypeOK
    <3>4. QED
      BY <2>2, <3>1, <3>2, <3>3 DEF Becomes, Link
  <2>4. CASE definition[d].type # "method"
    <3>1. UNCHANGED caller
      BY <1>4, <2>4 DEF OwnDefRefused, DetailsRefused, NoSuchMethod, MethodRefused, Describes
    <3>2. QED
      BY <2>3, <3>1 DEF Lookups
  <2>5. CASE definition[d].type = "method"
    <3>1. /\ caller.result = "asked"
          /\ asks = "remote" /\ 1 \in caller.late => renewals > caller.since
      BY <2>1, <2>5 DEF Lookups
    <3>2. CASE OwnDefRefused(d) \/ MethodRefused(d)
      <4>1. PICK c \in {461, 5001} : EndsCall(caller, run(c))
        BY <2>5, <3>2 DEF OwnDefRefused, MethodRefused, Answers
      <4>2. run(c) # "asked" /\ run(c) # "NoMethodError"
        BY DEF run, LinkErrors
      <4>3. QED
        BY <2>3, <3>1, <4>1, <4>2, MethodAnswered DEF DefTypeOK
    <3>3. CASE NoSuchMethod(d)
      <4> DEFINE lateOne == [caller EXCEPT !.late = @ \cup {caller.attempt}]
                 oddOne  == [caller EXCEPT !.odd = @ \cup {caller.attempt}]
      <4>1. /\ caller \in Callers /\ lateOne \in Callers /\ oddOne \in Callers
            /\ lateOne.attempt = caller.attempt /\ lateOne.exists = caller.exists
            /\ lateOne.since = caller.since /\ lateOne.result = caller.result
            /\ lateOne.odd = caller.odd /\ lateOne.late = caller.late \cup {caller.attempt}
            /\ oddOne.attempt = caller.attempt /\ oddOne.exists = caller.exists
            /\ oddOne.since = caller.since /\ oddOne.result = caller.result
            /\ oddOne.late = caller.late /\ oddOne.odd = caller.odd \cup {caller.attempt}
        BY DEF DefTypeOK, Callers
      <4>2. \/ linkState = "lost" /\ EndsCall(lateOne, "NoMethodError")
            \/ caller.attempt \notin caller.exists /\ EndsCall(caller, "NoMethodError")
            \/ EndsCall(oddOne, "NoMethodError")
        BY <3>3 DEF NoSuchMethod
      <4> HIDE DEF lateOne, oddOne
      <4>3. CASE linkState = "lost" /\ EndsCall(lateOne, "NoMethodError")
        BY <2>3, <3>1, <4>1, <4>3, MethodAnswered
      <4>4. CASE caller.attempt \notin caller.exists /\ EndsCall(caller, "NoMethodError")
        BY <2>3, <3>1, <4>1, <4>4, MethodAnswered
      <4>5. CASE EndsCall(oddOne, "NoMethodError")
        BY <2>3, <3>1, <4>1, <4>5, MethodAnswered
      <4>6. QED
        BY <4>2, <4>3, <4>4, <4>5
    <3>4. CASE Describes(d)
      <4>1. EndsCall(caller, "called")
        BY <2>5, <3>4 DEF Describes, Answers
      <4>2. QED
        BY <2>3, <3>1, <4>1, MethodAnswered DEF DefTypeOK
    <3>5. QED
      BY <1>4, <2>5, <3>2, <3>3, <3>4 DEF DetailsRefused
  <2>6. QED
    BY <2>4, <2>5
<1>5. ASSUME NEW d \in Definitions, NEW life \in {"dropped", "dead"},
             definition' = [definition EXCEPT ![d].life = life],
             UNCHANGED <<caller, renewals, linkState, asks>>
      PROVE  Lookups'
  <2>1. \A e \in Definitions :
          definition'[e].life = "making" =>
            definition[e].life = "making" /\ definition'[e].type = definition[e].type
    BY <1>5 DEF DefTypeOK
  <2>2. QED
    BY <1>5, <2>1 DEF Lookups
<1>6. ASSUME NEW d \in Definitions, DropDefinition(d) \/ CollectDefinition(d) PROVE Lookups'
  BY <1>5, <1>6 DEF DropDefinition, CollectDefinition, Link
<1>7. CASE LinkLost
  BY <1>7 DEF LinkLost, Lookups
<1>8. CASE LinkRenewed
  <2>1. renewals \in Int /\ caller.since \in Int
    BY BadFreeAssumption DEF DefTypeOK, Callers
  <2>2. caller.since < renewals'
    BY <1>8, <2>1 DEF LinkRenewed, Lookups
  <2>3. QED
    BY <1>8, <2>1, <2>2 DEF LinkRenewed, Lookups
<1>9. CASE UNCHANGED defVars
  BY <1>9 DEF defVars, Lookups
<1>10. QED
  BY <1>1, <1>2, <1>3, <1>4, <1>6, <1>7, <1>8, <1>9 DEF DefNext

\* A method that exists is reported missing only as ExistingIsNotMissing says, however
\* often the link is lost and renewed.
THEOREM ExistingIsNotMissingHolds == DefSpec => []ExistingIsNotMissing
<1>1. DefInit => Lookups
  BY ZeroedFields, BadFreeAssumption DEF DefInit, Lookups
<1>2. DefTypeOK /\ Lookups /\ [DefNext]_defVars => Lookups'
  BY LookupsInOrder
<1>3. Lookups => ExistingIsNotMissing
  BY DEF Lookups, ExistingIsNotMissing
<1>4. QED
  BY <1>1, <1>2, <1>3, DefTypeCorrect, PTL DEF DefSpec

-----------------------------------------------------------------------------
(* The database inside the composition.                                    *)

\* Every step of the composition is a step of the database, or leaves it alone.
LEMMA StepKeepsDatabase ==
  ASSUME [QNext]_allvars
  PROVE  [Next]_vars
<1>1. CASE DatabaseStep
  BY <1>1 DEF DatabaseStep, Next
<1>2. CASE CollectDatabase
  BY <1>2 DEF CollectDatabase, Next
<1>3. ASSUME NEW q \in Queries, Prepare(q) PROVE [Next]_vars
  BY <1>3 DEF Prepare, PrepareAllocates, PrepareOverlooks, PrepareRefused,
     PrepareRegularRaises, PrepareRegularStops, PrepareRegularRetries, Next
<1>4. ASSUME NEW q \in Queries, Execute(q) \/ CloseQuery(q) \/ Drop(q)
      PROVE  UNCHANGED vars
  BY <1>4 DEF Execute, CloseQuery, Drop
<1>5. ASSUME NEW q \in Queries, FreeQuery(q) PROVE UNCHANGED vars
  BY <1>5 DEF FreeQuery, FreeQueryClosed, FreeQueryRaises, FreeQueryExecuted,
     FreeQueryPrepared
<1>6. CASE UNCHANGED allvars
  BY <1>6 DEF allvars
<1>7. QED
  BY <1>1, <1>2, <1>3, <1>4, <1>5, <1>6 DEF QNext, QueryStep

\* Statements never do anything to their database that Database does not
\* describe: its theorems hold in the composition.
LEMMA DatabaseIsKept == QSpec => Spec
<1>1. QInit => Init
  BY DEF QInit
<1>2. [QNext]_allvars => [Next]_vars
  BY StepKeepsDatabase
<1>3. QED
  BY <1>1, <1>2, PTL DEF QSpec, Spec

\* A link is opened once: what is open after a step was open before it or is
\* issued by it, and links are neither un-issued nor found again.
LEMMA LinksAreIssuedOnce ==
  ASSUME [Next]_vars
  PROVE  /\ issued \subseteq issued' /\ lost \subseteq lost'
         /\ conns' \ conns \subseteq issued' \ issued
         /\ dbs' \ dbs \subseteq issued' \ issued
<1> USE AfterFreeShrinks DEF DbsAfter, ConnsAfter, Fresh
<1>1. CASE Initialize
  BY <1>1 DEF Initialize, InitializeRefused, InitializeHalfOpens, InitializeOpens
<1>2. CASE ReconnectKeepsDatabase \/ ReconnectKeepsConnection \/ ReconnectRefused
  BY <1>2 DEF ReconnectKeepsDatabase, ReconnectKeepsConnection, ReconnectRefused
<1>3. CASE ReconnectHalfOpens
  BY <1>3 DEF ReconnectHalfOpens
<1>4. CASE ReconnectOpens
  BY <1>4 DEF ReconnectOpens, AfterReopening
<1>5. CASE Close \/ Collect
  BY <1>5 DEF Close, Collect, RealClose
<1>6. CASE (\E c \in Classes : Memoize(c)) \/ (\E l \in Links : Lose(l))
  BY <1>6 DEF Memoize, Lose
<1>7. CASE UNCHANGED vars
  BY <1>7 DEF vars
<1>8. QED
  BY <1>1, <1>2, <1>3, <1>4, <1>5, <1>6, <1>7 DEF Next, Reconnect

-----------------------------------------------------------------------------
(* The ways a statement moves.                                             *)

\* prepare makes the object, with a handle or without one.
MovesMade(q) ==
  /\ query[q].life = "none"
  /\ \E link \in Handles, life \in {"using", "dropped"} : 
       /\ Made(q, link, life)
       /\ \/ link = NoLink /\ held' = held
          \/ link \in dbs' /\ held' = held \cup {q}

\* A statement in use is executed, closed or dropped.
MovesOn(q) ==
  /\ query[q].life = "using" /\ held' = held
  /\ \/ query' = [query EXCEPT ![q].executed = TRUE]
     \/ query' = [query EXCEPT ![q].closed = TRUE]
     \/ query' = [query EXCEPT ![q].life = "dropped"]
     \/ query' = query

\* The collector ends it.
MovesOut(q) == FreeQuery(q)

\* Every step moves at most one statement, in one of the three ways.
LEMMA QueryMoves ==
  ASSUME TypeOK, TypeOK', [QNext]_allvars
  PROVE  \/ UNCHANGED <<query, held>>
         \/ \E q \in Queries : MovesMade(q) \/ MovesOn(q) \/ MovesOut(q)
<1>1. CASE DatabaseStep \/ CollectDatabase
  BY <1>1 DEF DatabaseStep, CollectDatabase, qvars
<1>2. ASSUME NEW q \in Queries, Prepare(q) PROVE MovesMade(q)
  <2> USE DEF MovesMade, Generated, Handles
  <2>1. CASE PrepareAllocates(q)
    <3>1. base.database \in Links /\ dbs' = dbs /\ base.database \in dbs
      BY <2>1 DEF PrepareAllocates, vars, TypeOK
    <3>2. QED
      BY <2>1, <3>1 DEF PrepareAllocates
  <2>2. CASE PrepareOverlooks(q)
    BY <2>2 DEF PrepareOverlooks
  <2>3. CASE PrepareRefused(q)
    BY <2>3 DEF PrepareRefused
  <2>4. CASE PrepareRegularRaises(q)
    BY <2>4 DEF PrepareRegularRaises
  <2>5. CASE PrepareRegularStops(q)
    BY <2>5 DEF PrepareRegularStops
  <2>6. CASE PrepareRegularRetries(q)
    <3>1. ReconnectOpens
      BY <2>6, LoudRange, OpenFailsRange, ErrorsAreResults
         DEF PrepareRegularRetries, Reconnect, ReconnectKeepsDatabase,
             ReconnectKeepsConnection, ReconnectRefused, ReconnectHalfOpens, Answer
    <3>2. base'.database \in dbs' /\ base'.database \in Links
      BY <3>1 DEF ReconnectOpens, TypeOK, Fresh
    <3>3. QED
      BY <2>6, <3>2 DEF PrepareRegularRetries
  <2>7. QED
    BY <1>2, <2>1, <2>2, <2>3, <2>4, <2>5, <2>6 DEF Prepare
<1>3. ASSUME NEW q \in Queries, Execute(q) PROVE MovesOn(q)
  BY <1>3 DEF Execute, MovesOn
<1>4. ASSUME NEW q \in Queries, CloseQuery(q) PROVE MovesOn(q)
  BY <1>4 DEF CloseQuery, QueryClose, MovesOn
<1>5. ASSUME NEW q \in Queries, Drop(q) PROVE MovesOn(q)
  BY <1>5 DEF Drop, MovesOn
<1>6. CASE UNCHANGED allvars
  BY <1>6 DEF allvars, qvars
<1>7. QED
  BY <1>1, <1>2, <1>3, <1>4, <1>5, <1>6 DEF QNext, QueryStep, MovesOut
-----------------------------------------------------------------------------
(* Types.                                                                  *)

\* The results a call on a statement may have.
LEMMA CallResults ==
  /\ \A c : run(c) \in Results
  /\ TypeOK' => answer'.result \in Results
BY RunRange, ErrorsAreResults DEF TypeOK, Results

\* Every call says how it ended, in the range of outcome.
OutcomeType ==
  outcome \in [op: {"none", "prepare", "execute", "close", "free"},
              result: Results, regular: BOOLEAN]

\* The report of a call is in that range.
Reports ==
  \E op \in {"prepare", "execute", "close", "free"}, e \in Results, r \in BOOLEAN :
    outcome' = [op |-> op, result |-> e, regular |-> r]

LEMMA ReportsType == Reports => OutcomeType'
BY DEF Reports, OutcomeType

LEMMA EndsReports ==
  ASSUME NEW op \in {"prepare", "execute", "close", "free"}, NEW e \in Results, Ends(op, e)
  PROVE  Reports
BY DEF Reports, Ends

LEMMA OutcomeStepType ==
  ASSUME OutcomeType, TypeOK', [QNext]_allvars
  PROVE  OutcomeType'
<1>1. "ok" \in Results
  BY DEF Results
<1>2. \A q, link, failures, r :
        r \in BOOLEAN /\ Generated(q, link, failures, r) => Reports
  <2> SUFFICES ASSUME NEW q, NEW link, NEW failures, NEW r \in BOOLEAN,
                      Generated(q, link, failures, r)
               PROVE  Reports
    OBVIOUS
  <2>1. \/ outcome' = [op |-> "prepare", result |-> "ok", regular |-> r]
        \/ \E c \in failures :
             outcome' = [op |-> "prepare", result |-> run(c), regular |-> r]
    BY DEF Generated
  <2>2. QED
    BY <1>1, <2>1, CallResults DEF Reports
<1>3. CASE DatabaseStep \/ CollectDatabase
  BY <1>3 DEF DatabaseStep, CollectDatabase, qvars, OutcomeType
<1>4. ASSUME NEW q \in Queries, Prepare(q) PROVE Reports
  <2>1. CASE PrepareAllocates(q) \/ PrepareOverlooks(q) \/ PrepareRegularRetries(q)
    BY <1>2, <2>1 DEF PrepareAllocates, PrepareOverlooks, PrepareRegularRetries
  <2>2. CASE PrepareRefused(q)
    BY <2>2, EndsReports, CallResults DEF PrepareRefused
  <2>3. CASE PrepareRegularRaises(q)
    BY <2>3, CallResults DEF PrepareRegularRaises, Reports
  <2>4. CASE PrepareRegularStops(q)
    BY <2>4, CallResults DEF PrepareRegularStops, Reports
  <2>5. QED
    BY <1>4, <2>1, <2>2, <2>3, <2>4 DEF Prepare
<1>5. ASSUME NEW q \in Queries, Execute(q) \/ CloseQuery(q) PROVE Reports
  <2>1. \E op \in {"execute", "close"}, e \in Results : Ends(op, e)
    BY <1>1, <1>5, CallResults DEF Execute, CloseQuery, QueryClose
  <2>2. QED
    BY <2>1, EndsReports
<1>6. ASSUME NEW q \in Queries, Drop(q) PROVE UNCHANGED outcome
  BY <1>6 DEF Drop
<1>7. ASSUME NEW q \in Queries, FreeQuery(q) PROVE Reports
  <2>1. \E e \in Results : Ends("free", e)
    BY <1>1, <1>7, CallResults DEF FreeQuery, FreeQueryClosed, FreeQueryRaises,
       FreeQueryExecuted, FreeQueryPrepared
  <2>2. QED
    BY <2>1, EndsReports
<1>8. CASE UNCHANGED outcome
  BY <1>8 DEF OutcomeType
<1>9. QED
  BY <1>3, <1>4, <1>5, <1>6, <1>7, <1>8, ReportsType
     DEF QNext, QueryStep, allvars, qvars

\* Every call on a statement, and every collection, keeps the types of the
\* structs, of the handles and of the outcomes.
THEOREM QueryTypeCorrect == QSpec => []QTypeOK
<1>1. QInit => QTypeOK
  BY DEF QInit, QTypeOK, Init, TypeOK, Handles, Phases, Ops, Results, Lives
<1>2. QTypeOK /\ TypeOK' /\ [QNext]_allvars => QTypeOK'
  <2> SUFFICES ASSUME QTypeOK, TypeOK', [QNext]_allvars PROVE QTypeOK'
    OBVIOUS
  <2> DEFINE Records == [link: Handles, closed: BOOLEAN, executed: BOOLEAN, life: Lives]
             Typed   == query' \in [Queries -> Records] /\ held' \subseteq Queries
  <2>1. Typed
    <3>1. query \in [Queries -> Records] /\ held \subseteq Queries /\ TypeOK
      BY DEF QTypeOK
    <3>2. "using" \in Lives /\ "dropped" \in Lives /\ "dead" \in Lives
      BY DEF Lives
    <3> HIDE DEF Records
    <3>3. \A q \in Queries, r \in Records :
            query' = [query EXCEPT ![q] = r] => query' \in [Queries -> Records]
      BY <3>1
    <3>4. ASSUME NEW q \in Queries, MovesMade(q) PROVE Typed
      <4>1. PICK link \in Handles, life \in {"using", "dropped"} :
              Made(q, link, life) /\ held' \subseteq held \cup {q}
        BY <3>4 DEF MovesMade
      <4>2. [link |-> link, closed |-> FALSE, executed |-> FALSE, life |-> life] \in Records
        BY <3>2 DEF Records
      <4>3. QED
        BY <3>1, <3>3, <4>1, <4>2 DEF Made, Records
    <3>5. ASSUME NEW q \in Queries, MovesOn(q) PROVE Typed
      <4>1. /\ [query[q] EXCEPT !.executed = TRUE] \in Records
            /\ [query[q] EXCEPT !.closed = TRUE] \in Records
            /\ [query[q] EXCEPT !.life = "dropped"] \in Records
        BY <3>1, <3>2 DEF Records
      <4>2. QED
        BY <3>1, <3>3, <3>5, <4>1 DEF MovesOn, Records
    <3>6. ASSUME NEW q \in Queries, MovesOut(q) PROVE Typed
      <4>1. [query[q] EXCEPT !.life = "dead"] \in Records
        BY <3>1, <3>2 DEF Records
      <4>2. query' = [query EXCEPT ![q].life = "dead"] /\ held' \subseteq held
        BY <3>6, AfterFreeShrinks DEF MovesOut, FreeQuery, FreeQueryClosed,
           FreeQueryRaises, FreeQueryExecuted, FreeQueryPrepared, Dead
      <4>3. QED
        BY <3>1, <3>3, <4>1, <4>2 DEF Records
    <3>7. QED
      BY <3>1, <3>4, <3>5, <3>6, QueryMoves DEF Records
  <2>2. OutcomeType'
    BY OutcomeStepType DEF QTypeOK, OutcomeType
  <2>3. QED
    BY <2>1, <2>2 DEF QTypeOK, OutcomeType
<1>3. QSpec => []TypeOK
  BY DatabaseIsKept, TypeCorrect, PTL
<1>4. QED
  BY <1>1, <1>2, <1>3, PTL DEF QSpec
-----------------------------------------------------------------------------
(* What statements leave behind.                                           *)

\* The strengthening of LeakIsExact: a statement names a link that was issued,
\* a handle is held by a statement that names one, and every statement that is
\* not yet collected still holds the handle it was given.
QInv ==
  /\ QTypeOK
  /\ conns \subseteq issued /\ dbs \subseteq issued
  /\ \A q \in Queries :
       /\ query[q].link \in issued \cup {NoLink}
       /\ query[q].life = "none" => q \notin held
       /\ q \in held => query[q].link # NoLink
       /\ query[q].life \in {"using", "dropped"} /\ query[q].link # NoLink => q \in held
  /\ LeakIsExact

\* What the collector does to a statement whose handle is open and whose link
\* works: both calls pass, and the handle is freed if it was executed only.
LEMMA CollectedOnWorkingLink ==
  ASSUME NEW q \in Queries, FreeQuery(q), Open(q), query[q].link \notin lost
  PROVE  /\ held' = IF query[q].closed \/ ~query[q].executed THEN held ELSE held \ {q}
         /\ outcome'.result = "ok"
<1>1. EndCodes(q) = {0} /\ Passes(0) /\ run(0) = "ok"
  BY DEF EndCodes, Passes, run
<1>2. CASE FreeQueryClosed(q)
  BY <1>2 DEF FreeQueryClosed, Ends
<1>3. CASE FreeQueryRaises(q)
  BY <1>1, <1>3 DEF FreeQueryRaises
<1>4. CASE FreeQueryExecuted(q)
  BY <1>1, <1>4 DEF FreeQueryExecuted, AfterFree, Ends
<1>5. CASE FreeQueryPrepared(q)
  BY <1>5 DEF FreeQueryPrepared, Ends
<1>6. QED
  BY <1>2, <1>3, <1>4, <1>5 DEF FreeQuery

\* A collection is nothing but the end of a dropped statement.
LEMMA CollectedOnly ==
  ASSUME NEW q \in Queries, FreeQuery(q)
  PROVE  /\ query[q].life = "dropped"
         /\ query' = [query EXCEPT ![q].life = "dead"]
         /\ held' \in {held, held \ {q}}
         /\ UNCHANGED vars
BY DEF FreeQuery, FreeQueryClosed, FreeQueryRaises, FreeQueryExecuted,
   FreeQueryPrepared, Dead, AfterFree

LEMMA QInvInductive ==
  ASSUME QInv, QTypeOK', [QNext]_allvars
  PROVE  QInv'
<1> DEFINE Named(q) ==
      /\ query[q].link \in issued \cup {NoLink}
      /\ query[q].life = "none" => q \notin held
      /\ q \in held => query[q].link # NoLink
      /\ query[q].life \in {"using", "dropped"} /\ query[q].link # NoLink => q \in held
           Exact(q) ==
      (query[q].life = "dead" /\ query[q].link \in conns \ lost) =>
        (q \in held <=> query[q].closed \/ ~query[q].executed)
<1>1. [Next]_vars /\ TypeOK /\ TypeOK'
  BY StepKeepsDatabase DEF QInv, QTypeOK
<1>2. /\ issued \subseteq issued' /\ lost \subseteq lost'
      /\ conns' \ conns \subseteq issued' \ issued
      /\ dbs' \ dbs \subseteq issued' \ issued
  BY <1>1, LinksAreIssuedOnce
<1>3. conns' \subseteq issued' /\ dbs' \subseteq issued'
  BY <1>2 DEF QInv
<1>4. \A p \in Queries : Named(p) /\ Exact(p)
  BY DEF QInv, LeakIsExact
<1>5. NoLink \notin conns'
  BY <1>1, NoLinkAssumption DEF TypeOK
<1>6. ASSUME NEW p \in Queries, query'[p] = query[p], p \in held' <=> p \in held
      PROVE  Named(p)' /\ Exact(p)'
  BY <1>2, <1>4, <1>5, <1>6 DEF QInv
<1>7. query \in [Queries -> [link: Handles, closed: BOOLEAN, executed: BOOLEAN, life: Lives]]
  BY DEF QInv, QTypeOK
<1>8. ASSUME NEW q \in Queries, MovesMade(q), NEW p \in Queries
      PROVE  Named(p)' /\ Exact(p)'
  <2>1. PICK link \in Handles, life \in {"using", "dropped"} :
          /\ Made(q, link, life)
          /\ \/ link = NoLink /\ held' = held
             \/ link \in dbs' /\ held' = held \cup {q}
    BY <1>8 DEF MovesMade
  <2>2. query[q].life = "none"
    BY <1>8 DEF MovesMade
  <2>3. CASE p = q
    <3>1. query'[q].link = link /\ query'[q].life = life
      BY <1>7, <2>1 DEF Made
    <3>2. link # NoLink => q \in held' /\ link \in issued'
      BY <1>3, <2>1
    <3>3. link = NoLink => q \notin held'
      <4>1. NoLink \notin dbs'
        BY <1>1, NoLinkAssumption DEF TypeOK
      <4>2. QED
        BY <1>4, <2>1, <2>2, <4>1
    <3>4. QED
      BY <2>3, <3>1, <3>2, <3>3
  <2>4. CASE p # q
    <3>1. query'[p] = query[p] /\ (p \in held' <=> p \in held)
      BY <1>7, <2>1, <2>4 DEF Made
    <3>2. QED
      BY <1>6, <3>1
  <2>5. QED
    BY <2>3, <2>4
<1>9. ASSUME NEW q \in Queries, MovesOn(q), NEW p \in Queries
      PROVE  Named(p)' /\ Exact(p)'
  <2>1. held' = held /\ query[q].life = "using"
    BY <1>9 DEF MovesOn
  <2>2. CASE p = q
    <3>1. query'[q].link = query[q].link /\ query'[q].life \in {"using", "dropped"}
      BY <1>7, <1>9 DEF MovesOn
    <3>2. QED
      BY <1>2, <1>4, <2>1, <2>2, <3>1
  <2>3. CASE p # q
    <3>1. query'[p] = query[p]
      BY <1>7, <1>9, <2>3 DEF MovesOn
    <3>2. QED
      BY <1>6, <2>1, <3>1
  <2>4. QED
    BY <2>2, <2>3
<1>10. ASSUME NEW q \in Queries, MovesOut(q), NEW p \in Queries
       PROVE  Named(p)' /\ Exact(p)'
  <2>1. /\ query[q].life = "dropped" /\ query' = [query EXCEPT ![q].life = "dead"]
        /\ held' \in {held, held \ {q}} /\ UNCHANGED vars
    BY <1>10, CollectedOnly DEF MovesOut
  <2>2. CASE p = q
    <3>1. /\ query'[q].link = query[q].link /\ query'[q].life = "dead"
          /\ query'[q].closed = query[q].closed /\ query'[q].executed = query[q].executed
      BY <1>7, <2>1
    <3>2. Named(q)'
      BY <1>2, <1>4, <2>1, <3>1
    <3>3. ASSUME query[q].link \in conns \ lost PROVE Exact(q)'
      <4>1. q \in held /\ Open(q)
        BY <1>4, <1>5, <2>1, <3>3 DEF Open, vars
      <4>2. held' = IF query[q].closed \/ ~query[q].executed THEN held ELSE held \ {q}
        BY <1>10, <3>3, <4>1, CollectedOnWorkingLink DEF MovesOut
      <4>3. QED
        BY <3>1, <4>1, <4>2
    <3>4. query[q].link \notin conns \ lost => Exact(q)'
      BY <2>1, <3>1 DEF vars
    <3>5. QED
      BY <2>2, <3>2, <3>3, <3>4
  <2>3. CASE p # q
    <3>1. query'[p] = query[p] /\ (p \in held' <=> p \in held)
      BY <1>7, <2>1, <2>3
    <3>2. QED
      BY <1>6, <3>1
  <2>4. QED
    BY <2>2, <2>3
<1>11. \A p \in Queries : Named(p)' /\ Exact(p)'
  <2>1. CASE UNCHANGED <<query, held>>
    BY <1>6, <2>1
  <2>2. QED
    BY <1>1, <1>8, <1>9, <1>10, <2>1, QueryMoves
<1>12. QED
  BY <1>3, <1>11 DEF QInv, LeakIsExact
\* The invariant the theorems below share.
THEOREM QueryInductive == QSpec => []QInv
<1>1. QInit => QInv
  BY DEF QInit, Init, QInv, QTypeOK, TypeOK, LeakIsExact, Handles, Phases, Ops,
     Results, Lives
<1>2. QInv /\ QTypeOK' /\ [QNext]_allvars => QInv'
  BY QInvInductive
<1>3. QED
  BY <1>1, <1>2, QueryTypeCorrect, PTL DEF QSpec

\* On a working link a statement leaves its handle behind exactly when it was
\* closed, or never executed.
THEOREM LeakIsExactHolds == QSpec => []LeakIsExact
<1>1. QInv => LeakIsExact
  BY DEF QInv
<1>2. QED
  BY <1>1, QueryInductive, PTL

\* Only the collector ends a statement.
LEMMA OnlyCollectedDie ==
  ASSUME QInv, QTypeOK', [QNext]_allvars, NEW q \in Queries,
         query[q].life = "dropped", query'[q].life = "dead"
  PROVE  FreeQuery(q)
<1>1. query \in [Queries -> [link: Handles, closed: BOOLEAN, executed: BOOLEAN, life: Lives]]
  BY DEF QInv, QTypeOK
<1>2. TypeOK /\ TypeOK'
  BY DEF QInv, QTypeOK
<1>3. PICK p \in Queries : MovesMade(p) \/ MovesOn(p) \/ MovesOut(p)
  BY <1>2, QueryMoves
<1>4. query[p].life = "dropped"
  <2>1. CASE p = q
    BY <2>1
  <2>2. CASE p # q
    <3>1. query'[q] = query[q]
      BY <1>1, <1>3, <2>2, CollectedOnly DEF MovesMade, Made, MovesOn, MovesOut
    <3>2. QED
      BY <3>1
  <2>3. QED
    BY <2>1, <2>2
<1>5. MovesOut(p)
  BY <1>3, <1>4 DEF MovesMade, MovesOn
<1>6. p = q
  <2>1. query' = [query EXCEPT ![p].life = "dead"]
    BY <1>5, CollectedOnly DEF MovesOut
  <2>2. QED
    BY <1>1, <2>1
<1>7. QED
  BY <1>5, <1>6 DEF MovesOut

\* Neither a closed statement nor one on a working link raises inside the
\* collector, in whatever order statements and database are swept.
THEOREM QuietSweepHolds == QSpec => QuietSweep
<1> DEFINE Quiets(q) ==
      ( /\ query[q].life = "dropped" /\ query'[q].life = "dead"
        /\ query[q].closed \/ (Open(q) /\ query[q].link \notin lost) )
      => outcome'.result = "ok"
<1>1. QInv /\ QTypeOK' /\ [QNext]_allvars => [\A q \in Queries : Quiets(q)]_allvars
  <2> SUFFICES ASSUME QInv, QTypeOK', [QNext]_allvars, NEW q \in Queries,
                      query[q].life = "dropped", query'[q].life = "dead",
                      query[q].closed \/ (Open(q) /\ query[q].link \notin lost)
               PROVE  outcome'.result = "ok"
    BY DEF Quiets
  <2>1. FreeQuery(q)
    BY OnlyCollectedDie
  <2>2. CASE query[q].closed
    BY <2>1, <2>2 DEF FreeQuery, FreeQueryClosed, FreeQueryRaises, FreeQueryExecuted,
       FreeQueryPrepared, Ends
  <2>3. CASE Open(q) /\ query[q].link \notin lost
    BY <2>1, <2>3, CollectedOnWorkingLink
  <2>4. QED
    BY <2>2, <2>3
<1>2. QED
  BY <1>1, QueryInductive, QueryTypeCorrect, PTL DEF QSpec, QuietSweep

-----------------------------------------------------------------------------
(* 460.                                                                    *)

\* A prepare that answers 460 and leaves a usable link behind has opened it.
LEMMA RegularErrorOpens ==
  ASSUME FreesTellTruth, IInv, TypeOK', QInv, QTypeOK', [QNext]_allvars,
         NEW q \in Queries, query[q].life = "none", query'[q].life # "none",
         outcome'.regular, Usable'
  PROVE  /\ PrepareRegularRaises(q) \/ PrepareRegularStops(q) \/ PrepareRegularRetries(q)
         /\ ReconnectOpens
<1>1. query \in [Queries -> [link: Handles, closed: BOOLEAN, executed: BOOLEAN, life: Lives]]
  BY DEF QInv, QTypeOK
<1>2. query' # query
  OBVIOUS
<1>3. PICK p \in Queries : QueryStep(p)
  BY <1>2 DEF QNext, DatabaseStep, CollectDatabase, qvars, allvars
<1>4. CASE ~Prepare(p)
  <2>1. /\ query[p].life # "none"
        /\ \/ MovesOn(p)
           \/ query' = [query EXCEPT ![p].life = "dead"]
    BY <1>3, <1>4, CollectedOnly DEF QueryStep, Execute, CloseQuery, QueryClose, Drop, MovesOn
  <2>2. p # q
    BY <2>1
  <2>3. query'[q] = query[q]
    BY <1>1, <2>1, <2>2 DEF MovesOn
  <2>4. QED
    BY <2>3
<1>5. CASE Prepare(p)
  <2>1. p = q
    <3>1. PICK link, life : Made(p, link, life)
      BY <1>5 DEF Prepare, PrepareAllocates, PrepareOverlooks, PrepareRefused, Generated,
         PrepareRegularRaises, PrepareRegularStops, PrepareRegularRetries
    <3>2. p # q => query'[q] = query[q]
      BY <1>1, <3>1 DEF Made
    <3>3. QED
      BY <3>2
  <2>2. ~PrepareAllocates(p) /\ ~PrepareOverlooks(p) /\ ~PrepareRefused(p)
    BY DEF PrepareAllocates, PrepareOverlooks, PrepareRefused, Generated, Ends
  <2>3. PrepareRegularRaises(q) \/ PrepareRegularStops(q) \/ PrepareRegularRetries(q)
    BY <1>5, <2>1, <2>2 DEF Prepare
  <2>4. Reconnect
    BY <2>3 DEF PrepareRegularRaises, PrepareRegularStops, PrepareRegularRetries
  <2>5. \/ answer'.result \notin LibraryErrors
        \/ base'.connection \notin issued /\ Up'
    BY <2>4, OutcomeStep
  <2>6. ReconnectOpens
    <3>1. CASE answer'.result \notin LibraryErrors
      BY <2>4, <3>1, LoudRange, OpenFailsRange
         DEF Reconnect, ReconnectKeepsDatabase, ReconnectKeepsConnection, ReconnectRefused,
             ReconnectHalfOpens, Answer
    <3>2. CASE base'.connection \notin issued /\ Up'
      <4>1. CASE ReconnectKeepsDatabase \/ ReconnectKeepsConnection \/ ReconnectRefused
        BY <3>2, <4>1, AfterFreeShrinks
           DEF ReconnectKeepsDatabase, ReconnectKeepsConnection, ReconnectRefused, ConnsAfter,
               Up, IInv
      <4>2. CASE ReconnectHalfOpens
        <5>1. dbs' = {}
          BY <4>2, QuietReleases DEF ReconnectHalfOpens, DbsAfter, IInv, SoleLink
        <5>2. QED
          BY <3>2, <5>1 DEF Up
      <4>3. QED
        BY <2>4, <4>1, <4>2 DEF Reconnect
    <3>3. QED
      BY <2>5, <3>1, <3>2
  <2>7. QED
    BY <2>3, <2>6
<1>6. QED
  BY <1>4, <1>5

\* After a 460 the link in use is a new one, on which no other statement holds
\* a handle.
THEOREM RegularErrorEmptiesPoolHolds ==
  ASSUME FreesTellTruth PROVE QSpec => RegularErrorEmptiesPool
<1> DEFINE Empties(q) ==
      (/\ query[q].life = "none" /\ query'[q].life # "none"
       /\ outcome'.regular /\ Usable')
      => /\ {p \in held' : query'[p].link = base'.connection} \subseteq {q}
         /\ base'.connection \notin issued
<1>1. IInv /\ QInv /\ QTypeOK' /\ [QNext]_allvars
        => [\A q \in Queries : Empties(q)]_allvars
  <2> SUFFICES ASSUME IInv, QInv, QTypeOK', [QNext]_allvars, NEW q \in Queries,
                      query[q].life = "none", query'[q].life # "none",
                      outcome'.regular, Usable'
               PROVE  /\ {p \in held' : query'[p].link = base'.connection} \subseteq {q}
                      /\ base'.connection \notin issued
    BY DEF Empties
  <2>1. TypeOK /\ TypeOK'
    BY DEF QInv, QTypeOK
  <2>2. /\ PrepareRegularRaises(q) \/ PrepareRegularStops(q) \/ PrepareRegularRetries(q)
        /\ ReconnectOpens
    BY <2>1, RegularErrorOpens
  <2>3. base'.connection \in Links \ issued
    BY <2>1, <2>2 DEF ReconnectOpens, Fresh, TypeOK
  <2>4. ASSUME NEW p \in held', p # q PROVE query'[p].link # base'.connection
    <3>1. p \in Queries
      BY DEF QTypeOK
    <3>2. p \in Queries /\ query'[p] = query[p]
      BY <2>2, <2>4, <3>1 DEF QInv, QTypeOK, PrepareRegularRaises, PrepareRegularStops,
         PrepareRegularRetries, Generated, Made
    <3>3. query[p].link \in issued \cup {NoLink}
      BY <3>2 DEF QInv
    <3>4. QED
      BY <2>3, <3>2, <3>3, NoLinkAssumption
  <2>5. QED
    BY <2>3, <2>4
<1>2. QSpec => []IInv
  BY DatabaseIsKept, Inductive, PTL
<1>3. QED
  BY <1>1, <1>2, QueryInductive, QueryTypeCorrect, PTL DEF QSpec, RegularErrorEmptiesPool

\* What it takes for 460 to be retried: the callback that reconnect! misses, no
\* preloader that could raise, and a binding that overlooks the close of a
\* handle that was never allocated.
THEOREM RegularErrorIsRetriedHolds ==
  ASSUME FreesTellTruth, Hosts \subseteq {"hook"}, \A c \in StaleFree : Passes(c)
  PROVE  QSpec => RegularErrorIsRetried
<1> DEFINE Retried(q) ==
      (/\ query[q].life = "none" /\ query'[q].life # "none"
       /\ outcome'.regular /\ Usable')
      => q \in held' /\ query'[q].link = base'.connection
<1>1. IInv /\ QInv /\ QTypeOK' /\ [QNext]_allvars
        => [\A q \in Queries : Retried(q)]_allvars
  <2> SUFFICES ASSUME IInv, QInv, QTypeOK', [QNext]_allvars, NEW q \in Queries,
                      query[q].life = "none", query'[q].life # "none",
                      outcome'.regular, Usable'
               PROVE  q \in held' /\ query'[q].link = base'.connection
    BY DEF Retried
  <2>1. TypeOK /\ TypeOK'
    BY DEF QInv, QTypeOK
  <2>2. /\ PrepareRegularRaises(q) \/ PrepareRegularStops(q) \/ PrepareRegularRetries(q)
        /\ ReconnectOpens
    BY <2>1, RegularErrorOpens
  <2>3. answer'.result = "ok" /\ base'.database = base'.connection
    BY <2>1, <2>2 DEF ReconnectOpens, AfterReopening, Answer, TypeOK
  <2>4. PrepareRegularRetries(q)
    BY <2>2, <2>3 DEF PrepareRegularRaises, PrepareRegularStops
  <2>5. q \in held' /\ query'[q].link = base'.database
    BY <2>4 DEF PrepareRegularRetries, Generated, Made, QInv, QTypeOK
  <2>6. QED
    BY <2>3, <2>5
<1>2. QSpec => []IInv
  BY DatabaseIsKept, Inductive, PTL
<1>3. QED
  BY <1>1, <1>2, QueryInductive, QueryTypeCorrect, PTL DEF QSpec, RegularErrorIsRetried

\* However statements are prepared, run, closed and collected, and whatever they make
\* of 460, the Database they belong to keeps what is shown of it alone: one link, which
\* its exceptions tell of, and metadata that gets stale only where it is announced.
THEOREM StatementsKeepItsPromises ==
  ASSUME FreesTellTruth
  PROVE  QSpec => []SoleLink /\ StaleIsAnnounced /\ OutcomeTellsLink /\ HealthyEndIsClean
BY DatabaseIsKept, SoleLinkHolds, StaleIsAnnouncedHolds, OutcomeTellsLinkHolds,
   HealthyEndIsCleanHolds, PTL

-----------------------------------------------------------------------------
(* The handles of a Database and of definitions together.                  *)

\* A step of both is one of the Database or of the definitions.
LEMMA HandlesOfOne ==
  ASSUME HandlesNext
  PROVE  \/ UNCHANGED defVars /\ Next
         \/ UNCHANGED vars /\ DefNext
<1>1. ASSUME part = "database" PROVE UNCHANGED defVars /\ Next
  BY <1>1 DEF HandlesNext, OnlyIn, Next
<1>2. ASSUME part = "definitions" PROVE UNCHANGED vars /\ DefNext
  BY <1>2 DEF HandlesNext, OnlyIn, DefNext
<1>3. QED
  BY <1>1, <1>2 DEF HandlesNext, OnlyIn

\* Definitions of a class and the Database they came from do not take from each other.
THEOREM HandlesAreTheirParts == HandlesSpec => Spec /\ DefSpec
<1>1. HandlesInit => Init /\ DefInit
  BY DEF HandlesInit
<1>2. [HandlesNext]_<<part, vars, defVars>> => [Next]_vars /\ [DefNext]_defVars
  BY HandlesOfOne
<1>3. QED
  BY <1>1, <1>2, PTL DEF HandlesSpec, Spec, DefSpec
=============================================================================
