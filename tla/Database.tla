------------------------------ MODULE Database ------------------------------
(***************************************************************************)
(* One Intersys::Database: the C struct rbDatabase behind it, the handles  *)
(* the binding holds for it, and the class metadata that                   *)
(* Intersys::Object memoises through it.                                   *)
(*                                                                         *)
(* A link is a connection handle together with the database handle opened  *)
(* on it; both are named by the link.  Handles are never issued twice.     *)
(***************************************************************************)
EXTENDS Integers, Cbind

CONSTANTS
  Links,      \* connections the binding may still issue (bounds reconnections)
  NoLink,     \* the zeroed handle of a struct that was never connected
  Classes,    \* Cache classes whose metadata is memoised
  StaleFree,  \* codes that freeing a handle that is not open may answer
  LostFree,   \* codes that freeing an open handle of a lost link may answer
  OpenFails,  \* codes of a failed cbind_alloc_conn or cbind_alloc_db
  Hosts       \* what the host application may have defined when a link is
              \*   reopened: "plain", nothing; "hook", an instance method
              \*   connection_restored! of Database (the library has a class
              \*   method only); "preloader", that and IntersysPreloader

ASSUME NoLinkAssumption == NoLink \notin Links
ASSUME CodesAssumption ==
  /\ StaleFree \subseteq Int
  /\ LostFree \subseteq Int
  /\ OpenFails \subseteq {c \in Int : c > 0}
ASSUME HostAssumption == Hosts \subseteq {"plain", "hook", "preloader"}

VARIABLES
  base,    \* struct rbDatabase: connection, database, closed
  conns,   \* connection handles the binding holds open
  dbs,     \* database handles the binding holds open
  issued,  \* every link ever opened
  lost,    \* links the server or the network has dropped
  phase,   \* life of the Ruby object
  memo,    \* per class, the link whose orefs its memoised metadata holds
  answer   \* the last operation and how it ended

vars == <<base, conns, dbs, issued, lost, phase, memo, answer>>

Handles == Links \cup {NoLink}
Phases  == {"allocated", "live", "orphan", "dead"}
Ops     == {"none", "new", "reconnect!", "close", "free", "memoize"}
Results == LibraryErrors \cup {"ok", "NoMethodError", "OtherError", "TypeError"}

TypeOK ==
  /\ base \in [connection: Handles, database: Handles, closed: BOOLEAN]
  /\ conns \subseteq Links
  /\ dbs \subseteq Links
  /\ issued \subseteq Links
  /\ lost \subseteq Links
  /\ phase \in Phases
  /\ memo \in [Classes -> Handles]
  /\ answer \in [op: Ops, result: Results]

\* intersys_base_s_allocate: a zeroed struct.
Init ==
  /\ base = [connection |-> NoLink, database |-> NoLink, closed |-> FALSE]
  /\ conns = {} /\ dbs = {} /\ issued = {} /\ lost = {}
  /\ phase = "allocated"
  /\ memo = [c \in Classes |-> NoLink]
  /\ answer = [op |-> "none", result |-> "ok"]

Answer(op, result) == answer' = [op |-> op, result |-> result]

-----------------------------------------------------------------------------
(* The binding: opening and freeing handles.                               *)

FreeCodes(h, open) ==
  IF h \notin open THEN StaleFree
  ELSE IF h \in lost THEN LostFree
  ELSE {0}

\* The answers RUN lets through, and those it raises on.
Quiet(h, open) == {c \in FreeCodes(h, open) : Passes(c)}
Loud(h, open)  == {c \in FreeCodes(h, open) : ~Passes(c)}

\* A handle is given back only when the call answers 0.
AfterFree(h, open, code) == IF code = 0 THEN open \ {h} ELSE open

DbsAfter(code)   == AfterFree(base.database, dbs, code)
ConnsAfter(code) == AfterFree(base.connection, conns, code)

Fresh == Links \ issued

\* The struct names an open connection and an open database on it.
Up == base.connection \in conns /\ base.database \in dbs

\* ... and the server is still at the other end.
Usable == Up /\ base.connection \notin lost

-----------------------------------------------------------------------------
(* Initialize: intersys_base_initialize and the connect it calls.          *)
\* Conversion of the options raises, or cbind_alloc_conn refuses.
InitializeRefused ==
  /\ phase = "allocated"
  /\ phase' = "orphan"
  /\ \E e \in {run(c) : c \in OpenFails} \cup {"TypeError"} : Answer("new", e)
  /\ UNCHANGED <<base, conns, dbs, issued, lost, memo>>

\* cbind_alloc_conn answers a handle, cbind_alloc_db refuses.
InitializeHalfOpens ==
  /\ phase = "allocated"
  /\ phase' = "orphan"
  /\ \E l \in Fresh, c \in OpenFails :
       /\ base' = [base EXCEPT !.connection = l]
       /\ conns' = conns \cup {l}
       /\ issued' = issued \cup {l}
       /\ Answer("new", run(c))
  /\ UNCHANGED <<dbs, lost, memo>>

InitializeOpens ==
  /\ phase = "allocated"
  /\ phase' = "live"
  /\ \E l \in Fresh :
       /\ base' = [base EXCEPT !.connection = l, !.database = l]
       /\ conns' = conns \cup {l}
       /\ dbs' = dbs \cup {l}
       /\ issued' = issued \cup {l}
  /\ Answer("new", "ok")
  /\ UNCHANGED <<lost, memo>>

-----------------------------------------------------------------------------
(* Reconnect: intersys_base_reconnect, one action per place it can end.    *)

ReconnectKeepsDatabase ==
  /\ phase = "live"
  /\ \E c \in Loud(base.database, dbs) : Answer("reconnect!", run(c))
  /\ UNCHANGED <<base, conns, dbs, issued, lost, phase, memo>>

ReconnectKeepsConnection ==
  /\ phase = "live"
  /\ \E c \in Quiet(base.database, dbs) : dbs' = DbsAfter(c)
  /\ \E c \in Loud(base.connection, conns) : Answer("reconnect!", run(c))
  /\ UNCHANGED <<base, conns, issued, lost, phase, memo>>

\* Both handles are given up; the struct goes on naming them.
ReconnectRefused ==
  /\ phase = "live"
  /\ \E c \in Quiet(base.database, dbs) : dbs' = DbsAfter(c)
  /\ \E c \in Quiet(base.connection, conns) : conns' = ConnsAfter(c)
  /\ \E c \in OpenFails : Answer("reconnect!", run(c))
  /\ UNCHANGED <<base, issued, lost, phase, memo>>
\* Slip: the old connection is not freed before the new one is opened.
ReconnectHalfOpensKeepsOld ==
  /\ phase = "live"
  /\ \E l \in Fresh :
       /\ base' = [base EXCEPT !.connection = l]
       /\ issued' = issued \cup {l}
       /\ \E c \in Quiet(base.database, dbs) : dbs' = DbsAfter(c)
       /\ conns' = conns \cup {l}
  /\ \E c \in OpenFails : Answer("reconnect!", run(c))
  /\ UNCHANGED <<lost, phase, memo>>

ReconnectHalfOpens ==
  /\ phase = "live"
  /\ \E l \in Fresh :
       /\ base' = [base EXCEPT !.connection = l]
       /\ issued' = issued \cup {l}
       /\ \E c \in Quiet(base.database, dbs) : dbs' = DbsAfter(c)
       /\ \E c \in Quiet(base.connection, conns) : conns' = ConnsAfter(c) \cup {l}
  /\ \E c \in OpenFails : Answer("reconnect!", run(c))
  /\ UNCHANGED <<lost, phase, memo>>
\* Slip: the metadata is not marked dirty.
AfterReopeningKeepsMemo(l) ==
  /\ \E e \in {"ok", "NoMethodError", "OtherError"} : Answer("reconnect!", e)
  /\ l \in Links /\ UNCHANGED <<memo, lost>>

\* What follows a new link.  The library defines connection_restored! on the
\* class and calls it on the instance: unless the host application adds the
\* method, the call raises and the metadata stays as it was.  Past it the
\* metadata is emptied and the preloader, if any, reads it again through the
\* new link: wholly; or in part, when it raises anything, the binding's own
\* exceptions included, with the link lost meanwhile or not.
AfterReopening(l) ==
  \/ /\ "plain" \in Hosts
     /\ Answer("reconnect!", "NoMethodError")
     /\ UNCHANGED <<memo, lost>>
  \/ /\ "hook" \in Hosts
     /\ memo' = [c \in Classes |-> NoLink]
     /\ Answer("reconnect!", "ok")
     /\ UNCHANGED lost
  \/ /\ "preloader" \in Hosts
     /\ memo' \in [Classes -> {NoLink, l}]
     /\ \/ Answer("reconnect!", "ok") /\ UNCHANGED lost
        \/ /\ \E e \in LibraryErrors \cup {"NoMethodError", "OtherError"} : Answer("reconnect!", e)
           /\ lost' \in {lost, lost \cup {l}}
\* Slip: the new handles are returned but not stored in the struct.
ReconnectOpensLate ==
  /\ phase = "live"
  /\ \E c \in Quiet(base.database, dbs) : dbs' = DbsAfter(c)
  /\ \E c \in Quiet(base.connection, conns) : conns' = ConnsAfter(c)
  /\ \E l \in Fresh : issued' = issued \cup {l} /\ AfterReopening(l)
  /\ UNCHANGED <<base, phase>>

ReconnectOpens ==
  /\ phase = "live"
  /\ \E l \in Fresh :
       /\ base' = [base EXCEPT !.connection = l, !.database = l]
       /\ issued' = issued \cup {l}
       /\ \E c \in Quiet(base.database, dbs) : dbs' = DbsAfter(c) \cup {l}
       /\ \E c \in Quiet(base.connection, conns) : conns' = ConnsAfter(c) \cup {l}
       /\ AfterReopening(l)
  /\ UNCHANGED phase

Reconnect ==
  \/ ReconnectKeepsDatabase
  \/ ReconnectKeepsConnection
  \/ ReconnectRefused
  \/ ReconnectHalfOpens
  \/ ReconnectOpens

-----------------------------------------------------------------------------
(* Close and collection.                                                   *)
\* Slip: only the database handle is freed.
RealCloseDatabaseOnly(op) ==
  /\ base' = [base EXCEPT !.closed = TRUE]
  /\ \E c \in FreeCodes(base.database, dbs) : dbs' = DbsAfter(c) /\ Answer(op, run(c))
  /\ UNCHANGED conns

\* intersys_base_real_close: a second call does nothing; the first sets the
\* flag and then frees, so that an answer that raises leaves the flag set.
RealClose(op) ==
  \/ /\ base.closed
     /\ Answer(op, "ok")
     /\ UNCHANGED <<base, conns, dbs>>
  \/ /\ ~base.closed
     /\ base' = [base EXCEPT !.closed = TRUE]
     /\ \/ /\ \E c \in Loud(base.database, dbs) : Answer(op, run(c))
           /\ UNCHANGED <<conns, dbs>>
        \/ /\ \E c \in Quiet(base.database, dbs) : dbs' = DbsAfter(c)
           /\ \E c \in FreeCodes(base.connection, conns) :
                conns' = ConnsAfter(c) /\ Answer(op, run(c))

Close ==
  /\ phase = "live"
  /\ RealClose("close")
  /\ UNCHANGED <<issued, lost, phase, memo>>

\* intersys_base_free: the garbage collector, or the interpreter at exit, ends
\* the object.  An answer that raises is raised inside the collector.
Collect ==
  /\ phase \in {"live", "orphan"}
  /\ phase' = "dead"
  /\ RealClose("free")
  /\ UNCHANGED <<issued, lost, memo>>

-----------------------------------------------------------------------------
(* The rest of the program and the network.                                *)

\* intersys_memoized: metadata is read through the current link when there is
\* none for the class, or when the caller forces it.
Memoize(c) ==
  /\ phase = "live" /\ Usable
  /\ memo' = [memo EXCEPT ![c] = base.connection]
  /\ Answer("memoize", "ok")
  /\ UNCHANGED <<base, conns, dbs, issued, lost, phase>>

Lose(l) ==
  /\ l \in conns \ lost
  /\ lost' = lost \cup {l}
  /\ UNCHANGED <<base, conns, dbs, issued, phase, memo, answer>>

Initialize == InitializeRefused \/ InitializeHalfOpens \/ InitializeOpens

Next ==
  \/ Initialize
  \/ Reconnect
  \/ Close
  \/ Collect
  \/ \E c \in Classes : Memoize(c)
  \/ \E l \in Links : Lose(l)

Spec == Init /\ [][Next]_vars

-----------------------------------------------------------------------------
(* Safety.                                                                 *)

\* However reconnect!, close and failed openings are interleaved, the binding
\* never holds a link the struct does not name: nothing that was opened
\* (database.c:72-74, 86-87) can become unreachable while the object lives.
SoleLink ==
  /\ conns \subseteq {base.connection}
  /\ dbs \subseteq {base.database}
  /\ dbs \subseteq conns

\* The metadata of c comes from the link in use, or there is none.
Fits(c) == memo[c] \in {NoLink, base.connection}

\* Some metadata in use holds orefs of a link that was given up.
Stale == phase = "live" /\ Up /\ \E c \in Classes : ~Fits(c)

\* An exception of the binding out of reconnect! means that there is no usable
\* link, any other ending that there is one, also when the restored! callback
\* is missing (line 94).  Only a preloader blurs that (line 109): what it raises
\* leaves reconnect! with the new link in the struct and none of the old
\* metadata.
OutcomeTellsLink ==
  [][Reconnect =>
       \/ answer'.result \in LibraryErrors <=> ~Usable'
       \/ /\ "preloader" \in Hosts /\ answer'.result # "ok"
          /\ Up' /\ base'.connection \notin issued
          /\ \A c \in Classes : Fits(c)']_vars

\* With a binding that refuses to free a handle that is not open, a struct
\* that lost its database handle never names an open one again: every later
\* reconnect! stops at line 83, and only a new Database helps.
BrokenStaysBroken ==
  [][(phase # "allocated" /\ base.database \notin dbs)
       => base'.database \notin dbs']_vars

\* An object that reached its end with a working link gives both handles back
\* and raises nothing inside the collector (lines 3-13).  A link that leaks was
\* therefore half open, lost, or reopened under a flag that a close had set.
HealthyEndIsClean ==
  [][(phase # "dead" /\ phase' = "dead" /\ Usable /\ ~base.closed)
       => (conns' = {} /\ dbs' = {} /\ answer'.result = "ok")]_vars

\* Metadata gets stale at one place only, which the caller of reconnect! can
\* recognise, whatever callbacks the host has: the missing callback (line 94).
\* "mark cached data dirty to reload cached objects, because oref is not valid
\* anymore" (line 102) is true of all others: a reconnect! that returns leaves
\* none, nor does one that fails any other way, nor a later repair of a struct
\* that had lost its link (lines 89-110).
StaleIsAnnounced ==
  [][~Stale /\ Stale' => answer' = [op |-> "reconnect!", result |-> "NoMethodError"]]_vars
=============================================================================
