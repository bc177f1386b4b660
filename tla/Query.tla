------------------------------- MODULE Query -------------------------------
(***************************************************************************)
(* The Intersys::Query objects of one Database: struct rbQuery and the     *)
(* statement handle behind it, from prepare to the garbage collector.  The *)
(* Database steps along: preparing a statement may reconnect it, and a     *)
(* reconnection takes the link away under every other statement.  What is  *)
(* read from a statement is in Cursor.                                     *)
(***************************************************************************)
EXTENDS Database, FiniteSets

CONSTANTS
  Queries,   \* statements that may be prepared (bounds their number)
  PoolSize,  \* statement handles a link allocates before it answers 460
  UseFails,  \* codes of a call that fails on an open handle (a SQL error)
  StaleUse,  \* codes of a call on a handle that is not open
  LostUse    \* codes of a call on an open handle of a lost link

ASSUME PoolAssumption == PoolSize \in Nat \ {0}
ASSUME UseAssumption ==
  /\ UseFails \subseteq {c \in Int : c > 0}
  /\ StaleUse \subseteq Int
  /\ LostUse \subseteq {c \in Int : c > 0}

VARIABLES
  query,   \* struct rbQuery of each statement, and its life as a Ruby object
  held,    \* statements whose handle was allocated and not freed
  outcome  \* the last call on a statement and how it ended

qvars   == <<query, held, outcome>>
allvars == <<vars, qvars>>

\* "using": some Ruby code holds it.  "dropped": none does.
Lives == {"none", "using", "dropped", "dead"}

QTypeOK ==
  /\ TypeOK
  /\ query \in [Queries -> [link: Handles, closed: BOOLEAN, executed: BOOLEAN,
                            life: Lives]]
  /\ held \subseteq Queries
  /\ outcome \in [op: {"none", "prepare", "execute", "close", "free"},
                  result: Results, regular: BOOLEAN]

QInit ==
  /\ Init
  /\ query = [q \in Queries |->
       [link |-> NoLink, closed |-> FALSE, executed |-> FALSE, life |-> "none"]]
  /\ held = {}
  /\ outcome = [op |-> "none", result |-> "ok", regular |-> FALSE]

Ends(op, result) == outcome' = [op |-> op, result |-> result, regular |-> FALSE]

-----------------------------------------------------------------------------
(* The binding.                                                            *)

\* The statements whose handles the binding holds on a link.
HeldOn(l) == {q \in held : query[q].link = l}

\* The handle of q is open; freeing a connection ends every handle on it.
Open(q) == q \in held /\ query[q].link \in conns

\* Answers of a call on the handle of q that is not an allocation.
UseCodes(q) ==
  IF ~Open(q) THEN StaleUse
  ELSE IF query[q].link \in lost THEN LostUse
  ELSE {0} \cup UseFails

\* ... and of closing or freeing it, which a SQL error cannot befall.
EndCodes(q) ==
  IF ~Open(q) THEN StaleFree
  ELSE IF query[q].link \in lost THEN LostFree
  ELSE {0}

\* Answers of cbind_alloc_query through the database handle of the struct.
AllocCodes ==
  IF base.database \notin dbs THEN StaleUse
  ELSE IF base.database \in lost THEN LostUse
  ELSE IF Cardinality(HeldOn(base.database)) < PoolSize THEN {0}
  ELSE {RegularError}

-----------------------------------------------------------------------------
(* Database#prepare: Query.allocate and intersys_query_initialize.         *)

\* The object that prepare made, by the link of its handle and its life.
Made(q, link, life) ==
  query' = [query EXCEPT ![q] =
    [link |-> link, closed |-> FALSE, executed |-> FALSE, life |-> life]]

\* cbind_prepare_gen_query: the statement is handed to the caller, or its text
\* is refused and the object is left to the collector.
Generated(q, link, failures, regular) ==
  \/ /\ Made(q, link, "using")
     /\ outcome' = [op |-> "prepare", result |-> "ok", regular |-> regular]
  \/ \E c \in failures :
       /\ Made(q, link, "dropped")
       /\ outcome' = [op |-> "prepare", result |-> run(c), regular |-> regular]

\* The handle is allocated.
PrepareAllocates(q) ==
  /\ query[q].life = "none" /\ phase = "live"
  /\ base.database \in dbs /\ 0 \in AllocCodes
  /\ held' = held \cup {q}
  /\ Generated(q, base.database, UseFails, FALSE)
  /\ UNCHANGED vars

\* An allocation that fails with a code run lets through: the statement goes on
\* with the zeroed handle.
PrepareOverlooks(q) ==
  /\ query[q].life = "none" /\ phase = "live"
  /\ base.database \notin dbs
  /\ \E c \in AllocCodes : Passes(c)
  /\ Generated(q, NoLink, {c \in StaleUse : ~Passes(c)}, FALSE)
  /\ UNCHANGED <<vars, held>>

PrepareRefused(q) ==
  /\ query[q].life = "none" /\ phase = "live"
  /\ \E c \in AllocCodes \ {RegularError} :
       ~Passes(c) /\ Ends("prepare", run(c))
  /\ Made(q, NoLink, "dropped")
  /\ UNCHANGED <<vars, held>>

\* Slip: the link is not renewed.
PrepareRegularStays(q) ==
  /\ query[q].life = "none" /\ phase = "live" /\ RegularError \in AllocCodes
  /\ Made(q, NoLink, "dropped")
  /\ outcome' = [op |-> "prepare", result |-> "NoMethodError", regular |-> TRUE]
  /\ UNCHANGED <<vars, held>>

\* 460: the database reconnects.  Unless reconnect! returns, that is the end.
PrepareRegularRaises(q) ==
  /\ query[q].life = "none" /\ RegularError \in AllocCodes
  /\ Reconnect /\ answer'.result # "ok"
  /\ Made(q, NoLink, "dropped")
  /\ outcome' = [op |-> "prepare", result |-> answer'.result, regular |-> TRUE]
  /\ UNCHANGED held

\* It returns, and closing the handle that was never allocated raises.
PrepareRegularStops(q) ==
  /\ query[q].life = "none" /\ RegularError \in AllocCodes
  /\ Reconnect /\ answer'.result = "ok"
  /\ \E c \in StaleFree :
       /\ ~Passes(c)
       /\ outcome' = [op |-> "prepare", result |-> run(c), regular |-> TRUE]
  /\ Made(q, NoLink, "dropped")
  /\ UNCHANGED held

\* It returns, the close is overlooked, and the handle is allocated on the new
\* link, where none is allocated yet.
PrepareRegularRetries(q) ==
  /\ query[q].life = "none" /\ RegularError \in AllocCodes
  /\ Reconnect /\ answer'.result = "ok"
  /\ \E c \in StaleFree : Passes(c)
  /\ held' = held \cup {q}
  /\ Generated(q, base'.database, UseFails, TRUE)

Prepare(q) ==
  \/ PrepareAllocates(q)
  \/ PrepareOverlooks(q)
  \/ PrepareRefused(q)
  \/ PrepareRegularRaises(q)
  \/ PrepareRegularStops(q)
  \/ PrepareRegularRetries(q)

-----------------------------------------------------------------------------
(* The statement in use.                                                   *)

\* bind_params and execute: any of their calls may raise, and executed is set
\* when all of them passed.  Nothing looks at closed.
Execute(q) ==
  /\ query[q].life = "using"
  /\ \E c \in UseCodes(q) :
       /\ Ends("execute", run(c))
       /\ query' = IF Passes(c) THEN [query EXCEPT ![q].executed = TRUE] ELSE query
  /\ UNCHANGED <<vars, held>>

\* query_close: the flag is set after the call, so that a call that raises is
\* made again by the next close and by the collector.
QueryClose(q, op) ==
  /\ UNCHANGED held
  /\ \/ query[q].closed /\ Ends(op, "ok") /\ UNCHANGED query
     \/ /\ ~query[q].closed
        /\ \E c \in EndCodes(q) :
             /\ Ends(op, run(c))
             /\ query' = IF Passes(c) THEN [query EXCEPT ![q].closed = TRUE] ELSE query

\* Query#close, and the close at the end of each and of a fetch that meets the
\* end.  (A reading that raises or is left changes nothing here.)
CloseQuery(q) ==
  /\ query[q].life = "using"
  /\ QueryClose(q, "close")
  /\ UNCHANGED vars

\* The caller lets go of the statement: exec_query returns, or an exception of
\* any of its calls passes through it, and it has no ensure.
Drop(q) ==
  /\ query[q].life = "using"
  /\ query' = [query EXCEPT ![q].life = "dropped"]
  /\ UNCHANGED <<vars, held, outcome>>

-----------------------------------------------------------------------------
(* The collector.                                                          *)

\* The object is gone; its record keeps the flags it had.
Dead(q) == query' = [query EXCEPT ![q].life = "dead"]

\* Slip: the handle is freed whether the statement was executed or not.
FreeQueryAlways(q) ==
  /\ query[q].life = "dropped" /\ ~query[q].closed
  /\ \E c, d \in EndCodes(q) :
       /\ Passes(c)
       /\ Ends("free", run(d))
       /\ held' = AfterFree(q, held, d)
  /\ Dead(q) /\ UNCHANGED vars

\* Slip: the handle of a closed statement is freed too, so that it does not leak.
FreeQueryClosedToo(q) ==
  /\ query[q].life = "dropped" /\ query[q].closed
  /\ \E c \in EndCodes(q) : Ends("free", run(c)) /\ held' = AfterFree(q, held, c)
  /\ Dead(q) /\ UNCHANGED vars

\* intersys_query_free: a statement that was closed is left alone, its handle
\* included.
FreeQueryClosed(q) ==
  /\ query[q].life = "dropped" /\ query[q].closed
  /\ Ends("free", "ok")
  /\ Dead(q) /\ UNCHANGED <<vars, held>>

\* The close raises inside the collector.
FreeQueryRaises(q) ==
  /\ query[q].life = "dropped" /\ ~query[q].closed
  /\ \E c \in EndCodes(q) : ~Passes(c) /\ Ends("free", run(c))
  /\ Dead(q) /\ UNCHANGED <<vars, held>>

\* It passes, and the handle of an executed statement is freed.
FreeQueryExecuted(q) ==
  /\ query[q].life = "dropped" /\ ~query[q].closed /\ query[q].executed
  /\ \E c, d \in EndCodes(q) :
       /\ Passes(c)
       /\ Ends("free", run(d))
       /\ held' = AfterFree(q, held, d)
  /\ Dead(q) /\ UNCHANGED vars

\* It passes, and the handle of a statement that was not executed is kept.
FreeQueryPrepared(q) ==
  /\ query[q].life = "dropped" /\ ~query[q].closed /\ ~query[q].executed
  /\ \E c \in EndCodes(q) : Passes(c)
  /\ Ends("free", "ok")
  /\ Dead(q) /\ UNCHANGED <<vars, held>>

FreeQuery(q) ==
  \/ FreeQueryClosed(q)
  \/ FreeQueryRaises(q)
  \/ FreeQueryExecuted(q)
  \/ FreeQueryPrepared(q)

\* A statement refers to its database (@database), so the database is not
\* collected before every statement is out of use; in what order it and the
\* dropped statements are swept is open.
CollectDatabase ==
  /\ \A q \in Queries : query[q].life # "using"
  /\ Collect
  /\ UNCHANGED qvars

\* What happens to the database otherwise.
DatabaseStep ==
  /\ \/ Initialize
     \/ Reconnect
     \/ Close
     \/ \E c \in Classes : Memoize(c)
     \/ \E l \in Links : Lose(l)
  /\ UNCHANGED qvars

QueryStep(q) ==
  Prepare(q) \/ Execute(q) \/ CloseQuery(q) \/ Drop(q) \/ FreeQuery(q)

QNext ==
  \/ DatabaseStep
  \/ CollectDatabase
  \/ \E q \in Queries : QueryStep(q)

QSpec == QInit /\ [][QNext]_allvars

-----------------------------------------------------------------------------
(* Properties.                                                             *)

\* A statement that was closed never raises inside the collector, not even when
\* its database was reconnected or collected before it; of the others, those
\* whose handle is open on a working link do not either (query.c:17-25).
QuietSweep ==
  [][\A q \in Queries :
       ( /\ query[q].life = "dropped" /\ query'[q].life = "dead"
         /\ query[q].closed \/ (Open(q) /\ query[q].link \notin lost) )
       => outcome'.result = "ok"]_allvars

\* Which statements of a working link leave their handle behind for good: those
\* that were closed, as exec_query closes each that succeeds, and those that
\* never executed.  Only what failed between execute and close is given back.
LeakIsExact ==
  \A q \in Queries :
    (query[q].life = "dead" /\ query[q].link \in conns \ lost) =>
      (q \in held <=> query[q].closed \/ ~query[q].executed)

\* A prepare that answers 460 and leaves a usable link behind leaves one on
\* which no handle is allocated but its own: the failure does not repeat before
\* the pool is drawn again (query.c:45-52).
RegularErrorEmptiesPool ==
  [][\A q \in Queries :
       ( /\ query[q].life = "none" /\ query'[q].life # "none"
         /\ outcome'.regular /\ Usable' )
       => /\ {p \in held' : query'[p].link = base'.connection} \subseteq {q}
          /\ base'.connection \notin issued]_allvars

\* "try to reconnect if get an 460 and allocate query once again"
\* (query.c:47): when the reconnection opens a link, prepare goes on to allocate
\* the statement.
RegularErrorIsRetried ==
  [][\A q \in Queries :
       ( /\ query[q].life = "none" /\ query'[q].life # "none"
         /\ outcome'.regular /\ Usable' )
       => q \in held' /\ query'[q].link = base'.connection]_allvars
=============================================================================
