----------------------------- MODULE MCDatabase -----------------------------
(***************************************************************************)
(* What the extension allocates in the binding, and gives back: the        *)
(* handles of Database on three links with two classes, a binding that     *)
(* refuses stale handles and host applications with and without the        *)
(* callback reconnect! calls; or three definitions and a reconnection.     *)
(* They share nothing; a behaviour is one of either.                       *)
(***************************************************************************)
EXTENDS Database, Definitions, TLC

VARIABLE part  \* which

\* A handle that is not open.
Refusing   == {461, 5001}
\* Freeing the handle of a lost link: it works, or the loss shows.
LossShows  == {0, 461}
\* A server that does not answer, and any other refusal.
CannotOpen == {12104, 5001}
\* Freeing a definition that is not open is refused or overlooked.
RefusesOrNot == {-1, 5001}

\* The definitions are alike.
Alike == Permutations(Definitions)

HandlesInit ==
  /\ Init /\ DefInit
  /\ part \in {"database", "definitions"}
  /\ part = "database" => asks = "remote"

OnlyIn(which, others) == part = which /\ UNCHANGED <<part, others>>

HandlesNext ==
  \/ OnlyIn("database", defVars) /\ Initialize
  \/ OnlyIn("database", defVars) /\ Reconnect
  \/ OnlyIn("database", defVars) /\ Close
  \/ OnlyIn("database", defVars) /\ Collect
  \/ OnlyIn("database", defVars) /\ \E c \in Classes : Memoize(c)
  \/ OnlyIn("database", defVars) /\ \E l \in Links : Lose(l)
  \/ OnlyIn("definitions", vars) /\ AskMethod
  \/ OnlyIn("definitions", vars) /\ \E d \in Definitions, type \in DefTypes : ClassDef(d, type)
  \/ OnlyIn("definitions", vars) /\ \E d \in Definitions, type \in DefTypes : ClassDefRefused(d, type)
  \/ OnlyIn("definitions", vars) /\ \E d \in Definitions : OwnDefRefused(d)
  \/ OnlyIn("definitions", vars) /\ \E d \in Definitions : DetailsRefused(d)
  \/ OnlyIn("definitions", vars) /\ \E d \in Definitions : NoSuchMethod(d)
  \/ OnlyIn("definitions", vars) /\ \E d \in Definitions : MethodRefused(d)
  \/ OnlyIn("definitions", vars) /\ \E d \in Definitions : Describes(d)
  \/ OnlyIn("definitions", vars) /\ \E d \in Definitions : DropDefinition(d)
  \/ OnlyIn("definitions", vars) /\ \E d \in Definitions : CollectDefinition(d)
  \/ OnlyIn("definitions", vars) /\ LinkLost
  \/ OnlyIn("definitions", vars) /\ LinkRenewed

HandlesSpec == HandlesInit /\ [][HandlesNext]_<<part, vars, defVars>>
=============================================================================
