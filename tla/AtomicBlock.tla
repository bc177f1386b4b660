---------------------------- MODULE AtomicBlock ----------------------------
(***************************************************************************)
(* What a caller expects of a transaction block: its writes become durable *)
(* together or not at all, and none of them before the block is over.      *)
(***************************************************************************)
CONSTANT Writes

VARIABLES
  work,    \* the writes of the block in progress
  durable  \* the writes that are there to stay

avars == <<work, durable>>

AInit == work = {} /\ durable = {}

\* The block writes; once its work is durable it writes no more.
Add ==
  /\ work \cap durable = {}
  /\ \E w \in Writes \ durable : work' = work \cup {w}
  /\ UNCHANGED durable

\* All of it becomes durable, and the block is over or about to be.
Keep ==
  /\ durable' = durable \cup work
  /\ work' \in {work, {}}

\* The block is over and nothing more becomes durable.
Leave ==
  /\ work' = {}
  /\ UNCHANGED durable

ANext == Add \/ Keep \/ Leave

ASpec == AInit /\ [][ANext]_avars
=============================================================================
