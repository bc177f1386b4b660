------------------------------- MODULE Cbind -------------------------------
(***************************************************************************)
(* The error convention between the extension and the Cache C binding.     *)
(* Every cbind_* function answers an integer; ext/common.c turns it into a *)
(* Ruby exception, or into nothing.  The binding itself (c_api.h) is not   *)
(* part of the repository: a module that calls it takes the set of codes   *)
(* a call may answer as a CONSTANT.                                        *)
(***************************************************************************)
LOCAL INSTANCE Integers

\* The two codes that mean "the server is gone": 461 and 12104.
LinkErrors == {461, 12104}

\* The answer of cbind_alloc_query that Query#initialize treats apart.
RegularError == 460

\* What RUN(code) does to the caller: nothing for zero and for every
\* negative code, an exception for a positive one.
run(err) ==
  IF err <= 0 THEN "ok"
  ELSE IF err \in LinkErrors THEN "ConnectionError"
  ELSE "IntersysException"

Passes(err) == run(err) = "ok"

\* The exceptions run can raise.
LibraryErrors == {"ConnectionError", "IntersysException"}

=============================================================================
