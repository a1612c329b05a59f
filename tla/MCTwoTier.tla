----------------------------- MODULE MCTwoTier -----------------------------
(* TwoTierHandler for TLC: the kinds of callers, and symmetry. *)
EXTENDS TwoTierHandler, TLC

Plain ==
  [ttl |-> 1, grace |-> 0, graceBackoff |-> 0, timeout |-> None,
   hardTimeout |-> None, lockTimeout |-> None, forceFresh |-> FALSE,
   suppressL2Errors |-> None, skipL2Write |-> FALSE]

Graced == [Plain EXCEPT !.grace = 5, !.graceBackoff = 1]
Swr == [Graced EXCEPT !.timeout = 0]
Soft == [Graced EXCEPT !.timeout = 2, !.skipL2Write = TRUE]
Hard == [Graced EXCEPT !.hardTimeout = 3,
                        !.suppressL2Errors = FALSE]
Forced == [Plain EXCEPT !.forceFresh = TRUE, !.lockTimeout = 2]

AllOptions == {Plain, Graced, Swr, Soft, Hard, Forced}
FewOptions == {Swr, Hard}
PlainOptions == {Plain}
FewOutcomes == {"value", "error"}
AllOutcomes == {"value", "error", "skip", "undefined"}

Symmetry == Permutations(Requests)
=============================================================================
