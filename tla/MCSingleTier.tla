---------------------------- MODULE MCSingleTier ----------------------------
(* SingleTierHandler for TLC: the kinds of callers, and symmetry. *)
EXTENDS SingleTierHandler

Plain ==
  [ttl |-> 1, grace |-> 0, graceBackoff |-> 0, timeout |-> None,
   hardTimeout |-> None, lockTimeout |-> None, forceFresh |-> FALSE,
   suppressL2Errors |-> None, skipL2Write |-> FALSE]

Graced == [Plain EXCEPT !.grace = 5, !.graceBackoff = 1]
Quiet == [Graced EXCEPT !.suppressL2Errors = TRUE]
Swr == [Graced EXCEPT !.timeout = 0, !.suppressL2Errors = TRUE]
Hard == [Plain EXCEPT !.hardTimeout = 3, !.lockTimeout = 2]
Forced == [Plain EXCEPT !.forceFresh = TRUE, !.skipL2Write = TRUE]

AllOptions == {Graced, Quiet, Swr, Hard, Forced}
PlainOptions == {Plain}
AllOutcomes == {"value", "error", "undefined"}
FewOutcomes == {"value", "error"}

=============================================================================
