------------------------------ MODULE MCStores ------------------------------
EXTENDS Stores, TLC

Symmetry == Permutations(Calls) \cup Permutations(Procs)

(* "b" and "bb" are the prefixes, "n" is a namespace and "E", a letter     *)
(* with an accent, takes two bytes; a process stands for the one byte of   *)
(* its bus id.                                                             *)
MCUtf8 ==
  [ch \in {"b", "n", ":", "E"} \cup Procs |->
     CASE ch = "b" -> <<98>> [] ch = "n" -> <<110>> [] ch = ":" -> <<58>>
       [] ch = "E" -> <<195, 169>> [] OTHER -> <<ch>>]

MCLower == [ch \in {"b", "n", ":", "E"} \cup Procs |-> ch]

MCBasePrefix == <<"b">>
MCStorePrefix == [s \in {"one", "two"} |-> IF s = "two" THEN <<"b", "b", ":">> ELSE None]
MCDriverPrefix == [s \in {"one", "two"} |-> None]

(* A key, the same key in a namespace, and the key of the namespace as     *)
(* seen from the root together with the first.                             *)
MCTargets ==
  {[path |-> <<>>, keys |-> <<<<"E">>>>],
   [path |-> <<<<"n">>>>, keys |-> <<<<"E">>>>],
   [path |-> <<>>, keys |-> <<<<"E">>, <<"n", ":", "E">>>>]}

(* The names above are ones the theorems about names are of.               *)
ASSUME MCNamesAssumption == KeysAligned /\ PrefixesPlain /\ StoresApart

(* Whether a key begins with a match of a pattern, read from the left. *)
Begins(pattern, key, many, one) ==
  LET from[i \in 1..(Len(pattern) + 1), j \in 1..(Len(key) + 1)] ==
        \/ i > Len(pattern)
        \/ pattern[i] = many /\ (from[i + 1, j] \/ (j <= Len(key) /\ from[i, j + 1]))
        \/ /\ pattern[i] # many /\ j <= Len(key) /\ pattern[i] \in {one, key[j]}
           /\ from[i + 1, j + 1]
  IN from[1, 1]

(* Matched agrees with it.                                                 *)
ASSUME MCMatchedAssumption ==
  \A pattern \in BoundedSeq({"b", "_", "%"}, 4), key \in BoundedSeq({"b", "n"}, 4) :
    Matched(pattern, key, "%", "_") <=> Begins(pattern, key, "%", "_")
=============================================================================
