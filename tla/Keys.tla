-------------------------------- MODULE Keys --------------------------------
(***************************************************************************)
(* drivers/base_driver.ts: how a driver makes its keys from a prefix, and  *)
(* which keys each driver's clear matches.  Keys, prefixes and names are   *)
(* sequences of characters.                                                *)
(***************************************************************************)
EXTENDS Integers, Sequences, FiniteSetsExt, SequencesExt

CONSTANT Lower   \* Lower[ch]: the letter the database takes for the same

(* #sanitizePrefix drops colons from the end. *)
Sanitized(prefix) ==
  SubSeq(prefix, 1, Max({0} \cup {i \in DOMAIN prefix : prefix[i] # ":"}))

(* createNamespacePrefix *)
NamespacePrefix(prefix, name) ==
  IF Sanitized(prefix) = <<>> THEN name ELSE Sanitized(prefix) \o <<":">> \o name

(* getItemKey *)
ItemKey(prefix, key) == IF prefix = <<>> THEN key ELSE prefix \o <<":">> \o key

(* The prefix of the namespace reached by a path of namespace() calls; a   *)
(* driver sanitizes the prefix it is made with.                            *)
PrefixOf(root, path) ==
  LET prefix[n \in 0..Len(path)] ==
        IF n = 0 THEN Sanitized(root)
        ELSE Sanitized(NamespacePrefix(prefix[n - 1], path[n]))
  IN prefix[Len(path)]

(* key.startsWith(`${prefix}:`), also DynamoDB's begins_with and orchid's  *)
(* startsWith.                                                             *)
StartsWith(prefix, key) == IsPrefix(prefix \o <<":">>, key)

(* What begins with a match of a pattern, in which many stands for any     *)
(* characters and one for any single one: every other position of the      *)
(* pattern lies at a position of the key, the next one after it, or        *)
(* further when a many is between.                                         *)
Matched(pattern, key, many, one) ==
  LET literal == {i \in DOMAIN pattern : pattern[i] # many} IN
  \E at \in [literal -> DOMAIN key] :
    LET lies(i) == IF i = 0 THEN 0 ELSE at[i] IN
    /\ \A i \in literal : pattern[i] \in {one, key[at[i]]}
    /\ \A i \in literal \cup {0}, j \in literal : i < j =>
         \/ lies(j) - lies(i) = j - i
         \/ lies(i) < lies(j) /\ \E n \in (i + 1)..(j - 1) : pattern[n] = many

Wildcards == {"_", "%", "*", "?"}

LowerCase(str) == [i \in DOMAIN str |-> Lower[str[i]]]

(* SQL LIKE `${prefix}:%`, which some databases match whatever the case.   *)
Like(prefix, key) ==
  Matched(LowerCase(prefix \o <<":">>), LowerCase(key), "%", "_")

(* The pattern of redis: without a prefix it is "*", else `${prefix}:*`.   *)
Glob(prefix, key) ==
  prefix = <<>> \/ Matched(prefix \o <<":">>, key, "*", "?")
=============================================================================
