-------------------------- MODULE MCPropertyStore --------------------------
(* PropertyStore on small instances: the descriptors that programs pass to  *)
(* defineProperty, and the symmetry of names and values.                    *)
EXTENDS PropertyStore, TLC

\* { value: v, writable: false }, absent fields kept or false.
ReadOnlyValue == {[value |-> v, writable |-> FALSE, configurable |-> None] : v \in Values}

\* { configurable: false } on an existing property.
Pinned == [value |-> None, writable |-> None, configurable |-> FALSE]

\* { writable: true, configurable: true } on an existing property.
Loosened == [value |-> None, writable |-> TRUE, configurable |-> TRUE]

Descs == ReadOnlyValue \cup {Pinned, Loosened}

\* Chains of three objects under one name, and pairs of objects that share
\* shapes under two names.
Chains == {[objects |-> Objects, keys |-> {k}, ops |-> {"read", "delete", "link", "collect"}] : k \in Keys}
Twins == {[objects |-> os, keys |-> Keys, ops |-> {"delete", "define", "harden"}] :
              os \in kSubset(2, Objects)}
Pairs == {[objects |-> os, keys |-> {k}, ops |-> {"read", "define", "harden", "link", "collect"}] :
              os \in kSubset(2, Objects), k \in Keys}
Kinds == Chains \cup Twins \cup Pairs

Sym == Permutations(Objects) \cup Permutations(Keys) \cup Permutations(Values)
=============================================================================
