-------------------------------- MODULE Maps --------------------------------
(***************************************************************************)
(* A HashMap<K, V> of the program is a function whose domain is the set of *)
(* the keys present.                                                       *)
(***************************************************************************)
EXTENDS Functions

EmptyMap == [k \in {} |-> 0]

\* HashMap::insert: adds the key or overwrites its value.
Insert(map, key, value) ==
  [k \in DOMAIN map \cup {key} |-> IF k = key THEN value ELSE map[k]]

\* HashMap::remove: a key that is absent is no error.
Delete(map, key) == Restrict(map, DOMAIN map \ {key})

=============================================================================
