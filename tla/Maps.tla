--------------------------------- MODULE Maps ---------------------------------
(***************************************************************************)
(* JavaScript Map values as TLA+ functions with a changing domain: a key    *)
(* is present exactly when it is in the function's DOMAIN.                  *)
(***************************************************************************)

EmptyMap == [x \in {} |-> x]

\* map.set(key, value)
MapSet(map, key, value) ==
    [x \in DOMAIN map \cup {key} |-> IF x = key THEN value ELSE map[x]]

\* map.delete(key); nothing happens when the key is absent.
MapDelete(map, key) ==
    [x \in DOMAIN map \ {key} |-> map[x]]

\* Every entry of the map has its key in keys and its value in values.
IsMap(map, keys, values) ==
    /\ DOMAIN map \subseteq keys
    /\ map \in [DOMAIN map -> values]

===============================================================================
