-------------------------------- MODULE Lru --------------------------------
(***************************************************************************)
(* LruCache of redog-common/src/cache.rs: a mutex around the lru crate's   *)
(* map.  A cache is a set of entries [k, v, age] with distinct keys and    *)
(* ages; age 0 is the entry used last and ages are below the capacity.     *)
(***************************************************************************)
EXTENDS Naturals

Has(c, k) == \E e \in c : e.k = k

Entry(c, k) == CHOOSE e \in c : e.k = k

\* put: k becomes the entry used last; entries used more recently than k was
\* grow older, and the oldest one goes if there is no room.
Put(c, k, v, capacity) ==
    LET was == IF Has(c, k) THEN Entry(c, k).age ELSE capacity
        others == {IF e.age < was THEN [e EXCEPT !.age = @ + 1] ELSE e :
                     e \in {x \in c : x.k # k}}
    IN  {e \in others : e.age < capacity} \union {[k |-> k, v |-> v, age |-> 0]}

\* get: a hit makes the entry the one used last.
Get(c, k, capacity) == IF Has(c, k) THEN Put(c, k, Entry(c, k).v, capacity) ELSE c
=============================================================================
