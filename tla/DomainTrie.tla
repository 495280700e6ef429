----------------------------- MODULE DomainTrie -----------------------------
(***************************************************************************)
(* The domain trie, redog-component/src/trie.rs.  A trie is a function on  *)
(* its nodes; a node is the path of labels that leads to it from the root, *)
(* last label of the name first, and its value is the data stored there.   *)
(* No other crate calls it: a user is a sequence of insertions, then any   *)
(* lookups.                                                                *)
(***************************************************************************)
EXTENDS Rules, Functions

EmptyTrie == [node \in {<<>>} |-> None]

\* The path of a name, and the nodes that insertion walks through.
Path(fold, name) == Reverse(Fold(fold, name))
PathNodes(path) == {SubSeq(path, 1, i) : i \in 0 .. Len(path)}

\* entry().or_default() for every label, then the data at the last node.
Store(trie, path, data) ==
    [node \in DOMAIN trie \union PathNodes(path) |->
        IF node = path THEN data ELSE IF node \in DOMAIN trie THEN trie[node] ELSE None]

InsertSuffix(trie, name, data) == Store(trie, Path(Lower, name), data)

\* The data goes to a child of the name's node, under a label of its own (a
\* single label that lookup, which splits the name at its dots, does not add).
Marker == "__exact__"
InsertExact(trie, name, data) == Store(trie, Append(Path(Lower, name), Marker), data)

\* lookup: down the path of the name as far as there are nodes, the data last
\* met on the way.
Lookup(trie, name) ==
    LET path == Path(AsciiLower, name)
        met == {i \in 1 .. Len(path) : /\ PathNodes(SubSeq(path, 1, i)) \subseteq DOMAIN trie
                                       /\ trie[SubSeq(path, 1, i)] # None}
    IN  IF met = {} THEN None ELSE trie[SubSeq(path, 1, Max(met))]

-----------------------------------------------------------------------------
(* What a sequence of insertions makes of the trie *)

Insertions(Data) == [domain : Seq(DOMAIN Lower) \ {<<>>}, exact : BOOLEAN, data : Data]

Insert(trie, ins) == IF ins.exact THEN InsertExact(trie, ins.domain, ins.data)
                                  ELSE InsertSuffix(trie, ins.domain, ins.data)

\* The trie after the first n insertions.
Tries(ops) ==
    LET trie[n \in 0 .. Len(ops)] == IF n = 0 THEN EmptyTrie ELSE Insert(trie[n - 1], ops[n])
    IN  trie

\* The suffixes that name is below, and the longest of them.
Above(ops, name) == {i \in DOMAIN ops : ~ops[i].exact /\ Below(name, ops[i].domain)}
Longest(ops, name) == {i \in Above(ops, name) : \A j \in Above(ops, name) :
                          Len(ops[i].domain) >= Len(ops[j].domain)}

\* Names that insertion and lookup fold alike (lookup folds ASCII only) and that
\* do not contain the label of exact entries.
Plain(name) == Fold(Lower, name) = Fold(AsciiLower, name) /\ Marker \notin Range(Fold(Lower, name))

\* lookup of a plain name: the data of the last insertion of the longest suffix.
\* Exact entries count for nothing, not even for their own name, although
\* trie.rs:49 and doc/06-rule-engine.md:302 mean them to be found.
LookupIsLongestSuffix(ops, name) ==
    Lookup(Tries(ops)[Len(ops)], name) =
        IF Above(ops, name) = {} THEN None ELSE ops[Max(Longest(ops, name))].data
=============================================================================
