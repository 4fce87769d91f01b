------------------------------ MODULE Document ------------------------------
(***************************************************************************)
(* A parsed document as a graph.  The code works on trees; where it copies *)
(* the target of a reference into the tree, the graph gets an edge to that *)
(* target.  Unfolded from the root, graph and tree are the same.           *)
(*                                                                         *)
(* A document maps its nodes to records:                                   *)
(*   role      what the place of the node makes of it: a schema, a header, *)
(*             a path item, an operation, data of an example, a plain map  *)
(*   kids      its entries in their order, as [key, node]                  *)
(*   ref       the value of its $ref: a sequence of tokens that starts     *)
(*             with "#" (this document), "http" (a URL) or "file";         *)
(*             << >> if it has none                                        *)
(*   alone     $ref is its only key                                        *)
(*   type      the value of `type`: << >>, one name, or several            *)
(*   nullable  "absent", "true" or "false"                                 *)
(*   min, max, xmin, xmax   minimum, maximum, exclusiveMinimum and         *)
(*             exclusiveMaximum: Absent, a Number or a Flag                *)
(*   boolItems `items` is true or false                                    *)
(*   opid      the value of operationId, "" if it has none                 *)
(***************************************************************************)
EXTENDS Integers, Sequences, FiniteSets, SequencesExt

Root == "root"
NoNode == "no node"

Absent == [is |-> "absent"]

\* Numbers are counted in halves, so that 1 is the fraction 1/2.
Number(h, form) == [is |-> "number", halves |-> h, form |-> form]
Flag(b) == [is |-> "flag", on |-> b]

Bound == {Absent, Flag(TRUE), Flag(FALSE)}
         \cup [is : {"number"}, halves : Int, form : {"int", "float"}]

\* A node of a parsed document whose nodes are N.
NodeOf(N) == [role : STRING, kids : Seq([key : STRING, node : N]), ref : Seq(STRING),
              alone : BOOLEAN, type : Seq(STRING), nullable : {"absent", "true", "false"},
              min : Bound, max : Bound, xmin : Bound, xmax : Bound, boolItems : BOOLEAN,
              opid : STRING]

\* A node without anything.
Bare == [role |-> "map", kids |-> << >>, ref |-> << >>, alone |-> FALSE, type |-> << >>,
         nullable |-> "absent", min |-> Absent, max |-> Absent, xmin |-> Absent,
         xmax |-> Absent, boolItems |-> FALSE, opid |-> ""]

KidSet(doc, n) == Range(doc[n].kids)
Keys(doc, n) == {k.key : k \in KidSet(doc, n)}
Children(doc, n) == {k.node : k \in KidSet(doc, n)}
Kid(doc, n, key) ==
    IF key \in Keys(doc, n) THEN (CHOOSE k \in KidSet(doc, n) : k.key = key).node ELSE NoNode

\* The nodes at the end of `from`.<any key>.`key`: one level of the walks that look for
\* a place by the names on the way.
Under(doc, ns, key) == {Kid(doc, n, key) : n \in ns} \ {NoNode}
Entries(doc, ns) == UNION {Children(doc, n) : n \in ns}

\* resolve_json_pointer: the node at the end of a local pointer, NoNode if there is none.
Resolve(doc, pointer) ==
    LET at[i \in 1 .. Len(pointer)] ==
            IF i = 1 THEN {Root} ELSE Under(doc, at[i - 1], pointer[i])
        local == pointer # << >> /\ Head(pointer) = "#"
    IN  IF local => at[Len(pointer)] = {} THEN NoNode
        ELSE CHOOSE n \in at[Len(pointer)] : TRUE

\* The nodes of the tree: what can be reached from the root.
Reach(doc) ==
    LET within[k \in 0 .. Cardinality(DOMAIN doc)] ==
            IF k = 0 THEN {Root}
            ELSE UNION {{n} \cup Children(doc, n) : n \in within[k - 1]}
    IN  within[Cardinality(DOMAIN doc)]

=============================================================================
