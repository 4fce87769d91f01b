---------------------------- MODULE Loader_proofs ----------------------------
(***************************************************************************)
(* Proofs about Loader, for every set of texts, every network and all      *)
(* values of the limits: a text is within its limit whenever the file      *)
(* changes, the cache of remote bodies keeps its promises, and what is     *)
(* accepted has the bounds that were written, no reference to nowhere, and *)
(* nothing left to rewrite.                                                *)
(***************************************************************************)
EXTENDS Loader, Induction_proofs

\* An entry of a document.  (The provers do not know that "schema" is a string.)
Nodes(d) == [key : STRING \cup {"schema"}, node : DOMAIN d]
Walks(d) == [node : DOMAIN d, depth : Nat]

\* What is judged is one of the texts, and a document given as such is there.
Given ==
    /\ disk \in Texts \cup {Missing}
    /\ source.given = "text" => disk \in Texts
    /\ text \in Texts \cup {NoText}

\* The walk for remote references does not leave the document, and asks for URLs of the
\* texts only.
WalkInv ==
    pc = "inline" =>
        /\ todo \in Seq(Walks(doc))
        /\ \A n \in DOMAIN doc :
              /\ doc[n].kids \in Seq(Nodes(doc))
              /\ IsRemote(doc[n].ref) => doc[n].ref[2] \in Urls

\* What makes SameUrlSameBody inductive: a place that was filled holds what the cache
\* holds, under its own URL.
CacheInv ==
    /\ IsFiniteSet(DOMAIN cache)
    /\ \A u \in DOMAIN cache : cache[u][1] = u
    /\ \A n \in DOMAIN inlined : /\ inlined[n][1] \in DOMAIN cache
                                 /\ inlined[n] = cache[inlined[n][1]]
    /\ pc \in {"start", "read", "oversized", "parse", "callbacks"} => DOMAIN inlined = {}

IInv == TypeOK /\ Given /\ WalkInv /\ CacheInv /\ NothingOversized /\ BudgetsHold

-----------------------------------------------------------------------------
(* Documents.                                                              *)

\* The entries of the nodes lead to nodes.
Whole(d) ==
    /\ IsFiniteSet(DOMAIN d) /\ Root \in DOMAIN d
    /\ \A n \in DOMAIN d : /\ DOMAIN d[n] = DOMAIN Bare
                           /\ d[n].kids \in Seq(Nodes(d)) /\ d[n].ref \in Seq(STRING)

LEMMA KidsAreNodes ==
    ASSUME NEW d, Whole(d), NEW n \in DOMAIN d
    PROVE  /\ Children(d, n) \subseteq DOMAIN d
           /\ \A key : Kid(d, n, key) \in Children(d, n) \cup {NoNode}
<1>1. \A k \in KidSet(d, n) : k.node \in DOMAIN d
  <2>1. d[n].kids \in Seq(Nodes(d))
    BY DEF Whole
  <2>2. \A i \in DOMAIN d[n].kids : d[n].kids[i] \in Nodes(d)
    BY <2>1
  <2> QED BY <2>2 DEF KidSet, Range, Nodes
<1>2. ASSUME NEW key, key \in Keys(d, n) PROVE Kid(d, n, key) \in Children(d, n)
  <2>1. \E k \in KidSet(d, n) : k.key = key
    BY <1>2 DEF Keys
  <2>2. (CHOOSE k \in KidSet(d, n) : k.key = key) \in KidSet(d, n)
    BY <2>1
  <2> QED BY <1>2, <2>2 DEF Kid, Children
<1> QED BY <1>1, <1>2 DEF Children, Kid

LEMMA UnderIsBelow ==
    ASSUME NEW d, Whole(d), NEW ns \in SUBSET DOMAIN d, NEW key
    PROVE  /\ Under(d, ns, key) \subseteq UNION {Children(d, n) : n \in ns}
           /\ Under(d, ns, key) \in SUBSET DOMAIN d
  BY KidsAreNodes DEF Under

-----------------------------------------------------------------------------
(* What can be reached.                                                    *)

\* One level of Reach, and a set that is left by no edge.
Grow(d, ns) == UNION {{n} \cup Children(d, n) : n \in ns}
Closed(d, ns) == \A n \in ns : Children(d, n) \subseteq ns

Levels(d, w) ==
    w = [k \in 0..Cardinality(DOMAIN d) |-> IF k = 0 THEN {Root} ELSE Grow(d, w[k - 1])]

LEMMA ReachUnfolds ==
    ASSUME NEW d
    PROVE  Reach(d) = (CHOOSE w : Levels(d, w))[Cardinality(DOMAIN d)]
  BY Zenon DEF Reach, Levels, Grow

LEMMA LevelsExist == ASSUME NEW d, Whole(d) PROVE Levels(d, CHOOSE w : Levels(d, w))
<1> DEFINE S == SUBSET DOMAIN d
           N == Cardinality(DOMAIN d)
           G == [k \in Nat |-> [ns \in S |-> Grow(d, ns)]]
<1>1. {Root} \in S /\ N \in Nat
  BY FS_CardinalityType DEF Whole
<1>2. G \in [Nat -> [S -> S]]
  BY KidsAreNodes DEF Grow
<1>3. PICK f \in [0..N -> S] : Iterates(f, {Root}, G, N)
  <2> HIDE DEF S, N, G
  <2> QED BY <1>1, <1>2, Iteration
<1>4. Levels(d, f)
  <2>1. \A k \in 1..N : f[k] = Grow(d, f[k - 1])
    <3> SUFFICES ASSUME NEW k \in 1..N PROVE f[k] = Grow(d, f[k - 1])
      OBVIOUS
    <3>1. k - 1 \in 0..N /\ k \in Nat
      BY <1>1
    <3>2. f[k - 1] \in S /\ f[k] = G[k][f[k - 1]]
      BY <1>3, <3>1 DEF Iterates
    <3> QED BY <3>1, <3>2
  <2>2. f[0] = {Root}
    BY <1>3 DEF Iterates
  <2> QED BY <1>1, <2>1, <2>2 DEF Levels
<1> HIDE DEF S, N, G
<1> QED BY <1>4

LEMMA LevelsGrow ==
    ASSUME NEW d, Whole(d), NEW w, Levels(d, w)
    PROVE  /\ w[0] = {Root}
           /\ \A k \in 0..Cardinality(DOMAIN d) : w[k] \in SUBSET DOMAIN d /\ Root \in w[k]
           /\ \A k \in Nat : k + 1 \in 0..Cardinality(DOMAIN d) => w[k + 1] = Grow(d, w[k])
<1> DEFINE N == Cardinality(DOMAIN d)
           T == {k \in Nat : k <= N => w[k] \in SUBSET DOMAIN d /\ Root \in w[k]}
<1>1. N \in Nat
  BY FS_CardinalityType DEF Whole
<1>2. w[0] = {Root}
  BY <1>1 DEF Levels
<1>3. ASSUME NEW k \in Nat, k + 1 <= N PROVE w[k + 1] = Grow(d, w[k])
  <2>1. k + 1 \in 0..N /\ k + 1 # 0 /\ (k + 1) - 1 = k
    BY <1>1, <1>3
  <2>2. w[k + 1] = Grow(d, w[(k + 1) - 1])
    BY <2>1 DEF Levels
  <2> QED BY <2>1, <2>2
<1>4. 0 \in T
  BY <1>2 DEF Whole
<1>5. ASSUME NEW k \in T PROVE k + 1 \in T
  <2>1. k \in Nat /\ (k + 1 <= N => k <= N)
    BY <1>1
  <2>2. ASSUME k + 1 <= N PROVE w[k + 1] \in SUBSET DOMAIN d /\ Root \in w[k + 1]
    <3>1. w[k] \in SUBSET DOMAIN d /\ Root \in w[k] /\ w[k + 1] = Grow(d, w[k])
      BY <1>3, <2>1, <2>2
    <3> QED BY <3>1, KidsAreNodes DEF Grow
  <2> QED BY <2>1, <2>2
<1>6. T = Nat
  <2> HIDE DEF T
  <2>1. T \in SUBSET Nat
    BY DEF T
  <2> QED BY <1>4, <1>5, <2>1, NatInduct
<1>7. \A k \in 0..N : w[k] \in SUBSET DOMAIN d /\ Root \in w[k]
  BY <1>1, <1>6
<1> QED BY <1>1, <1>2, <1>3, <1>7

\* There are as many levels as there are nodes, so that the last one is left by no edge.
LEMMA ReachIsClosed ==
    ASSUME NEW d, Whole(d)
    PROVE  Root \in Reach(d) /\ Reach(d) \in SUBSET DOMAIN d /\ Closed(d, Reach(d))
<1> DEFINE N == Cardinality(DOMAIN d)
           w == CHOOSE w : Levels(d, w)
           T == {k \in Nat : k <= N => Closed(d, w[k]) \/ Cardinality(w[k]) > k}
<1>1. N \in Nat /\ IsFiniteSet(DOMAIN d)
  BY FS_CardinalityType DEF Whole
<1>2. /\ w[0] = {Root}
      /\ \A k \in 0..N : w[k] \in SUBSET DOMAIN d /\ Root \in w[k]
      /\ \A k \in Nat : k + 1 \in 0..N => w[k + 1] = Grow(d, w[k])
  BY LevelsExist, LevelsGrow
<1>3. \A k \in 0..N : IsFiniteSet(w[k]) /\ Cardinality(w[k]) \in Nat /\ Cardinality(w[k]) <= N
  <2> HIDE DEF w
  <2> QED BY <1>1, <1>2, FS_Subset, FS_CardinalityType
<1> HIDE DEF w
<1>4. 0 \in T
  BY <1>2, FS_Singleton
<1>5. ASSUME NEW k \in T PROVE k + 1 \in T
  <2> SUFFICES ASSUME k + 1 <= N
               PROVE  Closed(d, w[k + 1]) \/ Cardinality(w[k + 1]) > k + 1
    OBVIOUS
  <2>1. k \in Nat /\ k \in 0..N /\ k + 1 \in 0..N
    BY <1>1
  <2>2. w[k + 1] = Grow(d, w[k])
    BY <1>2, <2>1
  <2>3. CASE Closed(d, w[k])
    BY <2>2, <2>3 DEF Closed, Grow
  <2>4. CASE ~Closed(d, w[k])
    <3>1. w[k] \subseteq w[k + 1] /\ w[k] # w[k + 1]
      BY <2>2, <2>4 DEF Closed, Grow
    <3>2. Cardinality(w[k]) < Cardinality(w[k + 1])
      <4>1. /\ IsFiniteSet(w[k + 1]) /\ Cardinality(w[k + 1]) \in Nat /\ Cardinality(w[k]) \in Nat
        BY <1>3, <2>1
      <4>2. Cardinality(w[k]) <= Cardinality(w[k + 1])
        BY <3>1, <4>1, FS_Subset
      <4>3. Cardinality(w[k]) # Cardinality(w[k + 1])
        BY <3>1, <4>1, FS_Subset
      <4> QED BY <4>1, <4>2, <4>3
    <3>3. Cardinality(w[k]) > k
      BY <2>1, <2>4
    <3> QED BY <1>3, <2>1, <3>2, <3>3
  <2> QED BY <2>3, <2>4
<1>6. T = Nat
  <2> HIDE DEF T
  <2>1. T \in SUBSET Nat
    BY DEF T
  <2> QED BY <1>4, <1>5, <2>1, NatInduct
<1>7. Closed(d, w[N])
  BY <1>1, <1>3, <1>6
<1>8. Reach(d) = w[N]
  BY ReachUnfolds DEF w
<1> QED BY <1>1, <1>2, <1>7, <1>8

-----------------------------------------------------------------------------
(* What a pointer leads to.                                                *)

Steps(d, p, at) == at = [i \in 1..Len(p) |-> IF i = 1 THEN {Root} ELSE Under(d, at[i - 1], p[i])]

LEMMA ResolveUnfolds ==
    ASSUME NEW d, NEW p
    PROVE  LET local == p # << >> /\ Head(p) = "#"
               at    == CHOOSE at : Steps(d, p, at)
           IN  Resolve(d, p) = IF local => at[Len(p)] = {} THEN NoNode
                               ELSE CHOOSE n \in at[Len(p)] : TRUE
  BY Zenon DEF Resolve, Steps

LEMMA StepsExist ==
    ASSUME NEW d, Whole(d), NEW p \in Seq(STRING)
    PROVE  Steps(d, p, CHOOSE at : Steps(d, p, at))
<1> DEFINE S == SUBSET DOMAIN d
           N == Len(p)
           G == [k \in Nat |-> [ns \in S |-> Under(d, ns, p[k + 1])]]
<1>1. {Root} \in S
  BY DEF Whole
<1>2. G \in [Nat -> [S -> S]]
  BY UnderIsBelow
<1>3. PICK f \in [0..N -> S] : Iterates(f, {Root}, G, N)
  <2> HIDE DEF S, G
  <2> QED BY <1>1, <1>2, Iteration
<1> DEFINE g == [i \in 1..N |-> f[i - 1]]
<1>4. Steps(d, p, g)
  <2> SUFFICES ASSUME NEW i \in 1..N
               PROVE  g[i] = IF i = 1 THEN {Root} ELSE Under(d, g[i - 1], p[i])
    BY DEF Steps
  <2>1. CASE i = 1
    BY <1>3, <2>1 DEF Iterates
  <2>2. CASE i # 1
    <3>1. i - 1 \in 1..N /\ i - 1 \in Nat /\ (i - 1) + 1 = i /\ (i - 1) - 1 \in 0..N
      BY <2>2
    <3>2. f[i - 1] = G[i - 1][f[(i - 1) - 1]] /\ f[(i - 1) - 1] \in S
      BY <1>3, <3>1 DEF Iterates
    <3>3. g[i] = f[i - 1] /\ g[i - 1] = f[(i - 1) - 1]
      BY <3>1
    <3>4. G[i - 1][f[(i - 1) - 1]] = Under(d, f[(i - 1) - 1], p[i])
      BY <3>1, <3>2
    <3> QED BY <2>2, <3>2, <3>3, <3>4
  <2> QED BY <2>1, <2>2
<1> HIDE DEF g
<1> QED BY <1>4

\* What a pointer of any length resolves to is in the tree.
LEMMA ResolvedIsReached ==
    ASSUME NEW d, Whole(d), NEW p \in Seq(STRING)
    PROVE  Resolve(d, p) \in Reach(d) \cup {NoNode}
<1> DEFINE N == Len(p)
           at == CHOOSE at : Steps(d, p, at)
           T == {k \in Nat : k + 1 <= N => at[k + 1] \subseteq Reach(d)}
<1>1. Steps(d, p, at)
  BY StepsExist
<1> HIDE DEF at
<1>2. 0 \in T
  BY <1>1, ReachIsClosed DEF Steps
<1>3. ASSUME NEW k \in T PROVE k + 1 \in T
  <2> SUFFICES ASSUME (k + 1) + 1 <= N PROVE at[(k + 1) + 1] \subseteq Reach(d)
    OBVIOUS
  <2> DEFINE i == (k + 1) + 1
  <2>1. k \in Nat /\ i \in 1..N /\ i # 1 /\ i - 1 = k + 1
    OBVIOUS
  <2>2. at[i] = Under(d, at[k + 1], p[i])
    BY <1>1, <2>1 DEF Steps
  <2>3. at[k + 1] \subseteq Reach(d)
    BY <2>1
  <2> HIDE DEF i
  <2>4. Under(d, at[k + 1], p[i]) \subseteq UNION {Children(d, n) : n \in at[k + 1]}
    BY <2>3, ReachIsClosed, UnderIsBelow
  <2> QED BY <2>2, <2>3, <2>4, ReachIsClosed DEF Closed, i
<1>4. T = Nat
  <2> HIDE DEF T
  <2>1. T \in SUBSET Nat
    BY DEF T
  <2> QED BY <1>2, <1>3, <2>1, NatInduct
<1>5. ASSUME p # << >> PROVE at[N] \subseteq Reach(d)
  <2>1. N - 1 \in Nat /\ (N - 1) + 1 = N
    BY <1>5
  <2> HIDE DEF N
  <2>2. N - 1 \in T
    <3> HIDE DEF T
    <3> QED BY <1>4, <2>1
  <2>3. (N - 1) + 1 <= N => at[(N - 1) + 1] \subseteq Reach(d)
    BY <2>2
  <2> QED BY <2>1, <2>3
<1>6. ASSUME Resolve(d, p) # NoNode PROVE p # << >> /\ Resolve(d, p) \in at[N]
  <2>1. p # << >> /\ at[N] # {}
    BY <1>6, ResolveUnfolds DEF at
  <2>2. Resolve(d, p) = CHOOSE n \in at[N] : TRUE
    BY <1>6, ResolveUnfolds DEF at
  <2> HIDE DEF N
  <2> QED BY <2>1, <2>2
<1> QED BY <1>5, <1>6

-----------------------------------------------------------------------------
(* The rewrites keep a document whole, and the bounds depend on the bounds. *)

SameBounds(a, b) == a.min = b.min /\ a.max = b.max /\ a.xmin = b.xmin /\ a.xmax = b.xmax

\* d has the nodes of c, and they have the same bounds.
KeepsBounds(c, d) == \A n \in DOMAIN c : n \in DOMAIN d /\ SameBounds(d[n], c[n])

LEMMA TextIsWhole ==
    ASSUME NEW t \in Texts
    PROVE  /\ Whole(t.doc) /\ Fallback \notin DOMAIN t.doc
           /\ Whole(ClampIntegers(t)) /\ DOMAIN ClampIntegers(t) = DOMAIN t.doc
<1>1. ASSUME NEW n \in DOMAIN t.doc
      PROVE  /\ DOMAIN t.doc[n] = DOMAIN Bare /\ t.doc[n].ref \in Seq(STRING)
             /\ t.doc[n].kids \in Seq(Nodes(t.doc))
  <2>1. t.doc[n] \in NodeOf(DOMAIN t.doc)
    BY TextsAssumption
  <2>2. /\ DOMAIN t.doc[n] = DOMAIN Bare /\ t.doc[n].ref \in Seq(STRING)
        /\ t.doc[n].kids \in Seq([key : STRING, node : DOMAIN t.doc])
    BY <2>1 DEF NodeOf, Bare
  <2>3. [key : STRING, node : DOMAIN t.doc] \subseteq Nodes(t.doc)
    BY DEF Nodes
  <2> DEFINE kids == t.doc[n].kids
             A == [key : STRING, node : DOMAIN t.doc]
             B == Nodes(t.doc)
  <2>4. kids \in Seq(A) /\ A \subseteq B
    BY <2>2, <2>3
  <2> HIDE DEF kids, A, B
  <2>5. kids \in Seq(B)
    BY <2>4
  <2> USE DEF kids, A, B
  <2> QED BY <2>2, <2>5
<1>2. Whole(t.doc) /\ Fallback \notin DOMAIN t.doc
  BY <1>1, TextsAssumption DEF Whole
<1> DEFINE c == ClampIntegers(t)
<1>3. DOMAIN c = DOMAIN t.doc
  BY DEF ClampIntegers
<1>4. ASSUME NEW n \in DOMAIN t.doc
      PROVE  DOMAIN c[n] = DOMAIN t.doc[n] /\ c[n].kids = t.doc[n].kids /\ c[n].ref = t.doc[n].ref
  BY <1>1 DEF ClampIntegers, Bare
<1> HIDE DEF c
<1>5. Whole(c)
  BY <1>1, <1>2, <1>3, <1>4 DEF Whole, Nodes
<1> QED BY <1>2, <1>3, <1>5 DEF c

LEMMA InjectKeeps ==
    ASSUME NEW d, Whole(d), Fallback \notin DOMAIN d
    PROVE  Whole(InjectSchemas(d)) /\ KeepsBounds(d, InjectSchemas(d))
<1>1. PICK lacking : InjectSchemas(d) = GiveSchema(d, lacking)
  BY DEF InjectSchemas
<1> DEFINE e == GiveSchema(d, lacking)
           entry == [key |-> "schema", node |-> Fallback]
<1>2. /\ DOMAIN d \subseteq DOMAIN e /\ DOMAIN e \subseteq DOMAIN d \cup {Fallback}
      /\ lacking # {} => Fallback \in DOMAIN e
      /\ \A n \in DOMAIN d : e[n] = IF n \in lacking THEN [d[n] EXCEPT !.kids = Append(@, entry)]
                                    ELSE d[n]
      /\ Fallback \in DOMAIN e => e[Fallback] = [Bare EXCEPT !.role = "schema", !.type = <<"string">>]
  BY DEF GiveSchema
<1>3. IsFiniteSet(DOMAIN e) /\ Root \in DOMAIN e
  <2>1. IsFiniteSet(DOMAIN d \cup {Fallback})
    BY FS_AddElement DEF Whole
  <2> QED BY <1>2, <2>1, FS_Subset DEF Whole
<1> HIDE DEF e
<1>4. ASSUME NEW n \in DOMAIN d
      PROVE  /\ DOMAIN e[n] = DOMAIN Bare /\ SameBounds(e[n], d[n])
             /\ e[n].kids \in Seq(Nodes(e)) /\ e[n].ref \in Seq(STRING)
  <2>1. /\ DOMAIN d[n] = DOMAIN Bare /\ d[n].kids \in Seq(Nodes(d)) /\ d[n].ref \in Seq(STRING)
        /\ Nodes(d) \subseteq Nodes(e)
    BY <1>2 DEF Whole, Nodes
  <2>2. d[n].kids \in Seq(Nodes(e))
    BY <2>1
  <2>3. CASE n \in lacking
    <3>1. entry \in Nodes(e)
      <4>1. Fallback \in DOMAIN e
        BY <1>2, <2>3
      <4> QED BY <4>1 DEF Nodes
    <3>2. e[n] = [d[n] EXCEPT !.kids = Append(d[n].kids, entry)]
      BY <1>2, <2>3
    <3>3. Append(d[n].kids, entry) \in Seq(Nodes(e))
      BY <2>2, <3>1
    <3> HIDE DEF entry
    <3>4. /\ DOMAIN e[n] = DOMAIN d[n] /\ e[n].kids = Append(d[n].kids, entry)
          /\ e[n].ref = d[n].ref
          /\ e[n].min = d[n].min /\ e[n].max = d[n].max /\ e[n].xmin = d[n].xmin
          /\ e[n].xmax = d[n].xmax
      BY <2>1, <3>2 DEF Bare
    <3> QED BY <2>1, <3>3, <3>4 DEF SameBounds
  <2>4. CASE n \notin lacking
    BY <1>2, <2>1, <2>2, <2>4 DEF SameBounds
  <2> QED BY <2>3, <2>4
<1>5. ASSUME Fallback \in DOMAIN e
      PROVE  /\ DOMAIN e[Fallback] = DOMAIN Bare
             /\ e[Fallback].kids \in Seq(Nodes(e)) /\ e[Fallback].ref \in Seq(STRING)
  <2>1. e[Fallback] = [Bare EXCEPT !.role = "schema", !.type = <<"string">>]
    BY <1>2, <1>5
  <2>2. /\ DOMAIN e[Fallback] = DOMAIN Bare
        /\ e[Fallback].kids = << >> /\ e[Fallback].ref = << >>
    BY <2>1 DEF Bare
  <2> QED BY <2>2
<1> QED BY <1>1, <1>2, <1>3, <1>4, <1>5 DEF Whole, KeepsBounds, e

\* Rewriting a node moves nothing but its bounds, type and items.
NewBounds(rec) == RewriteExclusive(CoerceFloats(rec))

LEMMA RewriteKeeps ==
    ASSUME NEW d, Whole(d), NEW n \in DOMAIN d
    PROVE  /\ DOMAIN RewriteNode(d, n) = DOMAIN Bare
           /\ RewriteNode(d, n).kids = d[n].kids /\ RewriteNode(d, n).ref = d[n].ref
           /\ SameBounds(RewriteNode(d, n), NewBounds(d[n]))
<1>1. DOMAIN d[n] = DOMAIN Bare
  BY DEF Whole
<1> DEFINE a == DropItems(d, n)
           b == RewriteNullable(a)
<1>2. /\ DOMAIN a = DOMAIN Bare /\ a.kids = d[n].kids /\ a.ref = d[n].ref /\ SameBounds(a, d[n])
  BY <1>1 DEF DropItems, Bare, SameBounds
<1> HIDE DEF a
<1>3. /\ DOMAIN b = DOMAIN Bare /\ b.kids = d[n].kids /\ b.ref = d[n].ref /\ SameBounds(b, d[n])
  BY <1>2 DEF RewriteNullable, Bare, SameBounds
<1> HIDE DEF b
<1> DEFINE c == CoerceFloats(b)
           e == CoerceFloats(d[n])
<1>4. /\ DOMAIN c = DOMAIN Bare /\ c.kids = d[n].kids /\ c.ref = d[n].ref
      /\ DOMAIN e = DOMAIN Bare /\ SameBounds(c, e)
  <2>1. /\ DOMAIN c = DOMAIN Bare /\ c.kids = b.kids /\ c.ref = b.ref
        /\ c.min = CoerceBound(b.min) /\ c.max = CoerceBound(b.max)
        /\ c.xmin = b.xmin /\ c.xmax = b.xmax
    BY <1>3 DEF CoerceFloats, Bare
  <2>2. /\ DOMAIN e = DOMAIN Bare
        /\ e.min = CoerceBound(d[n].min) /\ e.max = CoerceBound(d[n].max)
        /\ e.xmin = d[n].xmin /\ e.xmax = d[n].xmax
    BY <1>1 DEF CoerceFloats, Bare
  <2> QED BY <1>3, <2>1, <2>2 DEF SameBounds
<1> HIDE DEF c, e
<1>5. /\ DOMAIN RewriteExclusive(c) = DOMAIN Bare
      /\ RewriteExclusive(c).kids = c.kids /\ RewriteExclusive(c).ref = c.ref
      /\ SameBounds(RewriteExclusive(c), RewriteExclusive(e))
  BY <1>4 DEF RewriteExclusive, Bare, SameBounds
<1> QED BY <1>4, <1>5 DEF RewriteNode, NewBounds, a, b, c, e

LEMMA RewriteNodesKeeps ==
    ASSUME NEW d, Whole(d)
    PROVE  /\ Whole(RewriteNodes(d)) /\ DOMAIN RewriteNodes(d) = DOMAIN d
           /\ \A n \in DOMAIN d : SameBounds(RewriteNodes(d)[n], NewBounds(d[n]))
<1> DEFINE e == RewriteNodes(d)
<1>1. DOMAIN e = DOMAIN d /\ \A n \in DOMAIN d : e[n] = RewriteNode(d, n)
  BY DEF RewriteNodes
<1> HIDE DEF e
<1>2. Whole(e)
  <2>1. Nodes(e) = Nodes(d) /\ IsFiniteSet(DOMAIN e) /\ Root \in DOMAIN e
    BY <1>1 DEF Whole, Nodes
  <2>2. ASSUME NEW n \in DOMAIN d
        PROVE  /\ DOMAIN e[n] = DOMAIN Bare
               /\ e[n].kids \in Seq(Nodes(e)) /\ e[n].ref \in Seq(STRING)
    <3>1. d[n].kids \in Seq(Nodes(d)) /\ d[n].ref \in Seq(STRING)
      BY DEF Whole
    <3>2. DOMAIN e[n] = DOMAIN Bare /\ e[n].kids = d[n].kids /\ e[n].ref = d[n].ref
      BY <1>1, RewriteKeeps
    <3> QED BY <2>1, <3>1, <3>2
  <2> QED BY <1>1, <2>1, <2>2 DEF Whole
<1> QED BY <1>1, <1>2, RewriteKeeps DEF e

\* An entry is replaced by a node of the document, if at all.
LEMMA InlineEntriesKeeps ==
    ASSUME NEW d, Whole(d), NEW m \in DOMAIN d
    PROVE  /\ DOMAIN InlineEntries(d, m) = DOMAIN Bare
           /\ InlineEntries(d, m).kids \in Seq(Nodes(d))
           /\ InlineEntries(d, m).ref = d[m].ref
           /\ SameBounds(InlineEntries(d, m), d[m])
<1>1. /\ DOMAIN d[m] = DOMAIN Bare /\ d[m].kids \in Seq(Nodes(d))
  BY DEF Whole
<1> DEFINE kids == [i \in DOMAIN d[m].kids |-> Inlined(d, d[m].kids[i])]
<1>2. ASSUME NEW k \in Nodes(d) PROVE Inlined(d, k) \in Nodes(d)
  <2>1. d[k.node].ref \in Seq(STRING)
    BY DEF Nodes, Whole
  <2>2. Resolve(d, d[k.node].ref) \in DOMAIN d \cup {NoNode}
    BY <2>1, ResolvedIsReached, ReachIsClosed
  <2> QED BY <2>2 DEF Inlined, Nodes
<1>3. kids \in Seq(Nodes(d))
  <2>1. /\ Len(d[m].kids) \in Nat /\ DOMAIN d[m].kids = 1..Len(d[m].kids)
        /\ \A i \in 1..Len(d[m].kids) : d[m].kids[i] \in Nodes(d)
    BY <1>1
  <2>2. kids \in [1..Len(d[m].kids) -> Nodes(d)]
    BY <1>2, <2>1
  <2> HIDE DEF kids
  <2> QED BY <2>1, <2>2
<1>4. InlineEntries(d, m) = [d[m] EXCEPT !.kids = kids]
  BY DEF InlineEntries
<1> HIDE DEF kids
<1> QED BY <1>1, <1>3, <1>4 DEF Bare, SameBounds

\* A node of one document replaced by the inlined node of another one with the same nodes.
LEMMA InlineKeeps ==
    ASSUME NEW d, Whole(d), NEW b, Whole(b), DOMAIN b = DOMAIN d, NEW m,
           NEW c, KeepsBounds(c, d), KeepsBounds(c, b)
    PROVE  LET e == [d EXCEPT ![m] = InlineEntries(b, m)]
           IN  Whole(e) /\ DOMAIN e = DOMAIN d /\ KeepsBounds(c, e)
<1> DEFINE e == [d EXCEPT ![m] = InlineEntries(b, m)]
<1>1. /\ DOMAIN e = DOMAIN d
      /\ \A n \in DOMAIN d : e[n] = IF n = m THEN InlineEntries(b, m) ELSE d[n]
  OBVIOUS
<1> HIDE DEF e
<1>2. Nodes(e) = Nodes(d) /\ Nodes(b) = Nodes(d)
  BY <1>1 DEF Nodes
<1>3. ASSUME NEW n \in DOMAIN d
      PROVE  /\ DOMAIN e[n] = DOMAIN Bare
             /\ e[n].kids \in Seq(Nodes(e)) /\ e[n].ref \in Seq(STRING)
             /\ SameBounds(e[n], IF n = m THEN b[n] ELSE d[n])
  <2>1. CASE n = m
    <3>1. /\ DOMAIN e[n] = DOMAIN Bare /\ e[n].kids \in Seq(Nodes(e)) /\ e[n].ref = b[n].ref
          /\ SameBounds(e[n], b[n])
      BY <1>1, <1>2, <2>1, InlineEntriesKeeps
    <3> QED BY <2>1, <3>1 DEF Whole
  <2>2. CASE n # m
    BY <1>1, <1>2, <2>2 DEF Whole, SameBounds
  <2> QED BY <2>1, <2>2
<1>4. Whole(e)
  BY <1>1, <1>3 DEF Whole
<1>5. KeepsBounds(c, e)
  BY <1>1, <1>3 DEF KeepsBounds, SameBounds
<1> QED BY <1>1, <1>4, <1>5 DEF e

-----------------------------------------------------------------------------
(* What the bounds of a node become.                                       *)

\* What clamp_integer_bounds_textual makes of a bound.
ClampedIn(t, v) == IF t.format = "json" THEN v ELSE ClampInteger(v)

LEMMA ClampedBounds ==
    ASSUME NEW t \in Texts, NEW n \in DOMAIN t.doc
    PROVE  LET rec == ClampIntegers(t)[n]
           IN  /\ rec.min = ClampedIn(t, t.doc[n].min) /\ rec.max = ClampedIn(t, t.doc[n].max)
               /\ rec.xmin = t.doc[n].xmin /\ rec.xmax = t.doc[n].xmax
<1>1. DOMAIN t.doc[n] = DOMAIN Bare
  BY TextIsWhole DEF Whole
<1> QED BY <1>1 DEF ClampIntegers, ClampedIn, Bare

\* A bound without a fraction, clamped and coerced, is the bound, or the end of the 64 bits
\* it lies beyond.
LEMMA TameBound ==
    ASSUME NEW t, NEW v \in Bound, IsNumber(v) => v.halves % 2 = 0
    PROVE  LET u == CoerceBound(ClampedIn(t, v))
           IN  /\ ~IsNumber(v) => u = v
               /\ IsNumber(v) => IsNumber(u) /\ u.halves = Clamped(v.halves)
<1> DEFINE c == ClampedIn(t, v)
           u == CoerceBound(c)
<1>0. MaxI64 \in Nat
  BY BoundsAssumption
<1>1. CASE ~IsNumber(v)
  BY <1>1 DEF ClampedIn, ClampInteger, CoerceBound
<1>2. CASE IsNumber(v)
  <2>1. /\ v \in [is : {"number"}, halves : Int, form : {"int", "float"}]
        /\ v.halves \in Int /\ v.halves % 2 = 0
    BY <1>2 DEF Bound, IsNumber, Absent, Flag
  <2>2. /\ Clamped(v.halves) \in Int /\ Clamped(v.halves) % 2 = 0
        /\ InI64(Clamped(v.halves)) /\ Clamped(Clamped(v.halves)) = Clamped(v.halves)
        /\ InI64(v.halves) => Clamped(v.halves) = v.halves
    BY <1>0, <2>1 DEF Clamped, Nearest, InI64
  <2>3. /\ c.is = "number" /\ c.halves \in {v.halves, Clamped(v.halves)}
    BY <1>2, <2>1 DEF ClampedIn, ClampInteger, IsNumber
  <2>4. c.halves \in Int /\ c.halves % 2 = 0 /\ Clamped(c.halves) = Clamped(v.halves)
    BY <2>1, <2>2, <2>3
  <2>5. InI64(c.halves) => c.halves = Clamped(v.halves)
    BY <2>2, <2>3
  <2> HIDE DEF c
  <2>6. ASSUME c.form = "int" /\ InI64(c.halves)
        PROVE  IsNumber(u) /\ u.halves = Clamped(v.halves)
    BY <2>3, <2>5, <2>6 DEF CoerceBound, IsNumber
  <2>7. ASSUME ~(c.form = "int" /\ InI64(c.halves))
        PROVE  IsNumber(u) /\ u.halves = Clamped(v.halves)
    <3>1. u = Number(Truncate(Clamped(c.halves)), "int")
      BY <2>3, <2>7 DEF CoerceBound, IsNumber
    <3>2. Truncate(Clamped(c.halves)) = Clamped(v.halves)
      BY <2>2, <2>4 DEF Truncate
    <3> QED BY <3>1, <3>2 DEF Number, IsNumber
  <2> QED BY <1>2, <2>6, <2>7 DEF c
<1> QED BY <1>1, <1>2

\* The numbers strictly within 64 bits see no difference between a bound and the end of the
\* 64 bits it lies beyond.
LEMMA ClampedMeans ==
    ASSUME NEW h \in Int, NEW x \in -2 * MaxI64 .. 2 * MaxI64 - 1
    PROVE  /\ x >= h <=> x >= Clamped(h)
           /\ x <= h <=> x <= Clamped(h)
           /\ InI64(h) => Clamped(h) = h
<1>1. MaxI64 \in Nat /\ x \in Int
  BY BoundsAssumption
<1> QED BY <1>1 DEF Clamped, Nearest, InI64

\* Clamped, coerced, and moved where 3.0 has them, the bounds of a schema admit what they
\* admitted.
LEMMA TameBoundsMean ==
    ASSUME NEW t \in Texts, NEW n \in DOMAIN t.doc, Tame(t.doc[n]),
           NEW rec, SameBounds(rec, NewBounds(ClampIntegers(t)[n])),
           NEW x \in -2 * MaxI64 .. 2 * MaxI64 - 1
    PROVE  /\ AboveMin(x, t.doc[n]) <=> AboveMin(x, rec)
           /\ BelowMax(x, t.doc[n]) <=> BelowMax(x, rec)
<1> DEFINE old == t.doc[n]
           c == CoerceFloats(ClampIntegers(t)[n])
<1>1. /\ old.min \in Bound /\ old.max \in Bound /\ old.xmin \in Bound /\ old.xmax \in Bound
  <2>1. old \in NodeOf(DOMAIN t.doc)
    BY TextsAssumption
  <2> QED BY <2>1 DEF NodeOf
<1>2. /\ IsNumber(old.min) => /\ old.min.halves % 2 = 0
                              /\ InI64(old.min.halves) \/ (old.xmin = Absent /\ old.xmax = Absent)
      /\ IsNumber(old.max) => /\ old.max.halves % 2 = 0
                              /\ InI64(old.max.halves) \/ (old.xmin = Absent /\ old.xmax = Absent)
  BY DEF Tame, AllBounds
<1>3. /\ c.xmin = old.xmin /\ c.xmax = old.xmax
      /\ c.min = CoerceBound(ClampedIn(t, old.min)) /\ c.max = CoerceBound(ClampedIn(t, old.max))
      /\ DOMAIN c = DOMAIN Bare
  <2>1. DOMAIN ClampIntegers(t)[n] = DOMAIN Bare
    BY TextIsWhole DEF Whole
  <2>2. /\ c.xmin = ClampIntegers(t)[n].xmin /\ c.xmax = ClampIntegers(t)[n].xmax
        /\ c.min = CoerceBound(ClampIntegers(t)[n].min)
        /\ c.max = CoerceBound(ClampIntegers(t)[n].max)
        /\ DOMAIN c = DOMAIN Bare
    BY <2>1 DEF CoerceFloats, Bare
  <2> QED BY <2>2, ClampedBounds
<1> HIDE DEF c
<1>4. /\ ~IsNumber(old.min) => c.min = old.min
      /\ IsNumber(old.min) => IsNumber(c.min) /\ c.min.halves = Clamped(old.min.halves)
      /\ ~IsNumber(old.max) => c.max = old.max
      /\ IsNumber(old.max) => IsNumber(c.max) /\ c.max.halves = Clamped(old.max.halves)
  BY <1>1, <1>2, <1>3, TameBound
<1>5. /\ IsNumber(old.min) => old.min.halves \in Int
      /\ IsNumber(old.max) => old.max.halves \in Int
  BY <1>1 DEF Bound, IsNumber, Absent, Flag
<1>6. /\ rec.min  = IF IsNumber(c.xmin) /\ ~IsNumber(c.min) THEN c.xmin ELSE c.min
      /\ rec.xmin = IF IsNumber(c.xmin) /\ ~IsNumber(c.min) THEN Flag(TRUE) ELSE c.xmin
      /\ rec.max  = IF IsNumber(c.xmax) /\ ~IsNumber(c.max) THEN c.xmax ELSE c.max
      /\ rec.xmax = IF IsNumber(c.xmax) /\ ~IsNumber(c.max) THEN Flag(TRUE) ELSE c.xmax
  <2>1. SameBounds(rec, RewriteExclusive(c))
    BY DEF NewBounds, c
  <2> QED BY <1>3, <2>1 DEF SameBounds, RewriteExclusive, Bare
<1>7. ~IsNumber(Flag(TRUE)) /\ ~IsNumber(Absent) /\ Flag(TRUE) # Absent
  BY DEF IsNumber, Flag, Absent
<1>8. AboveMin(x, old) <=> AboveMin(x, rec)
  <2>1. CASE IsNumber(old.min)
    <3>1. /\ IsNumber(rec.min) /\ rec.min.halves = Clamped(old.min.halves) /\ rec.xmin = old.xmin
      BY <1>3, <1>4, <1>6, <2>1
    <3>2. x >= old.min.halves <=> x >= rec.min.halves
      BY <1>5, <2>1, <3>1, ClampedMeans
    <3>3. old.xmin = Flag(TRUE) => rec.min.halves = old.min.halves
      BY <1>2, <1>5, <1>7, <2>1, <3>1, ClampedMeans
    <3> QED BY <2>1, <3>1, <3>2, <3>3 DEF AboveMin
  <2>2. CASE ~IsNumber(old.min) /\ IsNumber(old.xmin)
    <3>1. rec.min = old.xmin /\ rec.xmin = Flag(TRUE)
      BY <1>3, <1>4, <1>6, <2>2
    <3> QED BY <1>7, <2>2, <3>1 DEF AboveMin
  <2>3. CASE ~IsNumber(old.min) /\ ~IsNumber(old.xmin)
    <3>1. rec.min = old.min /\ rec.xmin = old.xmin
      BY <1>3, <1>4, <1>6, <2>3
    <3> QED BY <2>3, <3>1 DEF AboveMin
  <2> QED BY <2>1, <2>2, <2>3
<1>9. BelowMax(x, old) <=> BelowMax(x, rec)
  <2>1. CASE IsNumber(old.max)
    <3>1. /\ IsNumber(rec.max) /\ rec.max.halves = Clamped(old.max.halves) /\ rec.xmax = old.xmax
      BY <1>3, <1>4, <1>6, <2>1
    <3>2. x <= old.max.halves <=> x <= rec.max.halves
      BY <1>5, <2>1, <3>1, ClampedMeans
    <3>3. old.xmax = Flag(TRUE) => rec.max.halves = old.max.halves
      BY <1>2, <1>5, <1>7, <2>1, <3>1, ClampedMeans
    <3> QED BY <2>1, <3>1, <3>2, <3>3 DEF BelowMax
  <2>2. CASE ~IsNumber(old.max) /\ IsNumber(old.xmax)
    <3>1. rec.max = old.xmax /\ rec.xmax = Flag(TRUE)
      BY <1>3, <1>4, <1>6, <2>2
    <3> QED BY <1>7, <2>2, <3>1 DEF BelowMax
  <2>3. CASE ~IsNumber(old.max) /\ ~IsNumber(old.xmax)
    <3>1. rec.max = old.max /\ rec.xmax = old.xmax
      BY <1>3, <1>4, <1>6, <2>3
    <3> QED BY <2>3, <3>1 DEF BelowMax
  <2> QED BY <2>1, <2>2, <2>3
<1> QED BY <1>8, <1>9

-----------------------------------------------------------------------------
\* The assumptions, limit by limit and text by text.
LEMMA LimitsAreNat ==
    /\ MaxBytes \in Nat /\ MaxFetches \in Nat /\ FetchTime \in Nat /\ LookupTime \in Nat
    /\ WallTime \in Nat /\ MaxEdits \in Nat /\ MaxReads \in Nat
  BY BoundsAssumption

LEMMA FetchesEnd == LongestFetch \in Nat /\ LookupTime <= LongestFetch
<1>1. FetchTime * (1 + MaxReads) \in Nat
  BY LimitsAreNat
<1> QED
  BY <1>1, LimitsAreNat DEF LongestFetch

LEMMA InputsAreGiven ==
    ASSUME NEW i \in Inputs
    PROVE  /\ i.disk \in Texts \cup {Missing}
           /\ i.source.given = "text" => i.disk \in Texts
  BY TextsAssumption

LEMMA TextsAreWhole ==
    \A t \in Texts : t.size \in Nat /\ Root \in DOMAIN t.doc
  BY TextsAssumption

\* The rewrites keep the nodes of a document, the root among them.
LEMMA RewritesKeepTheRoot ==
    ASSUME NEW t \in Texts
    PROVE  Root \in DOMAIN InlinePaths(RewriteNodes(InjectSchemas(ClampIntegers(t))))
<1>1. Root \in DOMAIN ClampIntegers(t)
  BY TextsAssumption DEF ClampIntegers
<1>2. ASSUME NEW d, Root \in DOMAIN d
      PROVE  Root \in DOMAIN InjectSchemas(d)
  BY <1>2 DEF InjectSchemas, GiveSchema
<1>3. ASSUME NEW d, Root \in DOMAIN d
      PROVE  Root \in DOMAIN RewriteNodes(d)
  BY <1>3 DEF RewriteNodes
<1>4. ASSUME NEW d, Root \in DOMAIN d
      PROVE  Root \in DOMAIN InlinePaths(d)
  BY <1>4 DEF InlinePaths
<1> QED
  BY <1>1, <1>2, <1>3, <1>4

\* What a walk calls next are nodes of the document.
LEMMA CallsAreWalks ==
    ASSUME NEW d, NEW n \in DOMAIN d, d[n].kids \in Seq(Nodes(d)), NEW depth \in Nat
    PROVE  Calls(d, n, depth) \in Seq(Walks(d))
<1> DEFINE kids == d[n].kids
<1>1. /\ Len(kids) \in Nat /\ DOMAIN kids = 1 .. Len(kids)
      /\ \A i \in 1 .. Len(kids) : kids[i] \in Nodes(d)
  OBVIOUS
<1>2. \A i \in 1 .. Len(kids) : [node |-> kids[i].node, depth |-> depth + 1] \in Walks(d)
  BY <1>1 DEF Nodes, Walks
<1>3. [i \in 1 .. Len(kids) |-> [node |-> kids[i].node, depth |-> depth + 1]] \in Seq(Walks(d))
  BY <1>1, <1>2
<1> QED
  BY <1>1, <1>3 DEF Calls

-----------------------------------------------------------------------------
\* Nothing is read, walked or fetched at first.
LEMMA InitInv == Init => IInv
<1> SUFFICES ASSUME Init PROVE IInv
  OBVIOUS
<1>1. PICK i \in Inputs : source = i.source /\ disk = i.disk
  BY DEF Init
<1>2. Given
  <2>1. i.disk \in Texts \cup {Missing} /\ (i.source.given = "text" => i.disk \in Texts)
    BY InputsAreGiven
  <2>2. text = NoText
    BY DEF Init
  <2> QED
    BY <1>1, <2>1, <2>2 DEF Given
<1>3. DOMAIN cache = {} /\ DOMAIN inlined = {}
  BY DEF Init
<1>4. TypeOK
  <2>1. disk # Missing => disk.size \in Nat
    BY <1>2, TextsAreWhole DEF Given
  <2>2. edits = 0 /\ pc = "start" /\ text = NoText /\ verdict = "none" /\ clock = 0
    BY DEF Init
  <2>3. Root \in DOMAIN doc /\ sent \in [Urls -> Nat]
    BY DEF Init
  <2> QED
    BY <1>3, <2>1, <2>2, <2>3, LimitsAreNat DEF TypeOK
<1>5. WalkInv /\ NothingOversized
  BY DEF Init, WalkInv, NothingOversized
<1>6. CacheInv
  BY <1>3, FS_EmptySet DEF CacheInv
<1>7. BudgetsHold
  BY <1>3, FS_EmptySet, LimitsAreNat, FetchesEnd DEF Init, BudgetsHold
<1> QED
  BY <1>2, <1>4, <1>5, <1>6, <1>7 DEF IInv

\* A stutter changes nothing.
LEMMA StutterInv == IInv /\ UNCHANGED vars => IInv'
  BY DEF IInv, vars, TypeOK, Given, WalkInv, CacheInv, NothingOversized, BudgetsHold, IsRemote

\* The steps before and after the walks: everything that leaves the cache, the clock and
\* the places that were filled alone, and does not begin the walk for remote references.
LEMMA ReadingInv ==
    ASSUME IInv,
           UNCHANGED <<cache, inlined, clock, sent>>,
           TypeOK', Given', NothingOversized', pc' # "inline",
           pc' \in {"start", "read", "oversized", "parse", "callbacks"} =>
               pc \in {"start", "read", "oversized", "parse", "callbacks"}
    PROVE  IInv'
<1>1. WalkInv'
  BY DEF WalkInv
<1>2. CacheInv'
  BY DEF IInv, CacheInv
<1>3. BudgetsHold'
  BY DEF IInv, BudgetsHold
<1> QED
  BY <1>1, <1>2, <1>3 DEF IInv

LEMMA FailInv ==
    ASSUME IInv, UNCHANGED <<disk, edits>>, NEW kind \in {"io", "parse"}, Fail(kind)
    PROVE  IInv'
<1>1. TypeOK' /\ Given' /\ NothingOversized'
  BY DEF IInv, TypeOK, Given, NothingOversized, Fail
<1> QED
  BY <1>1, ReadingInv DEF Fail

LEMMA TakeInlineInv == ASSUME IInv, TakeInline PROVE IInv'
<1>1. Given'
  BY DEF IInv, Given, TakeInline
<1>2. TypeOK'
  BY <1>1, TextsAssumption DEF IInv, TypeOK, Given, TakeInline
<1>3. NothingOversized'
  <2>1. CASE source.given = "text"
    <3>1. text' = disk /\ disk.size \in Nat
      BY <2>1, TextsAreWhole DEF IInv, Given, TakeInline
    <3>2. pc' = IF disk.size > MaxBytes THEN "oversized" ELSE "parse"
      BY <2>1 DEF TakeInline
    <3> QED
      BY <3>1, <3>2, LimitsAreNat DEF NothingOversized
  <2>2. CASE source.given # "text"
    BY <2>2 DEF TakeInline, NothingOversized
  <2> QED
    BY <2>1, <2>2
<1> QED
  BY <1>1, <1>2, <1>3, ReadingInv DEF TakeInline

LEMMA StatInv == ASSUME IInv, Stat PROVE IInv'
<1>1. TypeOK' /\ Given' /\ NothingOversized'
  BY DEF IInv, TypeOK, Given, NothingOversized, Stat
<1> QED
  BY <1>1, ReadingInv DEF Stat

\* The length is looked at once more, whatever happened to the file since Stat.
LEMMA ReadInv == ASSUME IInv, Read PROVE IInv'
<1>1. CASE source.given = "text" \/ disk = Missing
  BY <1>1, FailInv DEF Read
<1>2. CASE ~(source.given = "text" \/ disk = Missing)
  <2>1. Given' /\ text' \in Texts
    BY <1>2 DEF IInv, Given, Read
  <2>2. TypeOK'
    BY <1>2, <2>1, TextsAssumption DEF IInv, TypeOK, Given, Read
  <2>3. NothingOversized'
    <3>1. text' = disk /\ disk.size \in Nat
      BY <1>2, <2>1, TextsAreWhole DEF Read
    <3>2. pc' = IF disk.size > MaxBytes THEN "oversized" ELSE "parse"
      BY <1>2 DEF Read
    <3> QED
      BY <3>1, <3>2, LimitsAreNat DEF NothingOversized
  <2> QED
    BY <1>2, <2>1, <2>2, <2>3, ReadingInv DEF Read
<1> QED
  BY <1>1, <1>2

LEMMA RejectInv == ASSUME IInv, RejectOversized \/ RejectVersion PROVE IInv'
  BY FailInv DEF RejectOversized, RejectVersion

LEMMA NormaliseInv == ASSUME IInv, Normalise PROVE IInv'
<1>1. CASE ~Parses(ClampIntegers(text))
  BY <1>1, FailInv DEF Normalise
<1>2. CASE Parses(ClampIntegers(text))
  <2>1. text \in Texts
    BY DEF IInv, Given, Normalise, Unsupported
  <2>2. Root \in DOMAIN doc'
    BY <1>2, <2>1, RewritesKeepTheRoot DEF Normalise
  <2>3. TypeOK'
    <3>1. DOMAIN inlined = {}
      BY DEF IInv, CacheInv, Normalise
    <3> QED
      BY <1>2, <2>2, <3>1 DEF IInv, TypeOK, Normalise
  <2>4. Given' /\ NothingOversized'
    BY <1>2 DEF IInv, Given, NothingOversized, Normalise
  <2> QED
    BY <1>2, <2>3, <2>4, ReadingInv DEF Normalise
<1> QED
  BY <1>1, <1>2

LEMMA CallbacksInv == ASSUME IInv, WalkCallbacks \/ Overflow \/ Check PROVE IInv'
<1>1. Root \in DOMAIN doc' /\ DOMAIN doc' = DOMAIN doc
  BY DEF IInv, TypeOK, WalkCallbacks, Overflow, Check
<1>2. TypeOK'
  BY <1>1 DEF IInv, TypeOK, WalkCallbacks, Overflow, Check
<1>3. Given' /\ NothingOversized'
  BY DEF IInv, Given, NothingOversized, WalkCallbacks, Overflow, Check
<1> QED
  BY <1>2, <1>3, ReadingInv DEF WalkCallbacks, Overflow, Check

-----------------------------------------------------------------------------
LEMMA ParseTreeInv == ASSUME IInv, ParseTree PROVE IInv'
<1>1. CASE text = NoText \/ (text.format = "yaml" /\ ~Parses(text.doc))
  BY <1>1, FailInv DEF ParseTree
<1>2. CASE ~(text = NoText \/ (text.format = "yaml" /\ ~Parses(text.doc)))
  <2>1. text \in Texts
    BY <1>2 DEF IInv, Given
  <2>2. /\ doc' = text.doc /\ todo' = <<[node |-> Root, depth |-> 1]>> /\ pc' = "inline"
        /\ UNCHANGED <<disk, edits, source, text, before, cache, inlined, clock, sent, verdict>>
    BY <1>2 DEF ParseTree
  <2>3. Root \in DOMAIN doc'
    BY <2>1, <2>2, TextsAssumption
  <2>4. pc = "parse" /\ DOMAIN inlined = {}
    BY DEF IInv, CacheInv, ParseTree
  <2>5. TypeOK'
    BY <2>2, <2>3, <2>4 DEF IInv, TypeOK
  <2>6. WalkInv'
    <3>1. todo' \in Seq(Walks(doc'))
      BY <2>2, <2>3 DEF Walks
    <3>2. \A n \in DOMAIN doc' : doc'[n].kids \in Seq(Nodes(doc'))
      BY <2>1, <2>2, TextIsWhole DEF Whole
    <3>3. \A n \in DOMAIN doc' : IsRemote(doc'[n].ref) => doc'[n].ref[2] \in Urls
      BY <2>1, <2>2 DEF Urls
    <3> QED
      BY <3>1, <3>2, <3>3 DEF WalkInv, IsRemote
  <2>7. Given' /\ NothingOversized'
    BY <2>2, <2>4 DEF IInv, Given, NothingOversized
  <2>8. CacheInv' /\ BudgetsHold'
    BY <2>2, <2>4 DEF IInv, CacheInv, BudgetsHold
  <2> QED
    BY <2>5, <2>6, <2>7, <2>8 DEF IInv
<1> QED
  BY <1>1, <1>2

\* A walk that is not over is at a node of the document.
LEMMA AtNode ==
    ASSUME IInv, pc = "inline", todo # << >>
    PROVE  /\ Here \in DOMAIN doc /\ Head(todo).depth \in Nat
           /\ Tail(todo) \in Seq(Walks(doc))
           /\ AtRemote => Url \in Urls
<1>1. todo \in Seq(Walks(doc))
  BY DEF IInv, WalkInv
<1>2. Head(todo) \in Walks(doc) /\ Tail(todo) \in Seq(Walks(doc))
  BY <1>1
<1>3. Here \in DOMAIN doc /\ Head(todo).depth \in Nat
  BY <1>2 DEF Walks, Here
<1>4. AtRemote => Url \in Urls
  BY <1>3 DEF IInv, WalkInv, AtRemote, Url
<1> QED
  BY <1>2, <1>3, <1>4

\* The parts of the invariant that a step of the walk leaves alone when it descends.
LEMMA DescendKeeps ==
    ASSUME IInv, pc = "inline", todo # << >>, Descend(Here),
           UNCHANGED <<source, disk, edits, pc, text, verdict>>
    PROVE  /\ Given' /\ WalkInv' /\ NothingOversized'
           /\ clock' \in Nat /\ sent' \in [Urls -> Nat] /\ UNCHANGED cache => TypeOK' /\ CacheInv'
<1>1. doc' = doc /\ inlined' = inlined
  BY DEF Descend
<1>2. todo' \in Seq(Walks(doc))
  <2>1. Calls(doc, Here, Head(todo).depth) \in Seq(Walks(doc))
    BY AtNode, CallsAreWalks DEF IInv, WalkInv
  <2> QED
    BY <2>1, AtNode DEF Descend
<1>3. WalkInv'
  <2>1. doc' = doc /\ pc' = "inline" /\ Walks(doc') = Walks(doc) /\ Nodes(doc') = Nodes(doc)
    BY <1>1
  <2> QED
    BY <1>2, <2>1 DEF IInv, WalkInv, IsRemote
<1>4. Given' /\ NothingOversized'
  BY DEF IInv, Given, NothingOversized
<1>5. ASSUME clock' \in Nat, sent' \in [Urls -> Nat], UNCHANGED cache
      PROVE  TypeOK' /\ CacheInv'
  BY <1>1, <1>5 DEF IInv, TypeOK, CacheInv
<1> QED
  BY <1>3, <1>4, <1>5

\* And when it replaces the node by a body that the cache has under the URL of the node.
LEMMA ReplaceKeeps ==
    ASSUME IInv, AtRemote, NEW body, Replace(Here, body),
           UNCHANGED <<source, disk, edits, pc, text, verdict>>,
           clock' \in Nat, sent' \in [Urls -> Nat],
           DOMAIN cache \subseteq DOMAIN cache', DOMAIN cache' \subseteq Urls,
           \A u \in DOMAIN cache : cache'[u] = cache[u],
           IsFiniteSet(DOMAIN cache'), \A u \in DOMAIN cache' : cache'[u][1] = u,
           Url \in DOMAIN cache', cache'[Url] = body
    PROVE  Given' /\ WalkInv' /\ NothingOversized' /\ TypeOK' /\ CacheInv'
<1>0. pc = "inline" /\ todo # << >>
  BY DEF AtRemote
<1>1. Here \in DOMAIN doc /\ DOMAIN doc' = DOMAIN doc
  BY <1>0, AtNode DEF Replace
<1>2. /\ doc'[Here].kids = << >> /\ doc'[Here].ref = << >>
      /\ \A n \in DOMAIN doc : n # Here => doc'[n] = doc[n]
  BY <1>1 DEF Replace, Bare
<1>3. DOMAIN inlined' = DOMAIN inlined \cup {Here}
  BY DEF Replace
<1>4. WalkInv'
  <2>1. Walks(doc') = Walks(doc) /\ Nodes(doc') = Nodes(doc)
    BY <1>1 DEF Walks, Nodes
  <2>2. todo' \in Seq(Walks(doc'))
    BY <1>0, <2>1, AtNode DEF Replace
  <2>3. ASSUME NEW n \in DOMAIN doc'
        PROVE  /\ doc'[n].kids \in Seq(Nodes(doc'))
               /\ IsRemote(doc'[n].ref) => doc'[n].ref[2] \in Urls
    <3>1. CASE n = Here
      BY <3>1, <1>2 DEF IsRemote
    <3>2. CASE n # Here
      BY <3>2, <1>0, <1>1, <1>2, <2>1 DEF IInv, WalkInv
    <3> QED
      BY <3>1, <3>2
  <2> QED
    BY <2>2, <2>3 DEF WalkInv, IsRemote
<1>5. Given' /\ NothingOversized'
  BY DEF IInv, Given, NothingOversized
<1>6. TypeOK'
  BY <1>1, <1>3 DEF IInv, TypeOK
<1>7. CacheInv'
  <2>1. body[1] = Url
    OBVIOUS
  <2>2. ASSUME NEW n \in DOMAIN inlined'
        PROVE  inlined'[n][1] \in DOMAIN cache' /\ inlined'[n] = cache'[inlined'[n][1]]
    <3>1. CASE n = Here
      BY <3>1, <2>1 DEF Replace
    <3>2. CASE n # Here
      <4>1. n \in DOMAIN inlined /\ inlined'[n] = inlined[n]
        BY <3>2, <1>3 DEF Replace
      <4> QED
        BY <4>1 DEF IInv, CacheInv
    <3> QED
      BY <3>1, <3>2
  <2> QED
    BY <1>0, <2>2 DEF CacheInv
<1> QED
  BY <1>4, <1>5, <1>6, <1>7

LEMMA UseCachedInv == ASSUME IInv, UseCached PROVE IInv'
<1>1. Given' /\ WalkInv' /\ NothingOversized' /\ TypeOK' /\ CacheInv'
  BY ReplaceKeeps DEF IInv, TypeOK, CacheInv, UseCached
<1>2. BudgetsHold'
  BY DEF IInv, BudgetsHold, UseCached
<1> QED
  BY <1>1, <1>2 DEF IInv

\* A body is fetched only while there is room for one.
LEMMA FetchBodyInv ==
    ASSUME IInv, NEW d \in 0 .. LongestFetch, FetchBody(d)
    PROVE  IInv'
<1> DEFINE body == <<Url, sent[Url]>>
<1>1. /\ AtRemote /\ Url \in Urls /\ Url \notin DOMAIN cache /\ pc = "inline" /\ todo # << >>
  BY AtNode DEF FetchBody, AtRemote
<1>2. DOMAIN cache' = DOMAIN cache \cup {Url}
  BY DEF FetchBody
<1>3. cache'[Url] = body /\ \A u \in DOMAIN cache : cache'[u] = cache[u]
  BY <1>1, <1>2 DEF FetchBody
<1>4. clock' \in Nat /\ clock' <= WallTime + LongestFetch
  BY LimitsAreNat, FetchesEnd DEF IInv, TypeOK, FetchBody, MayFetch
<1>5. sent' \in [Urls -> Nat]
  BY <1>1 DEF IInv, TypeOK, FetchBody
<1>6. /\ IsFiniteSet(DOMAIN cache')
      /\ Cardinality(DOMAIN cache') = Cardinality(DOMAIN cache) + 1
  BY <1>1, <1>2, FS_AddElement DEF IInv, CacheInv
<1>7. Cardinality(DOMAIN cache') <= MaxFetches
  <2>1. Cardinality(DOMAIN cache) \in Nat
    BY FS_CardinalityType DEF IInv, CacheInv
  <2> QED
    BY <1>6, <2>1, BoundsAssumption DEF FetchBody, MayFetch
<1>8. \A u \in DOMAIN cache' : cache'[u][1] = u
  BY <1>2, <1>3 DEF IInv, CacheInv
<1>9. Given' /\ WalkInv' /\ NothingOversized' /\ TypeOK' /\ CacheInv'
  <2>1. DOMAIN cache' \subseteq Urls
    BY <1>1, <1>2 DEF IInv, TypeOK
  <2>2. Replace(Here, body) /\ UNCHANGED <<source, disk, edits, pc, text, verdict>>
    BY DEF FetchBody
  <2> QED
    BY <1>1, <1>2, <1>3, <1>4, <1>5, <1>6, <1>8, <2>1, <2>2, ReplaceKeeps
<1> QED
  BY <1>4, <1>7, <1>9 DEF IInv, BudgetsHold

LEMMA NoBodyInv ==
    ASSUME IInv,
           \/ \E d \in 0 .. LongestFetch : FetchFails(d)
           \/ \E d \in 0 .. LookupTime : RefuseUrl(d)
    PROVE  IInv'
<1>1. PICK d \in 0 .. LongestFetch : FetchFails(d) \/ RefuseUrl(d)
  BY LimitsAreNat, FetchesEnd
<1>2. /\ AtRemote /\ MayFetch /\ clock' = clock + d /\ Descend(Here)
      /\ UNCHANGED <<source, disk, edits, pc, text, before, cache, verdict>>
  BY <1>1 DEF FetchFails, RefuseUrl
<1>3. clock' \in Nat /\ clock' <= WallTime + LongestFetch
  BY <1>2, LimitsAreNat, FetchesEnd DEF IInv, TypeOK, MayFetch
<1>4. sent' \in [Urls -> Nat]
  BY <1>1, AtNode DEF IInv, TypeOK, FetchFails, RefuseUrl, AtRemote
<1>5. Given' /\ WalkInv' /\ NothingOversized' /\ TypeOK' /\ CacheInv'
  BY <1>2, <1>3, <1>4, DescendKeeps DEF AtRemote
<1>6. BudgetsHold'
  BY <1>2, <1>3 DEF IInv, BudgetsHold
<1> QED
  BY <1>5, <1>6 DEF IInv

LEMMA SkipInv == ASSUME IInv, SkipRemote \/ WalkLocal PROVE IInv'
<1>1. /\ pc = "inline" /\ todo # << >> /\ Descend(Here)
      /\ UNCHANGED <<source, disk, edits, pc, text, cache, clock, sent, verdict>>
  BY DEF SkipRemote, WalkLocal, AtRemote
<1>2. Given' /\ WalkInv' /\ NothingOversized' /\ TypeOK' /\ CacheInv'
  BY <1>1, DescendKeeps DEF IInv, TypeOK
<1>3. BudgetsHold'
  BY <1>1 DEF IInv, BudgetsHold
<1> QED
  BY <1>2, <1>3 DEF IInv

LEMMA FinishRemoteInv == ASSUME IInv, FinishRemote PROVE IInv'
<1>1. DOMAIN doc' = DOMAIN doc
  BY DEF FinishRemote
<1>2. TypeOK'
  BY <1>1 DEF IInv, TypeOK, FinishRemote
<1>3. Given' /\ NothingOversized'
  BY DEF IInv, Given, NothingOversized, FinishRemote
<1> QED
  BY <1>2, <1>3, ReadingInv DEF FinishRemote

LEMMA EditInv == ASSUME IInv, Edit PROVE IInv'
<1>1. Given'
  BY TextsAssumption DEF IInv, Given, Edit
<1>2. TypeOK'
  <2>1. disk' # Missing => disk'.size \in Nat
    BY <1>1, TextsAreWhole DEF Given
  <2>2. edits' \in 0 .. MaxEdits
    BY LimitsAreNat DEF IInv, TypeOK, Edit
  <2>3. UNCHANGED <<pc, text, doc, cache, inlined, clock, sent, verdict>>
    BY DEF Edit
  <2> QED
    BY <2>1, <2>2, <2>3 DEF IInv, TypeOK
<1>3. NothingOversized' /\ BudgetsHold' /\ CacheInv' /\ WalkInv'
  BY DEF IInv, NothingOversized, BudgetsHold, CacheInv, WalkInv, IsRemote, Edit
<1> QED
  BY <1>1, <1>2, <1>3 DEF IInv

LEMMA NextInv == IInv /\ [Next]_vars => IInv'
<1> SUFFICES ASSUME IInv, [Next]_vars PROVE IInv'
  OBVIOUS
<1>1. CASE TakeInline \/ Stat \/ Read \/ RejectOversized \/ RejectVersion
  BY <1>1, TakeInlineInv, StatInv, ReadInv, RejectInv
<1>2. CASE Normalise \/ WalkCallbacks \/ Overflow \/ Check
  BY <1>2, NormaliseInv, CallbacksInv
<1>3. CASE ParseTree \/ UseCached \/ SkipRemote \/ WalkLocal \/ FinishRemote
  BY <1>3, ParseTreeInv, UseCachedInv, SkipInv, FinishRemoteInv
<1>4. CASE Fetch
  BY <1>4, FetchBodyInv, NoBodyInv DEF Fetch
<1>5. CASE Edit
  BY <1>5, EditInv
<1>6. CASE UNCHANGED vars
  BY <1>6, StutterInv
<1> QED
  BY <1>1, <1>2, <1>3, <1>4, <1>5, <1>6 DEF Next, Step

LEMMA InvHolds == Spec => []IInv
  BY InitInv, NextInv, PTL DEF Spec

-----------------------------------------------------------------------------
(* The tree of load_spec.                                                  *)

LEMMA NewBoundsAgree ==
    ASSUME NEW a, NEW b, DOMAIN a = DOMAIN Bare, DOMAIN b = DOMAIN Bare, SameBounds(a, b)
    PROVE  SameBounds(NewBounds(a), NewBounds(b))
<1> DEFINE c == CoerceFloats(a)
           e == CoerceFloats(b)
<1>1. DOMAIN c = DOMAIN Bare /\ DOMAIN e = DOMAIN Bare /\ SameBounds(c, e)
  BY DEF CoerceFloats, Bare, SameBounds
<1> HIDE DEF c, e
<1>2. SameBounds(RewriteExclusive(c), RewriteExclusive(e))
  BY <1>1 DEF RewriteExclusive, Bare, SameBounds
<1> QED BY <1>2 DEF NewBounds, c, e

\* The bounds that the nodes of a text are to have.
Intended(t) == [n \in DOMAIN t.doc |-> NewBounds(ClampIntegers(t)[n])]

LEMMA RewrittenKeeps ==
    ASSUME NEW t \in Texts
    PROVE  LET d == InlinePaths(RewriteNodes(InjectSchemas(ClampIntegers(t))))
           IN  Whole(d) /\ KeepsBounds(Intended(t), d)
<1> DEFINE c == ClampIntegers(t)
           f == InjectSchemas(c)
           r == RewriteNodes(f)
<1>1. Whole(c) /\ Fallback \notin DOMAIN c /\ DOMAIN c = DOMAIN t.doc
  BY TextIsWhole
<1>2. DOMAIN Intended(t) = DOMAIN c /\ \A n \in DOMAIN c : Intended(t)[n] = NewBounds(c[n])
  BY <1>1 DEF Intended
<1> HIDE DEF c
<1>3. Whole(f) /\ KeepsBounds(c, f)
  BY <1>1, InjectKeeps
<1> HIDE DEF f
<1>4. /\ Whole(r) /\ DOMAIN r = DOMAIN f
      /\ \A n \in DOMAIN f : SameBounds(r[n], NewBounds(f[n]))
  BY <1>3, RewriteNodesKeeps
<1> HIDE DEF r
<1>5. KeepsBounds(Intended(t), r)
  <2> SUFFICES ASSUME NEW n \in DOMAIN c PROVE n \in DOMAIN r /\ SameBounds(r[n], Intended(t)[n])
    BY <1>2 DEF KeepsBounds
  <2>1. n \in DOMAIN f /\ SameBounds(f[n], c[n])
    BY <1>3 DEF KeepsBounds
  <2>2. DOMAIN f[n] = DOMAIN Bare /\ DOMAIN c[n] = DOMAIN Bare
    BY <1>1, <1>3, <2>1 DEF Whole
  <2>3. SameBounds(NewBounds(f[n]), NewBounds(c[n]))
    BY <2>1, <2>2, NewBoundsAgree
  <2> QED BY <1>2, <1>4, <2>1, <2>3 DEF SameBounds
<1>6. Whole(InlinePaths(r)) /\ KeepsBounds(Intended(t), InlinePaths(r))
  BY <1>4, <1>5, InlineKeeps DEF InlinePaths
<1> QED BY <1>6 DEF c, f, r

\* The tree and the snapshot stay whole and keep the bounds they are meant to have; what is
\* accepted passed the checks.
DocInv ==
    /\ pc = "callbacks" =>
          /\ text \in Texts /\ Whole(doc) /\ KeepsBounds(Intended(text), doc)
          /\ Whole(before) /\ DOMAIN before = DOMAIN doc /\ KeepsBounds(Intended(text), before)
    /\ pc = "inline" => source.entry = "remote"
    /\ Accepted => /\ text \in Texts /\ Whole(doc) /\ KeepsBounds(Intended(text), doc)
                   /\ SoundSemantics(doc)

LEMMA DocInit == Init => DocInv
  BY DEF Init, DocInv, Accepted

LEMMA DocNormalise == ASSUME IInv, Normalise PROVE DocInv'
<1>1. CASE ~Parses(ClampIntegers(text))
  <2>1. pc' = "done" /\ verdict' = "parse"
    BY <1>1 DEF Normalise, Fail
  <2> QED BY <2>1 DEF DocInv, Accepted
<1>2. CASE Parses(ClampIntegers(text))
  <2>1. text \in Texts /\ verdict = "none"
    BY DEF IInv, Given, TypeOK, Normalise, Unsupported
  <2>2. /\ doc' = InlinePaths(RewriteNodes(InjectSchemas(ClampIntegers(text))))
        /\ before' = doc' /\ pc' = "callbacks" /\ text' = text /\ verdict' = verdict
    BY <1>2 DEF Normalise
  <2>3. Whole(doc') /\ KeepsBounds(Intended(text), doc')
    BY <2>1, <2>2, RewrittenKeeps
  <2> QED BY <2>1, <2>2, <2>3 DEF DocInv, Accepted
<1> QED BY <1>1, <1>2

LEMMA DocCallbacks == ASSUME IInv, DocInv, WalkCallbacks PROVE DocInv'
<1>1. /\ text \in Texts /\ Whole(doc) /\ KeepsBounds(Intended(text), doc)
      /\ Whole(before) /\ DOMAIN before = DOMAIN doc /\ KeepsBounds(Intended(text), before)
      /\ verdict = "none"
  BY DEF WalkCallbacks, DocInv, IInv, TypeOK
<1>2. PICK m : doc' \in {doc, [doc EXCEPT ![m] = InlineEntries(before, m)]}
  BY DEF WalkCallbacks
<1>3. Whole(doc') /\ DOMAIN doc' = DOMAIN doc /\ KeepsBounds(Intended(text), doc')
  BY <1>1, <1>2, InlineKeeps
<1>4. UNCHANGED <<text, before, pc, verdict>> /\ pc = "callbacks"
  BY DEF WalkCallbacks
<1> QED BY <1>1, <1>3, <1>4 DEF DocInv, Accepted

LEMMA DocCheck == ASSUME IInv, DocInv, Check PROVE DocInv'
<1>1. /\ pc = "callbacks" /\ pc' = "done" /\ UNCHANGED <<text, doc, source>>
      /\ verdict' = "ok" => SoundSemantics(doc)
  BY DEF Check
<1>2. text \in Texts /\ Whole(doc) /\ KeepsBounds(Intended(text), doc)
  BY <1>1 DEF DocInv
<1> QED BY <1>1, <1>2 DEF DocInv, Accepted

\* The file and the network change neither.
LEMMA DocFrame ==
    ASSUME DocInv, UNCHANGED <<source, text, before, verdict, pc>>,
           \/ pc = "inline" /\ verdict = "none"
           \/ UNCHANGED doc
    PROVE  DocInv'
  BY DEF DocInv, Accepted

LEMMA DocNext == IInv /\ IInv' /\ DocInv /\ [Next]_vars => DocInv'
<1> SUFFICES ASSUME IInv, IInv', DocInv, [Next]_vars PROVE DocInv'
  OBVIOUS
<1>1. pc # "done" <=> verdict = "none"
  BY DEF IInv, TypeOK
<1>2. CASE TakeInline \/ Stat \/ Read \/ RejectOversized \/ RejectVersion \/ Overflow \/ ParseTree
  <2>1. /\ pc # "done" /\ pc' \in {"start", "read", "oversized", "parse", "done", "inline", "crashed"}
        /\ pc' = "inline" => source'.entry = "remote"
        /\ verdict' \in {verdict, "io", "parse"}
    BY <1>2 DEF TakeInline, Stat, Read, RejectOversized, RejectVersion, Overflow, ParseTree, Fail
  <2> QED BY <1>1, <2>1 DEF DocInv, Accepted
<1>3. CASE Normalise \/ WalkCallbacks \/ Check
  BY <1>3, DocNormalise, DocCallbacks, DocCheck
<1>4. CASE FinishRemote
  <2>1. pc = "inline" /\ pc' = "done" /\ source' = source
    BY <1>4 DEF FinishRemote
  <2> QED BY <2>1 DEF DocInv, Accepted
<1>5. CASE UseCached \/ Fetch \/ SkipRemote \/ WalkLocal
  <2>1. pc = "inline" /\ UNCHANGED <<source, text, before, verdict, pc>>
    BY <1>5 DEF UseCached, Fetch, FetchBody, FetchFails, RefuseUrl, SkipRemote, WalkLocal, AtRemote
  <2> QED BY <1>1, <2>1, DocFrame
<1>6. CASE Edit \/ UNCHANGED vars
  <2>1. UNCHANGED <<source, text, before, verdict, pc, doc>>
    BY <1>6 DEF Edit, vars
  <2> QED BY <2>1, DocFrame
<1> QED BY <1>2, <1>3, <1>4, <1>5, <1>6 DEF Next, Step

LEMMA DocHolds == Spec => []DocInv
  BY InvHolds, DocInit, DocNext, PTL DEF Spec

-----------------------------------------------------------------------------
(* A second load.                                                          *)

\* What the passes look for in a node, and what they leave it with.
Done(rec) ==
    /\ DOMAIN rec = DOMAIN Bare
    /\ ~NullPair(rec.type)
    /\ rec.boolItems \in BOOLEAN
    /\ rec.boolItems => \A i \in DOMAIN rec.kids : rec.kids[i].key # "prefixItems"

\* The schema that headers share is still what it was.
Shared(rec) ==
    /\ rec.kids = << >> /\ rec.boolItems = FALSE /\ rec.type = <<"string">>
    /\ rec.min = Absent /\ rec.max = Absent /\ rec.xmin = Absent /\ rec.xmax = Absent
    /\ rec.role = "schema" /\ rec.ref = << >> /\ rec.alone = FALSE
    /\ rec.nullable = "absent" /\ rec.opid = ""

\* A document that the passes have been over.
Settled(t, d) ==
    /\ DOMAIN d \subseteq DOMAIN t.doc \cup {Fallback}
    /\ \A n \in DOMAIN d : Done(d[n])
    /\ Fallback \in DOMAIN d => Shared(d[Fallback])

LEMMA NotPaired == ASSUME NEW a PROVE ~NullPair(<<a>>)
  BY DEF NullPair

LEMMA NullableIsDone ==
    ASSUME NEW rec, DOMAIN rec = DOMAIN Bare
    PROVE  LET new == RewriteNullable(rec)
           IN  /\ DOMAIN new = DOMAIN Bare
               /\ ~NullPair(new.type)
               /\ new.boolItems = rec.boolItems /\ new.kids = rec.kids /\ new.role = rec.role
               /\ new.min = rec.min /\ new.max = rec.max /\ new.xmin = rec.xmin
               /\ new.xmax = rec.xmax
               /\ new.ref = rec.ref /\ new.alone = rec.alone /\ new.opid = rec.opid
               /\ ~NullPair(rec.type) => new.type = rec.type /\ new.nullable = rec.nullable
<1>1. CASE NullPair(rec.type)
  <2> DEFINE one == IF rec.type[1] = "null" THEN rec.type[2] ELSE rec.type[1]
             nullable == IF rec.nullable = "absent" THEN "true" ELSE rec.nullable
  <2>1. RewriteNullable(rec) = [rec EXCEPT !.type = <<one>>, !.nullable = nullable]
    BY <1>1 DEF RewriteNullable
  <2>2. ~NullPair(<<one>>)
    BY NotPaired
  <2> HIDE DEF one, nullable
  <2> QED BY <1>1, <2>1, <2>2 DEF Bare
<1>2. CASE ~NullPair(rec.type)
  <2>1. RewriteNullable(rec) = rec
    BY <1>2 DEF RewriteNullable
  <2> QED BY <1>2, <2>1
<1> QED BY <1>1, <1>2

\* Fields that the moves of the bounds leave alone.
SameRest(a, b) ==
    /\ a.role = b.role /\ a.kids = b.kids /\ a.ref = b.ref /\ a.alone = b.alone
    /\ a.type = b.type /\ a.nullable = b.nullable /\ a.boolItems = b.boolItems
    /\ a.opid = b.opid

LEMMA BoundsLeaveTheRest ==
    ASSUME NEW rec, DOMAIN rec = DOMAIN Bare
    PROVE  LET new == RewriteExclusive(CoerceFloats(rec))
           IN  DOMAIN new = DOMAIN Bare /\ SameRest(new, rec)
<1> DEFINE c == CoerceFloats(rec)
<1>1. DOMAIN c = DOMAIN Bare /\ SameRest(c, rec)
  BY DEF CoerceFloats, Bare, SameRest
<1> HIDE DEF c
<1>2. DOMAIN RewriteExclusive(c) = DOMAIN Bare /\ SameRest(RewriteExclusive(c), c)
  BY <1>1 DEF RewriteExclusive, Bare, SameRest
<1> QED BY <1>1, <1>2 DEF SameRest, c

LEMMA NodeIsDone ==
    ASSUME NEW d, NEW n \in DOMAIN d, DOMAIN d[n] = DOMAIN Bare, d[n].boolItems \in BOOLEAN
    PROVE  Done(RewriteNode(d, n))
<1> DEFINE a == DropItems(d, n)
           b == RewriteNullable(a)
           c == RewriteExclusive(CoerceFloats(b))
           keep == d[n].boolItems /\ "prefixItems" \notin Keys(d, n)
<1>1. /\ DOMAIN a = DOMAIN Bare /\ a.kids = d[n].kids /\ a.boolItems = keep
  BY DEF DropItems, Bare
<1>2. keep \in BOOLEAN /\ (keep => \A i \in DOMAIN d[n].kids : d[n].kids[i].key # "prefixItems")
  BY DEF Keys, KidSet, Range
<1> HIDE DEF a, keep
<1>3. /\ DOMAIN b = DOMAIN Bare /\ ~NullPair(b.type) /\ b.kids = d[n].kids /\ b.boolItems = keep
  BY <1>1, NullableIsDone
<1> HIDE DEF b
<1>4. DOMAIN c = DOMAIN Bare /\ c.type = b.type /\ c.kids = b.kids /\ c.boolItems = b.boolItems
  BY <1>3, BoundsLeaveTheRest DEF SameRest
<1> HIDE DEF c
<1>5. Done(c)
  BY <1>2, <1>3, <1>4 DEF Done
<1> QED BY <1>5 DEF RewriteNode, a, b, c

\* A node that is done is left as it is, but for its bounds.
LEMMA DoneIsKept ==
    ASSUME NEW d, NEW n \in DOMAIN d, Done(d[n])
    PROVE  DOMAIN RewriteNode(d, n) = DOMAIN Bare /\ SameRest(RewriteNode(d, n), d[n])
<1> DEFINE a == DropItems(d, n)
           b == RewriteNullable(a)
           keep == d[n].boolItems /\ "prefixItems" \notin Keys(d, n)
<1>0. DOMAIN d[n] = DOMAIN Bare /\ ~NullPair(d[n].type)
  BY DEF Done
<1>1. keep = d[n].boolItems
  <2>1. d[n].boolItems => "prefixItems" \notin Keys(d, n)
    BY DEF Keys, KidSet, Range, Done
  <2>2. d[n].boolItems \in BOOLEAN
    BY DEF Done
  <2> QED BY <2>1, <2>2, Zenon
<1>2. a = [d[n] EXCEPT !.boolItems = keep]
  BY DEF DropItems
<1>3. DOMAIN a = DOMAIN Bare /\ SameRest(a, d[n])
  <2> HIDE DEF keep, a
  <2> QED BY <1>0, <1>1, <1>2 DEF SameRest, Bare
<1> HIDE DEF a
<1>4. DOMAIN b = DOMAIN Bare /\ SameRest(b, d[n])
  BY <1>0, <1>3, NullableIsDone DEF SameRest
<1> HIDE DEF b
<1>5. LET c == RewriteExclusive(CoerceFloats(b)) IN DOMAIN c = DOMAIN Bare /\ SameRest(c, b)
  BY <1>4, BoundsLeaveTheRest
<1> QED BY <1>4, <1>5 DEF RewriteNode, SameRest, a, b

LEMMA SharedIsKept ==
    ASSUME NEW d, NEW n \in DOMAIN d, DOMAIN d[n] = DOMAIN Bare, Shared(d[n])
    PROVE  Shared(RewriteNode(d, n))
<1>1. Done(d[n])
  <2>1. ~NullPair(d[n].type)
    BY NotPaired DEF Shared
  <2> QED BY <2>1 DEF Done, Shared
<1>2. SameRest(RewriteNode(d, n), d[n])
  BY <1>1, DoneIsKept
<1> DEFINE e == CoerceFloats(d[n])
<1>3. e.min = Absent /\ e.max = Absent /\ e.xmin = Absent /\ e.xmax = Absent /\ DOMAIN e = DOMAIN Bare
  <2>1. CoerceBound(Absent) = Absent
    BY DEF CoerceBound, IsNumber, Absent
  <2>2. /\ e.min = CoerceBound(d[n].min) /\ e.max = CoerceBound(d[n].max)
        /\ e.xmin = d[n].xmin /\ e.xmax = d[n].xmax /\ DOMAIN e = DOMAIN Bare
    BY DEF CoerceFloats, Bare
  <2> QED BY <2>1, <2>2 DEF Shared
<1> HIDE DEF e
<1>4. SameBounds(NewBounds(d[n]), e)
  BY <1>3 DEF NewBounds, RewriteExclusive, SameBounds, IsNumber, Absent, Bare, e
<1>5. DOMAIN d[n] = DOMAIN Bare
  OBVIOUS
<1>6. SameBounds(RewriteNode(d, n), e)
  <2> DEFINE a == DropItems(d, n)
             b == RewriteNullable(a)
  <2>1. DOMAIN a = DOMAIN Bare /\ SameBounds(a, d[n])
    BY <1>5 DEF DropItems, Bare, SameBounds
  <2> HIDE DEF a
  <2>2. DOMAIN b = DOMAIN Bare /\ SameBounds(b, d[n])
    BY <2>1, NullableIsDone DEF SameBounds
  <2> HIDE DEF b
  <2>3. SameBounds(NewBounds(b), NewBounds(d[n]))
    BY <1>5, <2>2, NewBoundsAgree
  <2> QED BY <1>4, <2>3 DEF SameBounds, RewriteNode, NewBounds, a, b
<1> QED BY <1>2, <1>3, <1>6 DEF Shared, SameRest, SameBounds

\* A bound that one pass of the coercion has been over, or that it would only write in
\* another way.
Steady(v) == IsNumber(v) => IsNumber(CoerceBound(v)) /\ Plain(CoerceBound(v)) = Plain(v)

SamePlain(a, b) ==
    /\ Plain(a.min) = Plain(b.min) /\ Plain(a.max) = Plain(b.max)
    /\ a.xmin = b.xmin /\ a.xmax = b.xmax

LEMMA EvenIsSteady ==
    ASSUME NEW v \in Bound, IsNumber(v) => v.halves % 2 = 0 /\ InI64(v.halves)
    PROVE  Steady(v)
<1> SUFFICES ASSUME IsNumber(v) PROVE IsNumber(CoerceBound(v)) /\ Plain(CoerceBound(v)) = Plain(v)
  BY DEF Steady
<1>0. MaxI64 \in Nat
  BY BoundsAssumption
<1>1. /\ v \in [is : {"number"}, halves : Int, form : {"int", "float"}]
      /\ v.halves \in Int /\ v.halves % 2 = 0 /\ InI64(v.halves)
  BY DEF Bound, IsNumber, Absent, Flag
<1>2. CASE v.form = "int"
  BY <1>1, <1>2 DEF CoerceBound
<1>3. CASE v.form = "float"
  <2>1. Truncate(Clamped(v.halves)) = v.halves
    BY <1>0, <1>1 DEF Truncate, Clamped, Nearest, InI64
  <2>2. CoerceBound(v) = Number(v.halves, "int")
    BY <1>3, <2>1 DEF CoerceBound
  <2>3. [v EXCEPT !.form = "int"] = Number(v.halves, "int")
    BY <1>1 DEF Number
  <2> QED BY <2>2, <2>3 DEF Plain, IsNumber, Number
<1> QED BY <1>1, <1>2, <1>3

\* What the passes made of a tame bound.
LEMMA CoercedIsSteady ==
    ASSUME NEW t, NEW v \in Bound, IsNumber(v) => v.halves % 2 = 0
    PROVE  LET u == CoerceBound(ClampedIn(t, v))
           IN  Steady(u) /\ (IsNumber(u) <=> IsNumber(v)) /\ (~IsNumber(v) => u = v)
<1> DEFINE c == ClampedIn(t, v)
           u == CoerceBound(c)
<1>0. MaxI64 \in Nat
  BY BoundsAssumption
<1>1. CASE ~IsNumber(v)
  <2>1. u = v
    BY <1>1, TameBound
  <2> QED BY <1>1, <2>1 DEF Steady
<1>2. CASE IsNumber(v)
  <2>1. /\ v \in [is : {"number"}, halves : Int, form : {"int", "float"}]
        /\ v.halves \in Int /\ v.halves % 2 = 0
    BY <1>2 DEF Bound, IsNumber, Absent, Flag
  <2>2. IsNumber(u) /\ u.halves = Clamped(v.halves)
    BY <1>2, TameBound
  <2>3. InI64(u.halves)
    BY <1>0, <2>1, <2>2 DEF Clamped, Nearest, InI64
  <2>4. u.form = "int"
    <3>1. IsNumber(c)
      BY <1>2, <2>1 DEF ClampedIn, ClampInteger, IsNumber
    <3>2. CASE c.form = "int" /\ InI64(c.halves)
      BY <3>1, <3>2 DEF CoerceBound
    <3>3. CASE ~(c.form = "int" /\ InI64(c.halves))
      BY <3>1, <3>3 DEF CoerceBound, Number
    <3> QED BY <3>2, <3>3
  <2> HIDE DEF u
  <2>5. CoerceBound(u) = u
    BY <2>2, <2>3, <2>4 DEF CoerceBound
  <2> QED BY <1>2, <2>2, <2>5 DEF Steady, u
<1> QED BY <1>1, <1>2

\* Once moved, exclusive bounds stay where they are.
LEMMA MovedStays ==
    ASSUME NEW rec, DOMAIN rec = DOMAIN Bare, Steady(rec.min), Steady(rec.max),
           IsNumber(rec.xmin) => IsNumber(rec.min), IsNumber(rec.xmax) => IsNumber(rec.max)
    PROVE  SamePlain(NewBounds(rec), rec)
<1> DEFINE c == CoerceFloats(rec)
<1>1. /\ c.min = CoerceBound(rec.min) /\ c.max = CoerceBound(rec.max)
      /\ c.xmin = rec.xmin /\ c.xmax = rec.xmax /\ DOMAIN c = DOMAIN Bare
  BY DEF CoerceFloats, Bare
<1>2. /\ IsNumber(rec.min) => IsNumber(c.min) /\ Plain(c.min) = Plain(rec.min)
      /\ IsNumber(rec.max) => IsNumber(c.max) /\ Plain(c.max) = Plain(rec.max)
      /\ ~IsNumber(rec.min) => c.min = rec.min
      /\ ~IsNumber(rec.max) => c.max = rec.max
  BY <1>1 DEF Steady, CoerceBound
<1> HIDE DEF c
<1>3. RewriteExclusive(c).min = c.min /\ RewriteExclusive(c).max = c.max
      /\ RewriteExclusive(c).xmin = c.xmin /\ RewriteExclusive(c).xmax = c.xmax
  BY <1>1, <1>2 DEF RewriteExclusive, Bare
<1> QED BY <1>1, <1>2, <1>3 DEF SamePlain, NewBounds, c

LEMMA TameStays ==
    ASSUME NEW t \in Texts, NEW n \in DOMAIN t.doc, Tame(t.doc[n]),
           NEW rec, DOMAIN rec = DOMAIN Bare, SameBounds(rec, NewBounds(ClampIntegers(t)[n]))
    PROVE  SamePlain(NewBounds(rec), rec)
<1> DEFINE old == t.doc[n]
           c == CoerceFloats(ClampIntegers(t)[n])
<1>1. /\ old.min \in Bound /\ old.max \in Bound /\ old.xmin \in Bound /\ old.xmax \in Bound
  <2>1. old \in NodeOf(DOMAIN t.doc)
    BY TextsAssumption
  <2> QED BY <2>1 DEF NodeOf
<1>2. /\ IsNumber(old.min) => old.min.halves % 2 = 0
      /\ IsNumber(old.max) => old.max.halves % 2 = 0
      /\ IsNumber(old.xmin) => old.xmin.halves % 2 = 0 /\ InI64(old.xmin.halves)
      /\ IsNumber(old.xmax) => old.xmax.halves % 2 = 0 /\ InI64(old.xmax.halves)
  <2>1. ~IsNumber(Absent)
    BY DEF IsNumber, Absent
  <2> QED BY <2>1 DEF Tame, AllBounds
<1>3. Steady(old.xmin) /\ Steady(old.xmax)
  BY <1>1, <1>2, EvenIsSteady
<1>4. /\ c.xmin = old.xmin /\ c.xmax = old.xmax
      /\ c.min = CoerceBound(ClampedIn(t, old.min)) /\ c.max = CoerceBound(ClampedIn(t, old.max))
      /\ DOMAIN c = DOMAIN Bare
  <2>1. DOMAIN ClampIntegers(t)[n] = DOMAIN Bare
    BY TextIsWhole DEF Whole
  <2>2. /\ c.xmin = ClampIntegers(t)[n].xmin /\ c.xmax = ClampIntegers(t)[n].xmax
        /\ c.min = CoerceBound(ClampIntegers(t)[n].min)
        /\ c.max = CoerceBound(ClampIntegers(t)[n].max)
        /\ DOMAIN c = DOMAIN Bare
    BY <2>1 DEF CoerceFloats, Bare
  <2> QED BY <2>2, ClampedBounds
<1> HIDE DEF c
<1>5. Steady(c.min) /\ Steady(c.max)
  BY <1>1, <1>2, <1>4, CoercedIsSteady
<1>6. /\ rec.min  = IF IsNumber(c.xmin) /\ ~IsNumber(c.min) THEN c.xmin ELSE c.min
      /\ rec.xmin = IF IsNumber(c.xmin) /\ ~IsNumber(c.min) THEN Flag(TRUE) ELSE c.xmin
      /\ rec.max  = IF IsNumber(c.xmax) /\ ~IsNumber(c.max) THEN c.xmax ELSE c.max
      /\ rec.xmax = IF IsNumber(c.xmax) /\ ~IsNumber(c.max) THEN Flag(TRUE) ELSE c.xmax
  <2>1. SameBounds(rec, RewriteExclusive(c))
    BY DEF NewBounds, c
  <2> QED BY <1>4, <2>1 DEF SameBounds, RewriteExclusive, Bare
<1>7. ~IsNumber(Flag(TRUE))
  BY DEF IsNumber, Flag
<1>8. /\ Steady(rec.min) /\ Steady(rec.max)
      /\ IsNumber(rec.xmin) => IsNumber(rec.min)
      /\ IsNumber(rec.xmax) => IsNumber(rec.max)
  BY <1>3, <1>4, <1>5, <1>6, <1>7
<1> QED BY <1>8, MovedStays

LEMMA InjectSettles ==
    ASSUME NEW t \in Texts
    PROVE  LET f == InjectSchemas(ClampIntegers(t))
           IN  /\ DOMAIN f \subseteq DOMAIN t.doc \cup {Fallback}
               /\ \A n \in DOMAIN f : f[n].boolItems \in BOOLEAN
               /\ Fallback \in DOMAIN f => Shared(f[Fallback])
<1> DEFINE c == ClampIntegers(t)
           entry == [key |-> "schema", node |-> Fallback]
<1>1. Whole(c) /\ DOMAIN c = DOMAIN t.doc /\ Fallback \notin DOMAIN c
  BY TextIsWhole
<1>2. ASSUME NEW n \in DOMAIN c PROVE c[n].boolItems \in BOOLEAN
  <2>1. t.doc[n] \in NodeOf(DOMAIN t.doc)
    BY <1>1, TextsAssumption
  <2>2. DOMAIN t.doc[n] = DOMAIN Bare /\ t.doc[n].boolItems \in BOOLEAN
    BY <2>1 DEF NodeOf, Bare
  <2>3. c[n].boolItems = t.doc[n].boolItems
    BY <1>1, <2>2 DEF ClampIntegers, Bare
  <2> QED BY <2>2, <2>3
<1> HIDE DEF c
<1>3. PICK lacking : InjectSchemas(c) = GiveSchema(c, lacking)
  BY DEF InjectSchemas
<1> DEFINE f == GiveSchema(c, lacking)
<1>4. /\ DOMAIN f \subseteq DOMAIN c \cup {Fallback}
      /\ \A n \in DOMAIN c : f[n] = IF n \in lacking THEN [c[n] EXCEPT !.kids = Append(@, entry)]
                                    ELSE c[n]
      /\ Fallback \in DOMAIN f =>
            f[Fallback] = [Bare EXCEPT !.role = "schema", !.type = <<"string">>]
  BY <1>1 DEF GiveSchema
<1> HIDE DEF f
<1>5. Fallback \in DOMAIN f => Shared(f[Fallback])
  BY <1>4 DEF Shared, Bare
<1>6. ASSUME NEW n \in DOMAIN c PROVE f[n].boolItems = c[n].boolItems
  <2> DEFINE kids == Append(c[n].kids, entry)
  <2>1. DOMAIN c[n] = DOMAIN Bare
    BY <1>1 DEF Whole
  <2>2. f[n] = [c[n] EXCEPT !.kids = kids] \/ f[n] = c[n]
    BY <1>4
  <2> HIDE DEF kids
  <2> QED BY <2>1, <2>2 DEF Bare
<1>7. \A n \in DOMAIN f : f[n].boolItems \in BOOLEAN
  BY <1>2, <1>4, <1>5, <1>6 DEF Shared
<1> QED BY <1>1, <1>3, <1>4, <1>5, <1>7 DEF f, c

\* Inlining moves the ends of entries and leaves their keys.
LEMMA InlineSettles ==
    ASSUME NEW t, NEW d, Whole(d), Settled(t, d), NEW b, Whole(b), Settled(t, b),
           DOMAIN b = DOMAIN d, NEW m
    PROVE  Settled(t, [d EXCEPT ![m] = InlineEntries(b, m)])
<1> DEFINE e == [d EXCEPT ![m] = InlineEntries(b, m)]
<1>1. /\ DOMAIN e = DOMAIN d
      /\ \A n \in DOMAIN d : e[n] = IF n = m THEN InlineEntries(b, m) ELSE d[n]
  OBVIOUS
<1> HIDE DEF e
<1>2. ASSUME m \in DOMAIN b
      PROVE  /\ Done(InlineEntries(b, m))
             /\ Shared(b[m]) => Shared(InlineEntries(b, m))
  <2> DEFINE kids == [i \in DOMAIN b[m].kids |-> Inlined(b, b[m].kids[i])]
             new == [b[m] EXCEPT !.kids = kids]
  <2>1. Done(b[m]) /\ b[m].kids \in Seq(Nodes(b)) /\ DOMAIN b[m] = DOMAIN Bare
    BY <1>2 DEF Settled, Whole
  <2>2. ASSUME NEW i \in DOMAIN b[m].kids PROVE kids[i].key = b[m].kids[i].key
    <3>1. b[m].kids[i] \in Nodes(b)
      BY <2>1
    <3> QED BY <3>1 DEF Inlined, Nodes
  <2>3. DOMAIN kids = DOMAIN b[m].kids
    OBVIOUS
  <2>4. b[m].kids = << >> => kids = << >>
    OBVIOUS
  <2> HIDE DEF kids
  <2>5. /\ DOMAIN new = DOMAIN Bare /\ new.kids = kids /\ new.type = b[m].type
        /\ new.boolItems = b[m].boolItems /\ SameBounds(new, b[m])
        /\ new.role = b[m].role /\ new.ref = b[m].ref /\ new.alone = b[m].alone
        /\ new.nullable = b[m].nullable /\ new.opid = b[m].opid
    BY <2>1 DEF Bare, SameBounds
  <2>6. InlineEntries(b, m) = new
    BY DEF InlineEntries, kids
  <2> HIDE DEF new
  <2>7. Done(new)
    BY <2>1, <2>2, <2>3, <2>5 DEF Done
  <2>8. Shared(b[m]) => Shared(new)
    BY <2>4, <2>5 DEF Shared, SameBounds
  <2> QED BY <2>6, <2>7, <2>8
<1>3. \A n \in DOMAIN e : Done(e[n])
  BY <1>1, <1>2 DEF Settled
<1>4. Fallback \in DOMAIN e => Shared(e[Fallback])
  BY <1>1, <1>2 DEF Settled
<1> QED BY <1>1, <1>3, <1>4 DEF Settled, e

LEMMA RewrittenSettles ==
    ASSUME NEW t \in Texts
    PROVE  Settled(t, InlinePaths(RewriteNodes(InjectSchemas(ClampIntegers(t)))))
<1> DEFINE c == ClampIntegers(t)
           f == InjectSchemas(c)
           r == RewriteNodes(f)
<1>1. Whole(c) /\ Fallback \notin DOMAIN c
  BY TextIsWhole
<1>2. /\ DOMAIN f \subseteq DOMAIN t.doc \cup {Fallback}
      /\ \A n \in DOMAIN f : f[n].boolItems \in BOOLEAN
      /\ Fallback \in DOMAIN f => Shared(f[Fallback])
  BY InjectSettles
<1> HIDE DEF c
<1>3. Whole(f)
  BY <1>1, InjectKeeps
<1> HIDE DEF f
<1>4. Whole(r) /\ DOMAIN r = DOMAIN f /\ \A n \in DOMAIN f : r[n] = RewriteNode(f, n)
  BY <1>3, RewriteNodesKeeps DEF RewriteNodes
<1> HIDE DEF r
<1>5. \A n \in DOMAIN f : DOMAIN f[n] = DOMAIN Bare
  BY <1>3 DEF Whole
<1>6. Settled(t, r)
  <2>1. \A n \in DOMAIN r : Done(r[n])
    BY <1>2, <1>4, <1>5, NodeIsDone
  <2>2. Fallback \in DOMAIN r => Shared(r[Fallback])
    BY <1>2, <1>4, <1>5, SharedIsKept
  <2> QED BY <1>2, <1>4, <2>1, <2>2 DEF Settled
<1>7. Settled(t, InlinePaths(r))
  BY <1>4, <1>6, InlineSettles DEF InlinePaths
<1> QED BY <1>7 DEF c, f, r

\* What load_spec accepts has been through all passes, and the parser took it.
AgainInv ==
    /\ pc = "callbacks" => Settled(text, doc) /\ Settled(text, before)
    /\ Accepted => Settled(text, doc) /\ Deserialises(doc)

LEMMA AgainInit == Init => AgainInv
  BY DEF Init, AgainInv, Accepted

LEMMA AgainNormalise == ASSUME IInv, Normalise PROVE AgainInv'
<1>1. CASE ~Parses(ClampIntegers(text))
  <2>1. pc' = "done" /\ verdict' = "parse"
    BY <1>1 DEF Normalise, Fail
  <2> QED BY <2>1 DEF AgainInv, Accepted
<1>2. CASE Parses(ClampIntegers(text))
  <2>1. text \in Texts /\ verdict = "none"
    BY DEF IInv, Given, TypeOK, Normalise, Unsupported
  <2>2. /\ doc' = InlinePaths(RewriteNodes(InjectSchemas(ClampIntegers(text))))
        /\ before' = doc' /\ pc' = "callbacks" /\ text' = text /\ verdict' = verdict
    BY <1>2 DEF Normalise
  <2>3. Settled(text, doc')
    BY <2>1, <2>2, RewrittenSettles
  <2> QED BY <2>1, <2>2, <2>3 DEF AgainInv, Accepted
<1> QED BY <1>1, <1>2

LEMMA AgainCallbacks == ASSUME IInv, DocInv, AgainInv, WalkCallbacks PROVE AgainInv'
<1>1. /\ Whole(doc) /\ Whole(before) /\ DOMAIN before = DOMAIN doc
      /\ Settled(text, doc) /\ Settled(text, before) /\ verdict = "none"
  BY DEF WalkCallbacks, DocInv, AgainInv, IInv, TypeOK
<1>2. PICK m : doc' \in {doc, [doc EXCEPT ![m] = InlineEntries(before, m)]}
  BY DEF WalkCallbacks
<1>3. Settled(text, doc')
  BY <1>1, <1>2, InlineSettles
<1>4. UNCHANGED <<text, before, pc, verdict>>
  BY DEF WalkCallbacks
<1> QED BY <1>1, <1>3, <1>4 DEF AgainInv, Accepted

LEMMA AgainCheck == ASSUME AgainInv, Check PROVE AgainInv'
<1>1. /\ pc = "callbacks" /\ pc' = "done" /\ UNCHANGED <<text, doc, source>>
      /\ verdict' = "ok" => Deserialises(doc)
  BY DEF Check
<1>2. Deserialises(doc) => Deserialises(doc')
  BY <1>1 DEF Deserialises
<1> QED BY <1>1, <1>2 DEF AgainInv, Accepted

LEMMA AgainNext == IInv /\ IInv' /\ DocInv /\ AgainInv /\ [Next]_vars => AgainInv'
<1> SUFFICES ASSUME IInv, IInv', DocInv, AgainInv, [Next]_vars PROVE AgainInv'
  OBVIOUS
<1>1. pc # "done" <=> verdict = "none"
  BY DEF IInv, TypeOK
<1>2. CASE TakeInline \/ Stat \/ Read \/ RejectOversized \/ RejectVersion \/ Overflow \/ ParseTree
  <2>1. /\ pc # "done" /\ pc' \in {"start", "read", "oversized", "parse", "done", "inline", "crashed"}
        /\ verdict' \in {verdict, "io", "parse"}
    BY <1>2 DEF TakeInline, Stat, Read, RejectOversized, RejectVersion, Overflow, ParseTree, Fail
  <2> QED BY <1>1, <2>1 DEF AgainInv, Accepted
<1>3. CASE Normalise \/ WalkCallbacks \/ Check
  BY <1>3, AgainNormalise, AgainCallbacks, AgainCheck
<1>4. CASE FinishRemote
  <2>1. pc = "inline" /\ pc' = "done" /\ source' = source
    BY <1>4 DEF FinishRemote
  <2>2. source.entry = "remote"
    BY <2>1 DEF DocInv
  <2> QED BY <2>1, <2>2 DEF AgainInv, Accepted
<1>5. CASE UseCached \/ Fetch \/ SkipRemote \/ WalkLocal
  <2>1. pc = "inline" /\ UNCHANGED <<verdict, pc>>
    BY <1>5 DEF UseCached, Fetch, FetchBody, FetchFails, RefuseUrl, SkipRemote, WalkLocal, AtRemote
  <2> QED BY <1>1, <2>1 DEF AgainInv, Accepted
<1>6. CASE Edit \/ UNCHANGED vars
  <2>1. UNCHANGED <<source, text, before, verdict, pc, doc>>
    BY <1>6 DEF Edit, vars
  <2>2. Deserialises(doc) <=> Deserialises(doc')
    BY <2>1 DEF Deserialises
  <2> QED BY <2>1, <2>2 DEF AgainInv, Accepted
<1> QED BY <1>2, <1>3, <1>4, <1>5, <1>6 DEF Next, Step

LEMMA AgainHolds == Spec => []AgainInv
  BY InvHolds, DocHolds, AgainInit, AgainNext, PTL DEF Spec

\* Where headers are looked for is in the tree.
LEMMA HeadersAreReached ==
    ASSUME NEW d, Whole(d)
    PROVE  HeaderPlaces(d) \subseteq Reach(d)
<1> DEFINE R == Reach(d)
<1>1. R \in SUBSET DOMAIN d /\ \A n \in R : Children(d, n) \subseteq R
  BY ReachIsClosed DEF Closed
<1> HIDE DEF R
<1>2. ASSUME NEW ns \in SUBSET R, NEW key
      PROVE  Under(d, ns, key) \in SUBSET R
  <2>1. Under(d, ns, key) \subseteq UNION {Children(d, n) : n \in ns}
    BY <1>1, UnderIsBelow
  <2> QED BY <1>1, <2>1
<1>3. ASSUME NEW ns \in SUBSET R PROVE Entries(d, ns) \in SUBSET R
  BY <1>1 DEF Entries
<1> DEFINE a == Under(d, R \ {Root}, "responses")
           b == Entries(d, a)
           c == Under(d, b, "headers")
<1>4. a \in SUBSET R
  BY <1>2
<1> HIDE DEF a
<1>5. b \in SUBSET R
  BY <1>3, <1>4
<1> HIDE DEF b
<1>6. c \in SUBSET R
  BY <1>2, <1>5
<1> HIDE DEF c
<1>7. Entries(d, c) \in SUBSET R
  BY <1>3, <1>6
<1> QED BY <1>7 DEF HeaderPlaces, a, b, c, R

\* Where headers are headers for the parser as well none of them is without a schema, and
\* nothing is filled in.
LEMMA NothingFilledIn ==
    ASSUME NEW t, NEW d, Whole(d), Settled(t, d), Deserialises(d), HeadersAreHeaders(d)
    PROVE  /\ DOMAIN InjectSchemas(d) = DOMAIN d
           /\ \A n \in DOMAIN d : n # Fallback => InjectSchemas(d)[n] = d[n]
           /\ Fallback \in DOMAIN d => /\ DOMAIN InjectSchemas(d)[Fallback] = DOMAIN Bare
                                       /\ Shared(InjectSchemas(d)[Fallback])
<1> DEFINE lacking == {n \in HeaderPlaces(d) :
                          /\ d[n].ref = << >>
                          /\ Keys(d, n) \cap {"schema", "content"} = {}}
<1>1. lacking = {}
  <2> SUFFICES ASSUME NEW n \in HeaderPlaces(d), d[n].ref = << >>
               PROVE  Keys(d, n) \cap {"schema", "content"} # {}
    OBVIOUS
  <2>1. WellFormed(d[n]) /\ d[n].role = "header"
    BY HeadersAreReached DEF Deserialises, HeadersAreHeaders
  <2>2. \E k \in Range(d[n].kids) : k.key \in {"schema", "content"}
    BY <2>1 DEF WellFormed
  <2> QED BY <2>2 DEF Keys, KidSet
<1>2. InjectSchemas(d) = GiveSchema(d, lacking)
  BY DEF InjectSchemas
<1> HIDE DEF lacking
<1> DEFINE e == GiveSchema(d, lacking)
<1>3. /\ DOMAIN e = DOMAIN d
      /\ \A n \in DOMAIN d : n # Fallback => e[n] = d[n]
      /\ Fallback \in DOMAIN d =>
            e[Fallback] = [Bare EXCEPT !.role = "schema", !.type = <<"string">>]
  BY <1>1 DEF GiveSchema
<1> HIDE DEF e
<1>4. Fallback \in DOMAIN d => DOMAIN e[Fallback] = DOMAIN Bare /\ Shared(e[Fallback])
  BY <1>3 DEF Shared, Bare
<1> QED BY <1>2, <1>3, <1>4 DEF e

\* Two nodes that differ at most in how numbers are written.
Alike(a, b) == DOMAIN a = DOMAIN Bare /\ DOMAIN b = DOMAIN Bare /\ SameRest(a, b) /\ SamePlain(a, b)

LEMMA AlikeIsPlain ==
    ASSUME NEW a, NEW b, Alike(a, b)
    PROVE  [a EXCEPT !.min = Plain(@), !.max = Plain(@)] = [b EXCEPT !.min = Plain(@), !.max = Plain(@)]
<1> DEFINE x == [a EXCEPT !.min = Plain(@), !.max = Plain(@)]
           y == [b EXCEPT !.min = Plain(@), !.max = Plain(@)]
           Fields == DOMAIN Bare
<1>1. /\ x = [k \in Fields |-> IF k \in {"min", "max"} THEN Plain(a[k]) ELSE a[k]]
      /\ y = [k \in Fields |-> IF k \in {"min", "max"} THEN Plain(b[k]) ELSE b[k]]
  BY DEF Alike, Bare
<1>2. \A k \in Fields : k \in {"min", "max"} => Plain(a[k]) = Plain(b[k])
  BY DEF Alike, SamePlain
<1>3. \A k \in Fields : k \notin {"min", "max"} => a[k] = b[k]
  BY DEF Alike, SamePlain, SameRest, Bare
<1> HIDE DEF x, y, Fields
<1>4. x = y
  BY <1>1, <1>2, <1>3
<1> QED BY <1>4 DEF x, y

\* A node is rewritten into what it is.
LEMMA SettledIsKept ==
    ASSUME NEW t \in Texts, \A n \in DOMAIN t.doc : Tame(t.doc[n]),
           NEW d, Whole(d), Settled(t, d), KeepsBounds(Intended(t), d),
           NEW e, NEW n \in DOMAIN d, n \in DOMAIN e,
           IF n = Fallback THEN DOMAIN e[n] = DOMAIN Bare /\ Shared(e[n]) ELSE e[n] = d[n]
    PROVE  Alike(RewriteNode(e, n), d[n])
<1>0. DOMAIN d[n] = DOMAIN Bare /\ Done(d[n])
  BY DEF Whole, Settled
<1>1. CASE n = Fallback
  <2>1. Shared(d[n]) /\ Shared(RewriteNode(e, n)) /\ Done(e[n])
    <3>1. ~NullPair(e[n].type)
      BY <1>1, NotPaired DEF Shared
    <3> QED BY <1>1, <3>1, SharedIsKept DEF Settled, Done, Shared
  <2>2. DOMAIN RewriteNode(e, n) = DOMAIN Bare
    BY <2>1, DoneIsKept
  <2> QED BY <1>0, <2>1, <2>2 DEF Shared, Alike, SameRest, SamePlain
<1>2. CASE n # Fallback
  <2>1. e[n] = d[n] /\ n \in DOMAIN t.doc
    BY <1>2 DEF Settled
  <2>2. DOMAIN RewriteNode(e, n) = DOMAIN Bare /\ SameRest(RewriteNode(e, n), d[n])
    BY <1>0, <2>1, DoneIsKept
  <2>3. SameBounds(d[n], NewBounds(ClampIntegers(t)[n]))
    BY <2>1 DEF KeepsBounds, Intended
  <2>4. SamePlain(NewBounds(d[n]), d[n])
    BY <1>0, <2>1, <2>3, TameStays
  <2>5. SameBounds(RewriteNode(e, n), NewBounds(d[n]))
    <3> DEFINE a == DropItems(e, n)
               b == RewriteNullable(a)
    <3>1. DOMAIN a = DOMAIN Bare /\ SameBounds(a, d[n])
      BY <1>0, <2>1 DEF DropItems, Bare, SameBounds
    <3> HIDE DEF a
    <3>2. DOMAIN b = DOMAIN Bare /\ SameBounds(b, d[n])
      BY <3>1, NullableIsDone DEF SameBounds
    <3> HIDE DEF b
    <3>3. SameBounds(NewBounds(b), NewBounds(d[n]))
      BY <1>0, <3>2, NewBoundsAgree
    <3> QED BY <3>3 DEF RewriteNode, NewBounds, a, b
  <2>6. SamePlain(RewriteNode(e, n), d[n])
    BY <2>4, <2>5 DEF SamePlain, SameBounds
  <2> QED BY <1>0, <2>2, <2>6 DEF Alike
<1> QED BY <1>1, <1>2

\* And no path is inlined, where none is a reference any more.
LEMMA PathsStay ==
    ASSUME NEW d, Whole(d), NEW r, DOMAIN r = DOMAIN d, \A n \in DOMAIN d : Alike(r[n], d[n]),
           \A n \in Entries(d, Under(d, {Root}, "paths")) : d[n].ref = << >>
    PROVE  DOMAIN InlinePaths(r) = DOMAIN d /\ \A n \in DOMAIN d : Alike(InlinePaths(r)[n], d[n])
<1> DEFINE p == Kid(r, Root, "paths")
<1>1. p = Kid(d, Root, "paths")
  <2>1. r[Root].kids = d[Root].kids
    BY DEF Whole, Alike, SameRest
  <2> QED BY <2>1 DEF Kid, Keys, KidSet
<1>2. InlinePaths(r) = IF p = NoNode THEN r ELSE [r EXCEPT ![p] = InlineEntries(r, p)]
  BY DEF InlinePaths
<1>3. CASE p = NoNode
  BY <1>2, <1>3
<1>4. CASE p # NoNode
  <2>1. p \in DOMAIN d /\ p \in Under(d, {Root}, "paths")
    <3>1. p \in Under(d, {Root}, "paths")
      BY <1>1, <1>4 DEF Under
    <3> QED BY <3>1, UnderIsBelow DEF Whole
  <2>2. r[p].kids = d[p].kids /\ d[p].kids \in Seq(Nodes(d)) /\ DOMAIN r[p] = DOMAIN Bare
    BY <2>1 DEF Alike, SameRest, Whole
  <2> DEFINE kids == [i \in DOMAIN r[p].kids |-> Inlined(r, r[p].kids[i])]
  <2>3. ASSUME NEW i \in DOMAIN d[p].kids PROVE Inlined(r, d[p].kids[i]) = d[p].kids[i]
    <3> DEFINE k == d[p].kids[i]
    <3>1. k \in Nodes(d)
      BY <2>2
    <3>2. k.node \in Entries(d, Under(d, {Root}, "paths"))
      <4>1. k \in KidSet(d, p)
        BY DEF KidSet, Range
      <4>2. k.node \in Children(d, p)
        BY <4>1 DEF Children
      <4> QED BY <2>1, <4>2 DEF Entries
    <3>3. k.node \in DOMAIN d
      BY <3>1 DEF Nodes
    <3>4. r[k.node].ref = << >>
      BY <3>2, <3>3 DEF Alike, SameRest
    <3> QED BY <3>4 DEF Inlined
  <2>4. kids = d[p].kids
    BY <2>2, <2>3
  <2> HIDE DEF kids
  <2>5. InlineEntries(r, p) = [r[p] EXCEPT !.kids = kids]
    BY DEF InlineEntries, kids
  <2>6. Alike(InlineEntries(r, p), r[p])
    BY <2>2, <2>4, <2>5 DEF Alike, SameRest, SamePlain, Bare
  <2>7. Alike(InlineEntries(r, p), d[p])
    <3>1. Alike(r[p], d[p])
      BY <2>1
    <3> QED BY <2>6, <3>1 DEF Alike, SameRest, SamePlain
  <2> QED BY <1>2, <1>4, <2>1, <2>7
<1> QED BY <1>3, <1>4

-----------------------------------------------------------------------------
\* The variables of a load keep their types, and the walks stay within the document.
THEOREM TypeCorrect == Spec => []TypeOK
<1>1. IInv => TypeOK
  BY DEF IInv
<1> QED
  BY <1>1, InvHolds, PTL

\* What load_spec judges is never longer than MAX_SPEC_BYTES, however often the file changes
\* between the look at its length and the reading.
THEOREM NothingOversizedHolds == Spec => []NothingOversized
<1>1. IInv => NothingOversized
  BY DEF IInv
<1> QED
  BY <1>1, InvHolds, PTL

\* All places of a URL that fetch_remote_ref filled hold one body, whatever the network says
\* from one time to the next.
THEOREM SameUrlSameBodyHolds == Spec => []SameUrlSameBody
<1>1. IInv => SameUrlSameBody
  BY DEF IInv, CacheInv, SameUrlSameBody
<1> QED
  BY <1>1, InvHolds, PTL

\* The wall clock of fetch_remote_ref is overdrawn by one fetch at most, however long its body
\* takes, and the number of bodies not at all, for every number of references and failures.
THEOREM BudgetsAreKept == Spec => []BudgetsHold
<1>1. IInv => BudgetsHold
  BY DEF IInv
<1> QED
  BY <1>1, InvHolds, PTL

\* The bounds of an accepted schema admit what those of the text admitted, for every document,
\* every bound without a fraction and every width of the integers: the clamp on the text, the
\* coercion of fractions and the move of exclusive bounds (normalize_oas31_nullable) fit
\* together, and inlining paths and callbacks does not mix up whose bounds are whose.
THEOREM BoundsKeepTheirMeaningHolds == Spec => []BoundsKeepTheirMeaning
<1>1. DocInv => BoundsKeepTheirMeaning
  <2> SUFFICES ASSUME DocInv, Accepted, NEW n \in DOMAIN text.doc, Tame(text.doc[n]),
                      NEW x \in -2 * MaxI64 .. 2 * MaxI64 - 1
               PROVE  /\ AboveMin(x, text.doc[n]) <=> AboveMin(x, doc[n])
                      /\ BelowMax(x, text.doc[n]) <=> BelowMax(x, doc[n])
    BY DEF BoundsKeepTheirMeaning
  <2>1. text \in Texts /\ KeepsBounds(Intended(text), doc)
    BY DEF DocInv
  <2>2. SameBounds(doc[n], NewBounds(ClampIntegers(text)[n]))
    BY <2>1 DEF KeepsBounds, Intended
  <2> QED BY <2>1, <2>2, TameBoundsMean
<1> QED
  BY <1>1, DocHolds, PTL

\* An accepted reference to a component leads to a node of the tree, for every document and
\* however many nodes inlining and filling in have moved (check_dangling_refs).
THEOREM AcceptedRefsResolveHolds == Spec => []AcceptedRefsResolve
<1>1. DocInv => AcceptedRefsResolve
  <2> SUFFICES ASSUME DocInv, Accepted, NEW n \in Reach(doc),
                      Len(doc[n].ref) > 3, doc[n].ref[1] = "#", doc[n].ref[2] = "components",
                      doc[n].ref[3] \in Bags
               PROVE  Resolve(doc, doc[n].ref) \in Reach(doc)
    BY DEF AcceptedRefsResolve
  <2>1. Whole(doc) /\ SoundSemantics(doc)
    BY DEF DocInv
  <2>2. doc[n].ref \in Seq(STRING)
    BY <2>1, ReachIsClosed DEF Whole
  <2>3. Resolve(doc, doc[n].ref) # NoNode
    BY <2>1 DEF SoundSemantics, Dangling
  <2> QED BY <2>1, <2>2, <2>3, ResolvedIsReached
<1> QED
  BY <1>1, DocHolds, PTL

\* What load_spec accepts and /openapi.json shows stays what it is when it is rewritten once
\* more, for every document whose places of headers hold headers and every width of the
\* integers: no pass of normalize_oas31_nullable undoes or repeats what another one did.
THEOREM SecondLoadChangesNothing == Spec => []AgainTheSame
<1>1. DocInv /\ AgainInv => AgainTheSame
  <2> SUFFICES ASSUME DocInv, AgainInv, HeadersAreHeaders(doc), Accepted,
                      \A n \in DOMAIN text.doc : Tame(text.doc[n]),
                      \A n \in Entries(doc, Under(doc, {Root}, "paths")) : doc[n].ref = << >>
               PROVE  PlainBounds(Rewritten(doc)) = PlainBounds(doc)
    BY DEF AgainTheSame
  <2>1. /\ text \in Texts /\ Whole(doc) /\ KeepsBounds(Intended(text), doc)
        /\ Settled(text, doc) /\ Deserialises(doc)
    BY DEF DocInv, AgainInv
  <2> DEFINE e == InjectSchemas(doc)
             r == RewriteNodes(e)
             new == InlinePaths(r)
  <2>2. /\ DOMAIN e = DOMAIN doc
        /\ \A n \in DOMAIN doc :
              IF n = Fallback THEN DOMAIN e[n] = DOMAIN Bare /\ Shared(e[n]) ELSE e[n] = doc[n]
    BY <2>1, NothingFilledIn
  <2> HIDE DEF e
  <2>3. DOMAIN r = DOMAIN doc /\ \A n \in DOMAIN doc : Alike(r[n], doc[n])
    BY <2>1, <2>2, SettledIsKept DEF RewriteNodes
  <2> HIDE DEF r
  <2>4. DOMAIN new = DOMAIN doc /\ \A n \in DOMAIN doc : Alike(new[n], doc[n])
    BY <2>1, <2>3, PathsStay
  <2> HIDE DEF new
  <2>5. PlainBounds(new) = PlainBounds(doc)
    BY <2>4, AlikeIsPlain DEF PlainBounds
  <2> QED BY <2>5 DEF Rewritten, e, r, new
<1> QED
  BY <1>1, AgainHolds, DocHolds, PTL

=============================================================================
