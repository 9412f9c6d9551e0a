------------------------ MODULE LazyEvaluationProofs ------------------------
(***************************************************************************)
(* Proofs about value expressions and their lazy evaluation, for any       *)
(* steps, any set of expressions of any depth and any outcomes.            *)
(*                                                                         *)
(* The definitions of ValueExpr are recursive.  RecursionHasSolution shows *)
(* that such a definition satisfies its equation when what it says of an   *)
(* argument rests on smaller ones; ExprInduction is induction over the     *)
(* parts of expressions.  Both follow from the least number principle.     *)
(***************************************************************************)
EXTENDS LazyEvaluation, TLAPS, WellFoundedInduction, FiniteSetTheorems

LEMMA LeastNumber ==
    ASSUME NEW T, T \subseteq Nat, T # {}
    PROVE  \E m \in T : \A n \in T : m <= n
<1>1. PICK m \in T : \A y \in T : <<y, m>> \notin OpToRel(<, Nat)
  BY NatLessThanWellFounded, WFMin
<1>2. ASSUME NEW n \in T PROVE m <= n
  <2>1. m \in Nat /\ n \in Nat
    OBVIOUS
  <2>2. n < m => <<n, m>> \in OpToRel(<, Nat)
    BY <2>1 DEF OpToRel
  <2>3. ~(n < m)
    BY <1>1, <2>2, Zenon
  <2> QED BY <2>1, <2>3
<1> QED BY <1>2

(* F gives, for a candidate f, what the right-hand side of a recursive     *)
(* equation says at each argument; that depends on f at smaller arguments. *)
RecursesOnSmaller(S, V, size, F) ==
    /\ V # {} /\ size \in [S -> Nat] /\ F \in [[S -> V] -> [S -> V]]
    /\ \A f, g \in [S -> V], x \in S :
          (\A y \in S : size[y] < size[x] => f[y] = g[y]) => F[f][x] = F[g][x]

LEMMA RecursionHasSolution ==
    ASSUME NEW S, NEW V, NEW size, NEW F, RecursesOnSmaller(S, V, size, F)
    PROVE  \E f \in [S -> V] : f = F[f]
<1>0. /\ V # {} /\ size \in [S -> Nat] /\ F \in [[S -> V] -> [S -> V]]
      /\ \A f, g \in [S -> V], x \in S :
            (\A y \in S : size[y] < size[x] => f[y] = g[y]) => F[f][x] = F[g][x]
  BY DEF RecursesOnSmaller
<1> USE <1>0
<1> DEFINE Solves(f, n) == \A x \in S : size[x] < n => f[x] = F[f][x]
           Unsolved == {n \in Nat : ~ \E f \in [S -> V] : Solves(f, n)}
           Agree(f, g, n) == \A x \in S : size[x] < n => f[x] = g[x]
<1>1. Unsolved = {}
  <2> SUFFICES ASSUME Unsolved # {} PROVE FALSE
    OBVIOUS
  <2>1. PICK n \in Unsolved : \A m \in Unsolved : n <= m
    <3> Unsolved \subseteq Nat
      OBVIOUS
    <3> HIDE DEF Unsolved
    <3> QED BY LeastNumber
  <2>2. \E f \in [S -> V] : Solves(f, 0)
    <3>1. PICK v \in V : TRUE
      OBVIOUS
    <3>2. [x \in S |-> v] \in [S -> V] /\ Solves([x \in S |-> v], 0)
      OBVIOUS
    <3> QED BY <3>2
  <2>3. n # 0 /\ n - 1 \in Nat /\ n - 1 \notin Unsolved
    <3>1. n \in Nat /\ n # 0
      BY <2>2, Zenon
    <3> HIDE DEF Unsolved
    <3> QED BY <2>1, <3>1
  <2>4. PICK f \in [S -> V] : Solves(f, n - 1)
    BY <2>3
  <2>5. F[f] \in [S -> V]
    OBVIOUS
  <2>6. Solves(F[f], n)
    <3> SUFFICES ASSUME NEW x \in S, size[x] < n PROVE F[f][x] = F[F[f]][x]
      OBVIOUS
    <3>1. \A y \in S : size[y] < size[x] => f[y] = F[f][y]
      BY <2>3, <2>4
    <3> QED BY <2>5, <3>1
  <2> QED BY <2>1, <2>5, <2>6
<1>2. \A n \in Nat : \A f, g \in [S -> V] : Solves(f, n) /\ Solves(g, n) => Agree(f, g, n)
  <2> SUFFICES ASSUME NEW n \in Nat, NEW f \in [S -> V], NEW g \in [S -> V],
                      Solves(f, n), Solves(g, n),
                      NEW x0 \in S, size[x0] < n, f[x0] # g[x0]
               PROVE  FALSE
    OBVIOUS
  <2> DEFINE Bad == {k \in Nat : \E y \in S : size[y] = k /\ k < n /\ f[y] # g[y]}
  <2>1. Bad \subseteq Nat /\ size[x0] \in Bad
    OBVIOUS
  <2>2. PICK m \in Bad : \A k \in Bad : m <= k
    <3> HIDE DEF Bad
    <3> QED BY <2>1, LeastNumber
  <2>3. PICK x \in S : size[x] = m /\ size[x] < n /\ f[x] # g[x]
    OBVIOUS
  <2>4. ASSUME NEW y \in S, size[y] < size[x] PROVE f[y] = g[y]
    <3>1. size[y] \in Nat /\ size[x] \in Nat
      OBVIOUS
    <3>2. size[y] \notin Bad
      <4> HIDE DEF Bad
      <4> QED BY <2>1, <2>2, <2>3, <2>4, <3>1
    <3> QED BY <2>3, <2>4, <3>1, <3>2
  <2>5. F[f][x] = F[g][x]
    BY <2>4
  <2> QED BY <2>3, <2>5
<1> DEFINE G == [n \in Nat |-> CHOOSE f \in [S -> V] : Solves(f, n)]
           h == [x \in S |-> G[size[x] + 1][x]]
<1>3. \A n \in Nat : G[n] \in [S -> V] /\ Solves(G[n], n)
  <2> SUFFICES ASSUME NEW n \in Nat PROVE G[n] \in [S -> V] /\ Solves(G[n], n)
    OBVIOUS
  <2>1. \E f \in [S -> V] : Solves(f, n)
    BY <1>1
  <2>2. G[n] = CHOOSE f \in [S -> V] : Solves(f, n)
    OBVIOUS
  <2> HIDE DEF G, Solves
  <2> QED BY <2>1, <2>2
<1> HIDE DEF G
<1>4. h \in [S -> V]
  BY <1>3
<1>5. ASSUME NEW x \in S PROVE h[x] = F[h][x]
  <2> DEFINE n == size[x] + 1
  <2>1. n \in Nat /\ size[x] < n
    OBVIOUS
  <2>2. ASSUME NEW y \in S, size[y] < size[x] PROVE G[n][y] = h[y]
    <3> DEFINE k == size[y] + 1
    <3>1. k \in Nat /\ k <= n /\ size[y] < k
      BY <2>1, <2>2
    <3>2. Solves(G[n], k)
      BY <1>3, <2>1, <3>1
    <3>3. Agree(G[n], G[k], k)
      BY <1>2, <1>3, <2>1, <3>1, <3>2
    <3> QED BY <3>1, <3>3
  <2>3. G[n][x] = F[G[n]][x]
    BY <1>3, <2>1
  <2>4. F[G[n]][x] = F[h][x]
    <3>1. G[n] \in [S -> V]
      BY <1>3, <2>1
    <3>2. \A y \in S : size[y] < size[x] => G[n][y] = h[y]
      BY <2>2
    <3> HIDE DEF h, n
    <3> QED BY <1>4, <3>1, <3>2
  <2> QED BY <2>3, <2>4
<1> QED
  <2>1. F[h] \in [S -> V]
    BY <1>4
  <2> HIDE DEF h
  <2>2. h = F[h]
    BY <1>4, <1>5, <2>1
  <2> QED BY <1>4, <2>2

-----------------------------------------------------------------------------
(* Induction over the parts of expressions.                                *)
LEMMA ExprInduction ==
    ASSUME NEW Good, \A e \in Expr : Parts(e) \subseteq Good => e \in Good
    PROVE  Expr \subseteq Good
<1> SUFFICES ASSUME NEW e0 \in Expr, e0 \notin Good PROVE FALSE
  OBVIOUS
<1> DEFINE depths == {n \in Nat : \E e \in Expr : e.depth = n /\ e \notin Good}
<1>1. depths \subseteq Nat /\ e0.depth \in depths
  BY ExprsAssumption
<1>2. PICK m \in depths : \A n \in depths : m <= n
  <2> HIDE DEF depths
  <2> QED BY <1>1, LeastNumber
<1>3. PICK e \in Expr : e.depth = m /\ e \notin Good
  OBVIOUS
<1>4. PICK p \in Parts(e) : p \notin Good
  BY <1>3
<1>5. p \in Expr /\ p.depth \in Nat /\ p.depth < m
  BY <1>3, <1>4, ExprsAssumption
<1>6. p.depth \in depths
  BY <1>4, <1>5
<1> HIDE DEF depths
<1> QED BY <1>1, <1>2, <1>5, <1>6

(* What an expression is made of.                                          *)
LEMMA ExprCases ==
    ASSUME NEW e \in Expr
    PROVE  /\ e.op \in {"step", "input", "variable", "literal", "if", "coalesce", "array"}
           /\ e.op = "step" => e.step \in Step
           /\ e.op = "literal" => e.value \in Resolution
           /\ e.op = "variable" => /\ Parts(e) = {e.default} /\ e.default \in Expr
                                   /\ e.default.depth < e.depth
           /\ e.op = "if" => /\ Parts(e) = {e.condition, e.then, e.else_expr}
                             /\ {e.condition, e.then, e.else_expr} \subseteq Expr
                             /\ e.condition.depth < e.depth /\ e.then.depth < e.depth
                             /\ e.else_expr.depth < e.depth
           /\ e.op \in {"coalesce", "array"} =>
                /\ Parts(e) = {e.first, e.rest} /\ {e.first, e.rest} \subseteq Expr
                /\ e.first.depth < e.depth /\ e.rest.depth < e.depth
<1>1. /\ Parts(e) \subseteq Expr /\ \A p \in Parts(e) : p.depth < e.depth
      /\ e.op \in {"step", "input", "variable", "literal", "if", "coalesce", "array"}
      /\ e.op = "step" => e.step \in Step
      /\ e.op = "literal" => e.value \in Resolution
  BY ExprsAssumption
<1>2. /\ e.op = "variable" => Parts(e) = {e.default}
      /\ e.op = "if" => Parts(e) = {e.condition, e.then, e.else_expr}
      /\ e.op \in {"coalesce", "array"} => Parts(e) = {e.first, e.rest}
  BY DEF Parts
<1> QED BY <1>1, <1>2

(* The measure of every recursion.                                         *)
Depth == [e \in Expr |-> e.depth]

LEMMA DepthType == Depth \in [Expr -> Nat]
  BY ExprsAssumption DEF Depth

LEMMA ContextType ==
    ASSUME NEW ctx0 \in Contexts
    PROVE  /\ \A s \in Step : ctx0.results[s] \in Resolution \union {NoResult}
           /\ ctx0.input \in Resolution /\ ctx0.variable \in Resolution \union {Undefined}
  BY DEF Contexts

LEMMA ApplyPathType ==
    ASSUME NEW r \in Resolution, NEW path
    PROVE  ApplyPath(r, path) \in Resolution
  BY DEF ApplyPath, Resolution, Value, Failure

LEMMA ResolveFromType ==
    ASSUME NEW ctx0 \in Contexts, NEW g \in [Expr -> Resolution], NEW e \in Expr
    PROVE  ResolveFrom(g, e, ctx0) \in Resolution
<1>1. CASE e.op = "step"
  <2>1. ResolveFrom(g, e, ctx0) = IF IsCompleted(ctx0, e.step)
                                  THEN ApplyPath(ctx0.results[e.step], e.path)
                                  ELSE "step not completed"
    BY <1>1 DEF ResolveFrom
  <2>2. IsCompleted(ctx0, e.step) => ctx0.results[e.step] \in Resolution
    BY <1>1, ExprCases, ContextType DEF IsCompleted
  <2> QED BY <2>1, <2>2, ApplyPathType DEF Resolution, Failure
<1>2. CASE e.op \in {"input", "literal"}
  BY <1>2, ExprCases, ContextType DEF ResolveFrom
<1>3. CASE e.op = "variable"
  BY <1>3, ExprCases, ContextType DEF ResolveFrom
<1>4. CASE e.op = "if"
  BY <1>4, ExprCases DEF ResolveFrom
<1>5. CASE e.op \in {"coalesce", "array"}
  BY <1>5, ExprCases DEF ResolveFrom
<1> QED BY <1>1, <1>2, <1>3, <1>4, <1>5, ExprCases

(* Resolved satisfies its equation.                                        *)
LEMMA ResolvedUnfolds ==
    ASSUME NEW ctx0 \in Contexts
    PROVE  Resolved(ctx0) = [e \in Expr |-> ResolveFrom(Resolved(ctx0), e, ctx0)]
<1> DEFINE F == [g \in [Expr -> Resolution] |-> [e \in Expr |-> ResolveFrom(g, e, ctx0)]]
<1>1. F \in [[Expr -> Resolution] -> [Expr -> Resolution]]
  BY ResolveFromType
<1>2. ASSUME NEW f \in [Expr -> Resolution], NEW g \in [Expr -> Resolution], NEW e \in Expr,
             \A y \in Expr : Depth[y] < Depth[e] => f[y] = g[y]
      PROVE  F[f][e] = F[g][e]
  <2>1. \A y \in Expr : y.depth < e.depth => f[y] = g[y]
    BY <1>2 DEF Depth
  <2>2. ResolveFrom(f, e, ctx0) = ResolveFrom(g, e, ctx0)
    <3>1. CASE e.op \in {"step", "input", "literal"}
      BY <3>1 DEF ResolveFrom
    <3>2. CASE e.op = "variable"
      BY <2>1, <3>2, ExprCases DEF ResolveFrom
    <3>3. CASE e.op = "if"
      BY <2>1, <3>3, ExprCases DEF ResolveFrom
    <3>4. CASE e.op \in {"coalesce", "array"}
      BY <2>1, <3>4, ExprCases DEF ResolveFrom
    <3> QED BY <3>1, <3>2, <3>3, <3>4, ExprCases
  <2> QED BY <2>2
<1>3. PICK f \in [Expr -> Resolution] : f = F[f]
  <2>1. Resolution # {}
    BY DEF Resolution, Value
  <2> HIDE DEF F
  <2>2. \A f, g \in [Expr -> Resolution], x \in Expr :
          (\A y \in Expr : Depth[y] < Depth[x] => f[y] = g[y]) => F[f][x] = F[g][x]
    BY <1>2
  <2>3. RecursesOnSmaller(Expr, Resolution, Depth, F)
    BY <1>1, <2>1, <2>2, DepthType DEF RecursesOnSmaller
  <2> QED BY <2>3, RecursionHasSolution
<1>4. f = [e \in Expr |-> ResolveFrom(f, e, ctx0)]
  BY <1>3
<1> QED BY <1>4 DEF Resolved

(* What each expression resolves to, in terms of its parts.                *)
LEMMA ResolveEquation ==
    ASSUME NEW ctx0 \in Contexts, NEW e \in Expr
    PROVE  Resolve(e, ctx0) = ResolveFrom(Resolved(ctx0), e, ctx0)
<1>1. Resolved(ctx0)[e] = [x \in Expr |-> ResolveFrom(Resolved(ctx0), x, ctx0)][e]
  BY ResolvedUnfolds
<1> QED BY <1>1 DEF Resolve

LEMMA ResolveStep ==
    ASSUME NEW ctx0 \in Contexts, NEW e \in Expr, e.op = "step"
    PROVE  Resolve(e, ctx0) =
           IF IsCompleted(ctx0, e.step)
           THEN ApplyPath(ctx0.results[e.step], e.path) ELSE "step not completed"
BY ResolveEquation DEF ResolveFrom, Resolve

LEMMA ResolveInput ==
    ASSUME NEW ctx0 \in Contexts, NEW e \in Expr, e.op = "input"
    PROVE  Resolve(e, ctx0) = ctx0.input
BY ResolveEquation DEF ResolveFrom, Resolve

LEMMA ResolveVariable ==
    ASSUME NEW ctx0 \in Contexts, NEW e \in Expr, e.op = "variable"
    PROVE  Resolve(e, ctx0) =
           IF ctx0.variable # Undefined THEN ctx0.variable ELSE Resolve(e.default, ctx0)
BY ResolveEquation DEF ResolveFrom, Resolve

LEMMA ResolveLiteral ==
    ASSUME NEW ctx0 \in Contexts, NEW e \in Expr, e.op = "literal"
    PROVE  Resolve(e, ctx0) = e.value
BY ResolveEquation DEF ResolveFrom, Resolve

LEMMA ResolveIf ==
    ASSUME NEW ctx0 \in Contexts, NEW e \in Expr, e.op = "if"
    PROVE  Resolve(e, ctx0) =
           IF IsTruthy(Resolve(e.condition, ctx0))
           THEN Resolve(e.then, ctx0) ELSE Resolve(e.else_expr, ctx0)
BY ResolveEquation DEF ResolveFrom, Resolve

LEMMA ResolveCoalesce ==
    ASSUME NEW ctx0 \in Contexts, NEW e \in Expr, e.op = "coalesce"
    PROVE  Resolve(e, ctx0) =
           IF Resolve(e.first, ctx0) # "null"
           THEN Resolve(e.first, ctx0) ELSE Resolve(e.rest, ctx0)
BY ResolveEquation DEF ResolveFrom, Resolve

LEMMA ResolveArray ==
    ASSUME NEW ctx0 \in Contexts, NEW e \in Expr, e.op = "array"
    PROVE  Resolve(e, ctx0) =
           IF Resolve(e.first, ctx0) \in Failure
           THEN Resolve(e.first, ctx0) ELSE Resolve(e.rest, ctx0)
BY ResolveEquation DEF ResolveFrom, Resolve

-----------------------------------------------------------------------------
(* Collected satisfies its equation.                                       *)
Calls == Expr \X SUBSET Step
CallDepth == [call \in Calls |-> call[1].depth]

LEMMA CallDepthType == CallDepth \in [Calls -> Nat]
  BY ExprsAssumption DEF CallDepth, Calls

LEMMA CollectFromType ==
    ASSUME NEW ctx0, NEW g \in [Calls -> SUBSET Step],
           NEW e \in Expr, NEW needed \in SUBSET Step
    PROVE  CollectFrom(g, e, needed, ctx0) \in SUBSET Step
<1>1. \A p \in Expr, n \in SUBSET Step : g[<<p, n>>] \in SUBSET Step
  BY DEF Calls
<1>2. CASE e.op = "step"
  BY <1>2, ExprCases DEF CollectFrom
<1>3. CASE e.op \in {"input", "variable", "literal"}
  BY <1>3 DEF CollectFrom
<1>4. CASE e.op = "if"
  BY <1>1, <1>4, ExprCases DEF CollectFrom
<1>5. CASE e.op = "coalesce"
  BY <1>1, <1>5, ExprCases DEF CollectFrom
<1>6. CASE e.op = "array"
  BY <1>1, <1>6, ExprCases DEF CollectFrom
<1> QED BY <1>2, <1>3, <1>4, <1>5, <1>6, ExprCases

LEMMA CollectedUnfolds ==
    ASSUME NEW ctx0
    PROVE  Collected(ctx0) =
              [call \in Calls |-> CollectFrom(Collected(ctx0), call[1], call[2], ctx0)]
<1> DEFINE V == SUBSET Step
           F == [g \in [Calls -> V] |->
                    [call \in Calls |-> CollectFrom(g, call[1], call[2], ctx0)]]
<1>0. \A call \in Calls : call[1] \in Expr /\ call[2] \in SUBSET Step
  BY DEF Calls
<1>1. F \in [[Calls -> V] -> [Calls -> V]]
  BY <1>0, CollectFromType
<1>2. ASSUME NEW f \in [Calls -> V], NEW g \in [Calls -> V], NEW call \in Calls,
             \A y \in Calls : CallDepth[y] < CallDepth[call] => f[y] = g[y]
      PROVE  F[f][call] = F[g][call]
  <2> DEFINE e == call[1]
             needed == call[2]
  <2>1. \A p \in Expr, n \in V : p.depth < e.depth => f[<<p, n>>] = g[<<p, n>>]
    <3> SUFFICES ASSUME NEW p \in Expr, NEW n \in V, p.depth < e.depth
                 PROVE  f[<<p, n>>] = g[<<p, n>>]
      OBVIOUS
    <3>1. <<p, n>> \in Calls /\ CallDepth[<<p, n>>] = p.depth /\ CallDepth[call] = e.depth
      BY DEF Calls, CallDepth
    <3> QED BY <1>2, <3>1
  <2>2. \A p \in Expr, n \in V : f[<<p, n>>] \in V
    BY DEF Calls
  <2>3. e \in Expr /\ needed \in V
    BY <1>0
  <2> HIDE DEF V, e, needed
  <2>4. CollectFrom(f, e, needed, ctx0) = CollectFrom(g, e, needed, ctx0)
    <3>1. CASE e.op \in {"step", "input", "variable", "literal"}
      BY <3>1 DEF CollectFrom
    <3>2. CASE e.op = "if"
      BY <2>1, <2>2, <2>3, <3>2, ExprCases DEF CollectFrom
    <3>3. CASE e.op = "coalesce"
      BY <2>1, <2>2, <2>3, <3>3, ExprCases DEF CollectFrom
    <3>4. CASE e.op = "array"
      BY <2>1, <2>2, <2>3, <3>4, ExprCases DEF CollectFrom
    <3> QED BY <2>3, <3>1, <3>2, <3>3, <3>4, ExprCases
  <2> QED BY <2>4 DEF e, needed
<1>3. PICK f \in [Calls -> V] : f = F[f]
  <2>1. V # {}
    OBVIOUS
  <2> HIDE DEF F, V
  <2>2. \A f, g \in [Calls -> V], x \in Calls :
          (\A y \in Calls : CallDepth[y] < CallDepth[x] => f[y] = g[y]) => F[f][x] = F[g][x]
    BY <1>2
  <2>3. RecursesOnSmaller(Calls, V, CallDepth, F)
    BY <1>1, <2>1, <2>2, CallDepthType DEF RecursesOnSmaller
  <2> QED BY <2>3, RecursionHasSolution
<1>4. f = [call \in Calls |-> CollectFrom(f, call[1], call[2], ctx0)]
  BY <1>3
<1> QED BY <1>4 DEF Collected, Calls

(* What needed_steps gathers, in terms of the parts.                       *)
LEMMA CollectEquation ==
    ASSUME NEW ctx0, NEW e \in Expr, NEW n \in SUBSET Step
    PROVE  Collect(e, ctx0, n) = CollectFrom(Collected(ctx0), e, n, ctx0)
<1> DEFINE c == Collected(ctx0)
<1>1. <<e, n>> \in Calls /\ <<e, n>>[1] = e /\ <<e, n>>[2] = n
  BY DEF Calls
<1>2. c[<<e, n>>] = [call \in Calls |-> CollectFrom(c, call[1], call[2], ctx0)][<<e, n>>]
  BY CollectedUnfolds
<1> HIDE DEF c
<1>3. c[<<e, n>>] = CollectFrom(c, e, n, ctx0)
  BY <1>1, <1>2
<1> QED BY <1>3 DEF Collect, c

LEMMA CollectStep ==
    ASSUME NEW ctx0, NEW e \in Expr, NEW n \in SUBSET Step, e.op = "step"
    PROVE  Collect(e, ctx0, n) = IF IsCompleted(ctx0, e.step) THEN n ELSE n \union {e.step}
BY CollectEquation DEF CollectFrom

LEMMA CollectNothing ==
    ASSUME NEW ctx0, NEW e \in Expr, NEW n \in SUBSET Step, e.op \in {"input", "variable", "literal"}
    PROVE  Collect(e, ctx0, n) = n
BY CollectEquation DEF CollectFrom, Collect

LEMMA CollectIf ==
    ASSUME NEW ctx0, NEW e \in Expr, NEW n \in SUBSET Step, e.op = "if"
    PROVE  Collect(e, ctx0, n) =
           IF Grew(Collect(e.condition, ctx0, n), n)
           THEN Collect(e.condition, ctx0, n)
           ELSE IF IsTruthy(Resolve(e.condition, ctx0))
                THEN Collect(e.then, ctx0, Collect(e.condition, ctx0, n))
                ELSE Collect(e.else_expr, ctx0, Collect(e.condition, ctx0, n))
BY CollectEquation DEF CollectFrom, Collect

LEMMA CollectCoalesce ==
    ASSUME NEW ctx0, NEW e \in Expr, NEW n \in SUBSET Step, e.op = "coalesce"
    PROVE  Collect(e, ctx0, n) =
           IF Grew(Collect(e.first, ctx0, n), n) \/ Resolve(e.first, ctx0) # "null"
           THEN Collect(e.first, ctx0, n)
           ELSE Collect(e.rest, ctx0, Collect(e.first, ctx0, n))
BY CollectEquation DEF CollectFrom, Collect

LEMMA CollectArray ==
    ASSUME NEW ctx0, NEW e \in Expr, NEW n \in SUBSET Step, e.op = "array"
    PROVE  Collect(e, ctx0, n) = Collect(e.rest, ctx0, Collect(e.first, ctx0, n))
BY CollectEquation DEF CollectFrom, Collect

-----------------------------------------------------------------------------
(* A recursion over the parts of expressions has a solution.               *)
RecursesOnParts(V, F) ==
    /\ V # {} /\ F \in [[Expr -> V] -> [Expr -> V]]
    /\ \A f, g \in [Expr -> V], e \in Expr :
          (\A p \in Parts(e) : f[p] = g[p]) => F[f][e] = F[g][e]

LEMMA PartsRecursion ==
    ASSUME NEW V, NEW F, RecursesOnParts(V, F)
    PROVE  \E f \in [Expr -> V] : f = F[f]
<1>1. ASSUME NEW f \in [Expr -> V], NEW g \in [Expr -> V], NEW e \in Expr,
             \A y \in Expr : Depth[y] < Depth[e] => f[y] = g[y]
      PROVE  F[f][e] = F[g][e]
  <2>1. \A p \in Parts(e) : p \in Expr /\ Depth[p] < Depth[e]
    BY ExprsAssumption DEF Depth
  <2> QED BY <1>1, <2>1 DEF RecursesOnParts
<1>2. RecursesOnSmaller(Expr, V, Depth, F)
  BY <1>1, DepthType DEF RecursesOnSmaller, RecursesOnParts
<1> QED BY <1>2, RecursionHasSolution

LEMMA ReadUnfolds ==
    ASSUME NEW ctx0
    PROVE  Read(ctx0) = [e \in Expr |-> ReadFrom(Read(ctx0), e, ctx0)]
<1> DEFINE V == SUBSET Step
           F == [g \in [Expr -> V] |-> [e \in Expr |-> ReadFrom(g, e, ctx0)]]
<1>1. ASSUME NEW g \in [Expr -> V], NEW e \in Expr PROVE ReadFrom(g, e, ctx0) \in V
  <2>1. CASE e.op \in {"step", "input", "literal"}
    BY <2>1, ExprCases DEF ReadFrom
  <2>2. CASE e.op = "variable"
    BY <2>2, ExprCases DEF ReadFrom
  <2>3. CASE e.op = "if"
    BY <2>3, ExprCases DEF ReadFrom
  <2>4. CASE e.op \in {"coalesce", "array"}
    BY <2>4, ExprCases DEF ReadFrom
  <2> QED BY <2>1, <2>2, <2>3, <2>4, ExprCases
<1>2. F \in [[Expr -> V] -> [Expr -> V]]
  BY <1>1
<1>3. ASSUME NEW f \in [Expr -> V], NEW g \in [Expr -> V], NEW e \in Expr,
             \A p \in Parts(e) : f[p] = g[p]
      PROVE  F[f][e] = F[g][e]
  <2>1. ReadFrom(f, e, ctx0) = ReadFrom(g, e, ctx0)
    <3>1. CASE e.op \in {"step", "input", "literal"}
      BY <3>1 DEF ReadFrom
    <3>2. CASE e.op = "variable"
      BY <1>3, <3>2, ExprCases DEF ReadFrom
    <3>3. CASE e.op = "if"
      BY <1>3, <3>3, ExprCases DEF ReadFrom
    <3>4. CASE e.op \in {"coalesce", "array"}
      BY <1>3, <3>4, ExprCases DEF ReadFrom
    <3> QED BY <3>1, <3>2, <3>3, <3>4, ExprCases
  <2> QED BY <2>1
<1>4. PICK f \in [Expr -> V] : f = F[f]
  <2>1. V # {}
    OBVIOUS
  <2> HIDE DEF F, V
  <2>2. RecursesOnParts(V, F)
    BY <1>2, <1>3, <2>1 DEF RecursesOnParts
  <2> QED BY <2>2, PartsRecursion
<1>5. f = [e \in Expr |-> ReadFrom(f, e, ctx0)]
  BY <1>4
<1> QED BY <1>5 DEF Read

(* What an expression reads, in terms of its parts.                        *)
LEMMA Reads ==
    ASSUME NEW ctx0, NEW e \in Expr
    PROVE  /\ e.op = "step" => ReadSteps(e, ctx0) = {e.step}
           /\ e.op = "if" =>
                ReadSteps(e, ctx0) =
                    ReadSteps(e.condition, ctx0) \union
                      (IF IsTruthy(Resolve(e.condition, ctx0))
                       THEN ReadSteps(e.then, ctx0) ELSE ReadSteps(e.else_expr, ctx0))
           /\ e.op = "coalesce" =>
                ReadSteps(e, ctx0) =
                    ReadSteps(e.first, ctx0) \union
                      (IF Resolve(e.first, ctx0) = "null"
                       THEN ReadSteps(e.rest, ctx0) ELSE {})
           /\ e.op = "array" =>
                ReadSteps(e, ctx0) = ReadSteps(e.first, ctx0) \union ReadSteps(e.rest, ctx0)
<1>1. ReadSteps(e, ctx0) = ReadFrom(Read(ctx0), e, ctx0)
  <2>1. Read(ctx0)[e] = [x \in Expr |-> ReadFrom(Read(ctx0), x, ctx0)][e]
    BY ReadUnfolds
  <2> QED BY <2>1 DEF ReadSteps
<1> QED BY <1>1, ExprCases DEF ReadFrom, ReadSteps

-----------------------------------------------------------------------------
LEMMA MentionsUnfolds ==
    ASSUME NEW s
    PROVE  MentionsOf(s) = [e \in Expr |-> MentionsFrom(MentionsOf(s), e, s)]
<1> DEFINE F == [g \in [Expr -> Nat] |-> [e \in Expr |-> MentionsFrom(g, e, s)]]
<1>1. ASSUME NEW g \in [Expr -> Nat], NEW e \in Expr PROVE MentionsFrom(g, e, s) \in Nat
  <2>1. CASE e.op \in {"step", "input", "literal"}
    BY <2>1 DEF MentionsFrom
  <2>2. CASE e.op = "variable"
    BY <2>2, ExprCases DEF MentionsFrom
  <2>3. CASE e.op = "if"
    <3>1. g[e.condition] \in Nat /\ g[e.then] \in Nat /\ g[e.else_expr] \in Nat
      BY <2>3, ExprCases
    <3> QED BY <2>3, <3>1 DEF MentionsFrom
  <2>4. CASE e.op \in {"coalesce", "array"}
    <3>1. g[e.first] \in Nat /\ g[e.rest] \in Nat
      BY <2>4, ExprCases
    <3> QED BY <2>4, <3>1 DEF MentionsFrom
  <2> QED BY <2>1, <2>2, <2>3, <2>4, ExprCases
<1>2. F \in [[Expr -> Nat] -> [Expr -> Nat]]
  BY <1>1
<1>3. ASSUME NEW f \in [Expr -> Nat], NEW g \in [Expr -> Nat], NEW e \in Expr,
             \A p \in Parts(e) : f[p] = g[p]
      PROVE  F[f][e] = F[g][e]
  <2>1. MentionsFrom(f, e, s) = MentionsFrom(g, e, s)
    <3>1. CASE e.op \in {"step", "input", "literal"}
      BY <3>1 DEF MentionsFrom
    <3>2. CASE e.op = "variable"
      BY <1>3, <3>2, ExprCases DEF MentionsFrom
    <3>3. CASE e.op = "if"
      BY <1>3, <3>3, ExprCases DEF MentionsFrom
    <3>4. CASE e.op \in {"coalesce", "array"}
      BY <1>3, <3>4, ExprCases DEF MentionsFrom
    <3> QED BY <3>1, <3>2, <3>3, <3>4, ExprCases
  <2> QED BY <2>1
<1>4. PICK f \in [Expr -> Nat] : f = F[f]
  <2> HIDE DEF F
  <2>1. RecursesOnParts(Nat, F)
    BY <1>2, <1>3 DEF RecursesOnParts
  <2> QED BY <2>1, PartsRecursion
<1>5. f = [e \in Expr |-> MentionsFrom(f, e, s)]
  BY <1>4
<1> QED BY <1>5 DEF MentionsOf

(* How often an expression mentions a step, in terms of its parts.         *)
LEMMA CountsMentions ==
    ASSUME NEW s, NEW e \in Expr
    PROVE  /\ e.op = "step" => Mentions(e, s) = IF e.step = s THEN 1 ELSE 0
           /\ e.op \in {"input", "literal"} => Mentions(e, s) = 0
           /\ e.op = "variable" => Mentions(e, s) = Mentions(e.default, s)
           /\ e.op = "if" =>
                Mentions(e, s) = Mentions(e.condition, s) + Mentions(e.then, s)
                                   + Mentions(e.else_expr, s)
           /\ e.op \in {"coalesce", "array"} =>
                Mentions(e, s) = Mentions(e.first, s) + Mentions(e.rest, s)
<1>1. Mentions(e, s) = MentionsFrom(MentionsOf(s), e, s)
  <2>1. MentionsOf(s)[e] = [x \in Expr |-> MentionsFrom(MentionsOf(s), x, s)][e]
    BY MentionsUnfolds
  <2> QED BY <2>1 DEF Mentions
<1> QED BY <1>1 DEF MentionsFrom, Mentions

LEMMA MentionsType == \A s, e : e \in Expr => Mentions(e, s) \in Nat
<1> SUFFICES ASSUME NEW s PROVE \A e \in Expr : Mentions(e, s) \in Nat
  OBVIOUS
<1> DEFINE Good == {e \in Expr : Mentions(e, s) \in Nat}
<1>1. ASSUME NEW e \in Expr, Parts(e) \subseteq Good PROVE e \in Good
  <2>1. \A p \in Parts(e) : Mentions(p, s) \in Nat
    BY <1>1
  <2>2. CASE e.op \in {"step", "input", "literal"}
    BY <2>2, CountsMentions
  <2>3. CASE e.op = "variable"
    BY <2>1, <2>3, CountsMentions, ExprCases
  <2>4. CASE e.op = "if"
    BY <2>1, <2>4, CountsMentions, ExprCases
  <2>5. CASE e.op \in {"coalesce", "array"}
    BY <2>1, <2>5, CountsMentions, ExprCases
  <2> QED BY <2>2, <2>3, <2>4, <2>5, ExprCases
<1> HIDE DEF Good
<1>2. Expr \subseteq Good
  BY <1>1, ExprInduction
<1> QED BY <1>2 DEF Good

(* The steps an expression mentions are those its parts mention.           *)
LEMMA MentionedOfParts ==
    ASSUME NEW e \in Expr
    PROVE  /\ e.op = "step" => Mentioned(e) = {e.step}
           /\ \A p \in Parts(e) : Mentioned(p) \subseteq Mentioned(e)
<1>1. ASSUME e.op = "step" PROVE Mentioned(e) = {e.step}
  BY <1>1, CountsMentions, ExprCases DEF Mentioned
<1>2. ASSUME NEW p \in Parts(e), NEW s \in Mentioned(p) PROVE s \in Mentioned(e)
  <2>1. s \in Step /\ Mentions(p, s) > 0
    BY <1>2 DEF Mentioned
  <2>2. \A q \in Parts(e) : Mentions(q, s) \in Nat
    BY MentionsType, ExprsAssumption
  <2>3. Parts(e) # {}
    BY <1>2
  <2>4. CASE e.op = "variable"
    BY <2>1, <2>4, CountsMentions, ExprCases DEF Mentioned
  <2>5. CASE e.op = "if"
    BY <2>1, <2>2, <2>5, CountsMentions, ExprCases DEF Mentioned
  <2>6. CASE e.op \in {"coalesce", "array"}
    BY <2>1, <2>2, <2>6, CountsMentions, ExprCases DEF Mentioned
  <2>7. e.op \notin {"step", "input", "literal"}
    BY <2>3 DEF Parts
  <2> QED BY <2>4, <2>5, <2>6, <2>7, ExprCases
<1> QED BY <1>1, <1>2

-----------------------------------------------------------------------------
LEMMA HiddenUnfolds == Hidden = [e \in Expr |-> HiddenFrom(Hidden, e)]
<1> DEFINE V == SUBSET Step
           F == [g \in [Expr -> V] |-> [e \in Expr |-> HiddenFrom(g, e)]]
<1>1. ASSUME NEW g \in [Expr -> V], NEW e \in Expr PROVE HiddenFrom(g, e) \in V
  <2>1. \A p \in Parts(e) : g[p] \in V
    BY ExprsAssumption
  <2>2. Mentioned(e.default) \in V
    BY DEF Mentioned
  <2> QED BY <2>1, <2>2 DEF HiddenFrom
<1>2. F \in [[Expr -> V] -> [Expr -> V]]
  BY <1>1
<1>3. ASSUME NEW f \in [Expr -> V], NEW g \in [Expr -> V], NEW e \in Expr,
             \A p \in Parts(e) : f[p] = g[p]
      PROVE  F[f][e] = F[g][e]
  <2>1. {f[p] : p \in Parts(e)} = {g[p] : p \in Parts(e)}
    BY <1>3
  <2>2. HiddenFrom(f, e) = HiddenFrom(g, e)
    BY <2>1 DEF HiddenFrom
  <2> QED BY <2>2
<1>4. PICK f \in [Expr -> V] : f = F[f]
  <2>1. V # {}
    OBVIOUS
  <2> HIDE DEF F, V
  <2>2. RecursesOnParts(V, F)
    BY <1>2, <1>3, <2>1 DEF RecursesOnParts
  <2> QED BY <2>2, PartsRecursion
<1>5. f = [e \in Expr |-> HiddenFrom(f, e)]
  BY <1>4
<1> QED BY <1>5 DEF Hidden

(* What the defaults below an expression mention.                          *)
LEMMA HiddenOfParts ==
    ASSUME NEW e \in Expr
    PROVE  /\ e.op = "variable" => HiddenSteps(e) = Mentioned(e.default)
           /\ e.op # "variable" => \A p \in Parts(e) : HiddenSteps(p) \subseteq HiddenSteps(e)
<1>1. HiddenSteps(e) = HiddenFrom(Hidden, e)
  <2>1. Hidden[e] = [x \in Expr |-> HiddenFrom(Hidden, x)][e]
    BY HiddenUnfolds
  <2> QED BY <2>1 DEF HiddenSteps
<1> QED BY <1>1 DEF HiddenFrom, HiddenSteps

-----------------------------------------------------------------------------
Pending(ctx0) == {s \in Step : ~IsCompleted(ctx0, s)}

(* One context has all that the other has, and perhaps more results.       *)
Extends(more, ctx0) ==
    /\ more.input = ctx0.input /\ more.variable = ctx0.variable
    /\ \A s \in Step : IsCompleted(ctx0, s) => more.results[s] = ctx0.results[s]

(* The size test of collect sees whether anything was added.               *)
LEMMA GrewIfAdded ==
    ASSUME NEW before, NEW after, after \subseteq Step, before \subseteq after
    PROVE  Grew(after, before) <=> after # before
<1>1. IsFiniteSet(after)
  BY StepAssumption, FS_Subset
<1>2. /\ Cardinality(before) \in Nat /\ Cardinality(after) \in Nat
      /\ Cardinality(before) <= Cardinality(after)
      /\ Cardinality(before) = Cardinality(after) => before = after
  BY <1>1, FS_Subset, FS_CardinalityType
<1> QED BY <1>2 DEF Grew

(* Collecting keeps what was gathered, and adds steps that the expression  *)
(* mentions and that have not completed.                                   *)
LEMMA CollectAddsPending ==
    ASSUME NEW ctx0, NEW e0 \in Expr, NEW n0 \in SUBSET Step
    PROVE  /\ n0 \subseteq Collect(e0, ctx0, n0)
           /\ Collect(e0, ctx0, n0) \subseteq n0 \union (Mentioned(e0) \intersect Pending(ctx0))
<1> DEFINE Bounded(e, n) ==
             /\ n \subseteq Collect(e, ctx0, n)
             /\ Collect(e, ctx0, n) \subseteq n \union (Mentioned(e) \intersect Pending(ctx0))
           Good == {e \in Expr : \A n \in SUBSET Step : Bounded(e, n)}
<1>1. ASSUME NEW e \in Expr, Parts(e) \subseteq Good PROVE e \in Good
  <2> SUFFICES ASSUME NEW n \in SUBSET Step PROVE Bounded(e, n)
    OBVIOUS
  <2>1. ASSUME NEW p \in Parts(e), NEW m \in SUBSET Step
        PROVE  /\ Bounded(p, m) /\ Mentioned(p) \subseteq Mentioned(e)
               /\ Collect(p, ctx0, m) \in SUBSET Step
    <3>1. Bounded(p, m)
      BY <1>1, <2>1
    <3>2. Mentioned(p) \subseteq Mentioned(e)
      BY <2>1, MentionedOfParts
    <3>3. Pending(ctx0) \subseteq Step
      BY DEF Pending
    <3> QED BY <3>1, <3>2, <3>3
  <2>2. CASE e.op = "step"
    <3>1. e.step \in Step /\ Mentioned(e) = {e.step}
      BY <2>2, ExprCases, MentionedOfParts
    <3>2. ~IsCompleted(ctx0, e.step) => e.step \in Pending(ctx0)
      BY <3>1 DEF Pending
    <3> QED BY <2>2, <3>1, <3>2, CollectStep
  <2>3. CASE e.op \in {"input", "variable", "literal"}
    BY <2>3, CollectNothing
  <2>4. CASE e.op = "if"
    <3>1. {e.condition, e.then, e.else_expr} \subseteq Parts(e)
      BY <2>4, ExprCases
    <3> DEFINE m == Collect(e.condition, ctx0, n)
    <3>2. Collect(e, ctx0, n) \in {m, Collect(e.then, ctx0, m), Collect(e.else_expr, ctx0, m)}
      BY <2>4, CollectIf
    <3>3. Bounded(e.condition, n) /\ Mentioned(e.condition) \subseteq Mentioned(e)
          /\ m \in SUBSET Step
      BY <2>1, <3>1
    <3> HIDE DEF m
    <3>4. /\ Bounded(e.then, m) /\ Mentioned(e.then) \subseteq Mentioned(e)
          /\ Bounded(e.else_expr, m) /\ Mentioned(e.else_expr) \subseteq Mentioned(e)
      BY <2>1, <3>1, <3>3
    <3> QED BY <3>2, <3>3, <3>4 DEF m
  <2>5. CASE e.op \in {"coalesce", "array"}
    <3>1. {e.first, e.rest} \subseteq Parts(e)
      BY <2>5, ExprCases
    <3> DEFINE m == Collect(e.first, ctx0, n)
    <3>2. Collect(e, ctx0, n) \in {m, Collect(e.rest, ctx0, m)}
      BY <2>5, CollectCoalesce, CollectArray
    <3>3. Bounded(e.first, n) /\ Mentioned(e.first) \subseteq Mentioned(e)
          /\ m \in SUBSET Step
      BY <2>1, <3>1
    <3> HIDE DEF m
    <3>4. Bounded(e.rest, m) /\ Mentioned(e.rest) \subseteq Mentioned(e)
      BY <2>1, <3>1, <3>3
    <3> QED BY <3>2, <3>3, <3>4 DEF m
  <2> QED BY <2>2, <2>3, <2>4, <2>5, ExprCases
<1> HIDE DEF Good
<1>2. Expr \subseteq Good
  BY <1>1, ExprInduction
<1> QED BY <1>2 DEF Good

(* An expression whose steps have all completed resolves alike later.      *)
LEMMA ResolveIsFinal ==
    ASSUME NEW ctx1 \in Contexts, NEW ctx2 \in Contexts, Extends(ctx2, ctx1),
           NEW e0 \in Expr, Mentioned(e0) \intersect Pending(ctx1) = {}
    PROVE  Resolve(e0, ctx2) = Resolve(e0, ctx1)
<1> DEFINE Good == {e \in Expr : Mentioned(e) \intersect Pending(ctx1) = {}
                                   => Resolve(e, ctx2) = Resolve(e, ctx1)}
<1>1. ASSUME NEW e \in Expr, Parts(e) \subseteq Good PROVE e \in Good
  <2> SUFFICES ASSUME Mentioned(e) \intersect Pending(ctx1) = {}
               PROVE  Resolve(e, ctx2) = Resolve(e, ctx1)
    OBVIOUS
  <2>1. \A p \in Parts(e) : Resolve(p, ctx2) = Resolve(p, ctx1)
    BY <1>1, MentionedOfParts
  <2>2. CASE e.op = "step"
    <3>1. e.step \in Step /\ Mentioned(e) = {e.step}
      BY <2>2, ExprCases, MentionedOfParts
    <3>2. IsCompleted(ctx1, e.step)
      BY <3>1 DEF Pending
    <3>3. ctx2.results[e.step] = ctx1.results[e.step]
      BY <3>1, <3>2 DEF Extends
    <3>4. IsCompleted(ctx2, e.step)
      BY <3>2, <3>3 DEF IsCompleted
    <3>5. Resolve(e, ctx1) = ApplyPath(ctx1.results[e.step], e.path)
      BY <2>2, <3>2, ResolveStep
    <3>6. Resolve(e, ctx2) = ApplyPath(ctx2.results[e.step], e.path)
      BY <2>2, <3>4, ResolveStep
    <3> QED BY <3>3, <3>5, <3>6
  <2>3. CASE e.op = "input"
    <3>1. Resolve(e, ctx1) = ctx1.input /\ Resolve(e, ctx2) = ctx2.input
      BY <2>3, ResolveInput
    <3> QED BY <3>1 DEF Extends
  <2>4. CASE e.op = "literal"
    <3>1. Resolve(e, ctx1) = e.value /\ Resolve(e, ctx2) = e.value
      BY <2>4, ResolveLiteral
    <3> QED BY <3>1
  <2>5. CASE e.op = "variable"
    <3>1. Resolve(e.default, ctx2) = Resolve(e.default, ctx1)
      BY <2>1, <2>5, ExprCases
    <3>2. /\ Resolve(e, ctx1) = IF ctx1.variable # Undefined THEN ctx1.variable
                                ELSE Resolve(e.default, ctx1)
          /\ Resolve(e, ctx2) = IF ctx2.variable # Undefined THEN ctx2.variable
                                ELSE Resolve(e.default, ctx2)
      BY <2>5, ResolveVariable
    <3> QED BY <3>1, <3>2 DEF Extends
  <2>6. CASE e.op = "if"
    <3>1. \A p \in {e.condition, e.then, e.else_expr} : Resolve(p, ctx2) = Resolve(p, ctx1)
      BY <2>1, <2>6, ExprCases
    <3>2. /\ Resolve(e, ctx1) = IF IsTruthy(Resolve(e.condition, ctx1))
                                THEN Resolve(e.then, ctx1) ELSE Resolve(e.else_expr, ctx1)
          /\ Resolve(e, ctx2) = IF IsTruthy(Resolve(e.condition, ctx2))
                                THEN Resolve(e.then, ctx2) ELSE Resolve(e.else_expr, ctx2)
      BY <2>6, ResolveIf
    <3> QED BY <3>1, <3>2
  <2>7. CASE e.op = "coalesce"
    <3>1. \A p \in {e.first, e.rest} : Resolve(p, ctx2) = Resolve(p, ctx1)
      BY <2>1, <2>7, ExprCases
    <3>2. /\ Resolve(e, ctx1) = IF Resolve(e.first, ctx1) # "null"
                                THEN Resolve(e.first, ctx1) ELSE Resolve(e.rest, ctx1)
          /\ Resolve(e, ctx2) = IF Resolve(e.first, ctx2) # "null"
                                THEN Resolve(e.first, ctx2) ELSE Resolve(e.rest, ctx2)
      BY <2>7, ResolveCoalesce
    <3> QED BY <3>1, <3>2
  <2>8. CASE e.op = "array"
    <3>1. \A p \in {e.first, e.rest} : Resolve(p, ctx2) = Resolve(p, ctx1)
      BY <2>1, <2>8, ExprCases
    <3>2. /\ Resolve(e, ctx1) = IF Resolve(e.first, ctx1) \in Failure
                                THEN Resolve(e.first, ctx1) ELSE Resolve(e.rest, ctx1)
          /\ Resolve(e, ctx2) = IF Resolve(e.first, ctx2) \in Failure
                                THEN Resolve(e.first, ctx2) ELSE Resolve(e.rest, ctx2)
      BY <2>8, ResolveArray
    <3> QED BY <3>1, <3>2
  <2> QED BY <2>2, <2>3, <2>4, <2>5, <2>6, <2>7, <2>8, ExprCases
<1> HIDE DEF Good
<1>2. Expr \subseteq Good
  BY <1>1, ExprInduction
<1> QED BY <1>2 DEF Good

(* What is gathered from nothing.                                          *)
LEMMA CollectIfFresh ==
    ASSUME NEW ctx0, NEW e \in Expr, e.op = "if"
    PROVE  Collect(e, ctx0, {}) =
               IF Collect(e.condition, ctx0, {}) # {} THEN Collect(e.condition, ctx0, {})
               ELSE IF IsTruthy(Resolve(e.condition, ctx0))
                    THEN Collect(e.then, ctx0, {}) ELSE Collect(e.else_expr, ctx0, {})
<1>1. Collect(e.condition, ctx0, {}) \subseteq Step
  BY ExprCases, CollectAddsPending DEF Pending
<1>2. Grew(Collect(e.condition, ctx0, {}), {}) <=> Collect(e.condition, ctx0, {}) # {}
  BY <1>1, GrewIfAdded
<1>3. {} \in SUBSET Step
  OBVIOUS
<1> DEFINE m == Collect(e.condition, ctx0, {})
<1>4. Collect(e, ctx0, {}) =
        IF Grew(m, {}) THEN m
        ELSE IF IsTruthy(Resolve(e.condition, ctx0))
             THEN Collect(e.then, ctx0, m) ELSE Collect(e.else_expr, ctx0, m)
  BY <1>3, CollectIf
<1> HIDE DEF m
<1>5. Grew(m, {}) <=> m # {}
  BY <1>2 DEF m
<1>6. Collect(e, ctx0, {}) =
        IF m # {} THEN m
        ELSE IF IsTruthy(Resolve(e.condition, ctx0))
             THEN Collect(e.then, ctx0, {}) ELSE Collect(e.else_expr, ctx0, {})
  BY <1>4, <1>5
<1> QED BY <1>6 DEF m

LEMMA CollectCoalesceFresh ==
    ASSUME NEW ctx0, NEW e \in Expr, e.op = "coalesce"
    PROVE  Collect(e, ctx0, {}) =
               IF Collect(e.first, ctx0, {}) # {} \/ Resolve(e.first, ctx0) # "null"
               THEN Collect(e.first, ctx0, {}) ELSE Collect(e.rest, ctx0, {})
<1>1. Collect(e.first, ctx0, {}) \subseteq Step
  BY ExprCases, CollectAddsPending DEF Pending
<1>2. Grew(Collect(e.first, ctx0, {}), {}) <=> Collect(e.first, ctx0, {}) # {}
  BY <1>1, GrewIfAdded
<1>3. {} \in SUBSET Step
  OBVIOUS
<1> DEFINE m == Collect(e.first, ctx0, {})
<1>4. Collect(e, ctx0, {}) = IF Grew(m, {}) \/ Resolve(e.first, ctx0) # "null" THEN m
                            ELSE Collect(e.rest, ctx0, m)
  BY <1>3, CollectCoalesce
<1> HIDE DEF m
<1>5. Grew(m, {}) <=> m # {}
  BY <1>2 DEF m
<1>6. Collect(e, ctx0, {}) = IF m # {} \/ Resolve(e.first, ctx0) # "null" THEN m
                            ELSE Collect(e.rest, ctx0, {})
  BY <1>4, <1>5
<1> QED BY <1>6 DEF m

(* An expression found ready, the steps of its defaults completed, stays   *)
(* ready, and resolves to what it resolves to with more results.           *)
LEMMA ReadyIsFinal ==
    ASSUME NEW ctx1 \in Contexts, NEW ctx2 \in Contexts, Extends(ctx2, ctx1),
           NEW e0 \in Expr, HiddenSteps(e0) \intersect Pending(ctx1) = {},
           Collect(e0, ctx1, {}) = {}
    PROVE  Resolve(e0, ctx2) = Resolve(e0, ctx1) /\ Collect(e0, ctx2, {}) = {}
<1> DEFINE Final(e) == Resolve(e, ctx2) = Resolve(e, ctx1) /\ Collect(e, ctx2, {}) = {}
           Good == {e \in Expr : /\ HiddenSteps(e) \intersect Pending(ctx1) = {}
                                 /\ Collect(e, ctx1, {}) = {}
                                 => Final(e)}
<1>0. {} \in SUBSET Step
  OBVIOUS
<1>1. ASSUME NEW e \in Expr, Parts(e) \subseteq Good PROVE e \in Good
  <2> SUFFICES ASSUME HiddenSteps(e) \intersect Pending(ctx1) = {}, Collect(e, ctx1, {}) = {}
               PROVE  Final(e)
    OBVIOUS
  <2>1. ASSUME NEW p \in Parts(e), e.op # "variable", Collect(p, ctx1, {}) = {}
        PROVE  Final(p)
    BY <1>1, <2>1, HiddenOfParts
  <2>2. CASE e.op = "step"
    <3>1. e.step \in Step
      BY <2>2, ExprCases
    <3>2. {} = IF IsCompleted(ctx1, e.step) THEN {} ELSE {} \union {e.step}
      BY <1>0, <2>2, CollectStep
    <3>3. IsCompleted(ctx1, e.step)
      BY <3>2
    <3>4. ctx2.results[e.step] = ctx1.results[e.step]
      BY <3>1, <3>3 DEF Extends
    <3>5. IsCompleted(ctx2, e.step)
      BY <3>3, <3>4 DEF IsCompleted
    <3>6. Collect(e, ctx2, {}) = {}
      BY <1>0, <2>2, <3>5, CollectStep
    <3>7. Resolve(e, ctx1) = ApplyPath(ctx1.results[e.step], e.path)
      BY <2>2, <3>3, ResolveStep
    <3>8. Resolve(e, ctx2) = ApplyPath(ctx2.results[e.step], e.path)
      BY <2>2, <3>5, ResolveStep
    <3> QED BY <3>4, <3>6, <3>7, <3>8
  <2>3. CASE e.op \in {"input", "literal", "variable"}
    <3>1. Collect(e, ctx2, {}) = {}
      BY <1>0, <2>3, CollectNothing
    <3>2. CASE e.op = "input"
      <4>1. Resolve(e, ctx1) = ctx1.input /\ Resolve(e, ctx2) = ctx2.input
        BY <3>2, ResolveInput
      <4> QED BY <3>1, <4>1 DEF Extends
    <3>3. CASE e.op = "literal"
      <4>1. Resolve(e, ctx1) = e.value /\ Resolve(e, ctx2) = e.value
        BY <3>3, ResolveLiteral
      <4> QED BY <3>1, <4>1
    <3>4. CASE e.op = "variable"
      <4>1. e.default \in Expr /\ Mentioned(e.default) \intersect Pending(ctx1) = {}
        BY <3>4, ExprCases, HiddenOfParts
      <4>2. Resolve(e.default, ctx2) = Resolve(e.default, ctx1)
        BY <4>1, ResolveIsFinal
      <4>3. /\ Resolve(e, ctx1) = IF ctx1.variable # Undefined THEN ctx1.variable
                                  ELSE Resolve(e.default, ctx1)
            /\ Resolve(e, ctx2) = IF ctx2.variable # Undefined THEN ctx2.variable
                                  ELSE Resolve(e.default, ctx2)
        BY <3>4, ResolveVariable
      <4> QED BY <3>1, <4>2, <4>3 DEF Extends
    <3> QED BY <2>3, <3>2, <3>3, <3>4
  <2>4. CASE e.op = "if"
    <3>1. {e.condition, e.then, e.else_expr} \subseteq Parts(e)
      BY <2>4, ExprCases
    <3>2. Collect(e.condition, ctx1, {}) = {}
      BY <2>4, CollectIfFresh
    <3>3. Final(e.condition)
      BY <2>1, <2>4, <3>1, <3>2
    <3> DEFINE branch == IF IsTruthy(Resolve(e.condition, ctx1)) THEN e.then ELSE e.else_expr
    <3>4. Collect(branch, ctx1, {}) = {}
      BY <2>4, <3>2, CollectIfFresh
    <3>5. branch \in Parts(e)
      BY <3>1
    <3>6. Resolve(e, ctx1) = Resolve(branch, ctx1)
      BY <2>4, ResolveIf
    <3>7. Resolve(e, ctx2) = Resolve(branch, ctx2)
      BY <2>4, <3>3, ResolveIf
    <3>8. Collect(e, ctx2, {}) = Collect(branch, ctx2, {})
      BY <2>4, <3>3, CollectIfFresh
    <3> HIDE DEF branch
    <3>9. Final(branch)
      BY <2>1, <2>4, <3>4, <3>5
    <3> QED BY <3>6, <3>7, <3>8, <3>9
  <2>5. CASE e.op = "coalesce"
    <3>1. {e.first, e.rest} \subseteq Parts(e)
      BY <2>5, ExprCases
    <3>2. Collect(e.first, ctx1, {}) = {}
      BY <2>5, CollectCoalesceFresh
    <3>3. Final(e.first)
      BY <2>1, <2>5, <3>1, <3>2
    <3> DEFINE chosen == IF Resolve(e.first, ctx1) # "null" THEN e.first ELSE e.rest
    <3>4. Collect(chosen, ctx1, {}) = {}
      BY <2>5, <3>2, CollectCoalesceFresh
    <3>5. chosen \in Parts(e)
      BY <3>1
    <3>6. Resolve(e, ctx1) = Resolve(chosen, ctx1)
      BY <2>5, ResolveCoalesce
    <3>7. Resolve(e, ctx2) = Resolve(chosen, ctx2)
      BY <2>5, <3>3, ResolveCoalesce
    <3>8. Collect(e, ctx2, {}) = Collect(chosen, ctx2, {})
      BY <2>5, <3>3, CollectCoalesceFresh
    <3> HIDE DEF chosen
    <3>9. Final(chosen)
      BY <2>1, <2>5, <3>4, <3>5
    <3> QED BY <3>6, <3>7, <3>8, <3>9
  <2>6. CASE e.op = "array"
    <3>1. {e.first, e.rest} \subseteq Parts(e) /\ {e.first, e.rest} \subseteq Expr
      BY <2>6, ExprCases
    <3>2. Collect(e, ctx1, {}) = Collect(e.rest, ctx1, Collect(e.first, ctx1, {}))
      BY <1>0, <2>6, CollectArray
    <3>3. Collect(e.first, ctx1, {}) \in SUBSET Step
      BY <3>1, CollectAddsPending DEF Pending
    <3>4. Collect(e.first, ctx1, {}) \subseteq Collect(e, ctx1, {})
      BY <3>1, <3>2, <3>3, CollectAddsPending
    <3>5. Collect(e.first, ctx1, {}) = {}
      BY <3>4
    <3>6. Collect(e.rest, ctx1, {}) = {}
      BY <3>2, <3>5
    <3>7. Final(e.first) /\ Final(e.rest)
      BY <2>1, <2>6, <3>1, <3>5, <3>6
    <3>8. Collect(e, ctx2, {}) = Collect(e.rest, ctx2, Collect(e.first, ctx2, {}))
      BY <1>0, <2>6, CollectArray
    <3>9. /\ Resolve(e, ctx1) = IF Resolve(e.first, ctx1) \in Failure
                                THEN Resolve(e.first, ctx1) ELSE Resolve(e.rest, ctx1)
          /\ Resolve(e, ctx2) = IF Resolve(e.first, ctx2) \in Failure
                                THEN Resolve(e.first, ctx2) ELSE Resolve(e.rest, ctx2)
      BY <2>6, ResolveArray
    <3> QED BY <3>7, <3>8, <3>9
  <2> QED BY <2>2, <2>3, <2>4, <2>5, <2>6, ExprCases
<1> HIDE DEF Good
<1>2. Expr \subseteq Good
  BY <1>1, ExprInduction
<1> QED BY <1>2 DEF Good

-----------------------------------------------------------------------------
Once(e) == \A s \in Step : Mentions(e, s) <= 1

(* The parts of an expression that mentions no step twice do neither, and  *)
(* no two elements of a list mention the same step.                        *)
LEMMA OnceInParts ==
    ASSUME NEW e \in Expr, Once(e)
    PROVE  /\ \A p \in Parts(e) : Once(p)
           /\ e.op \in {"coalesce", "array"} =>
                Mentioned(e.first) \intersect Mentioned(e.rest) = {}
<1>1. \A p \in Parts(e), s \in Step : Mentions(p, s) \in Nat
  BY MentionsType, ExprsAssumption
<1>2. ASSUME NEW p \in Parts(e), NEW s \in Step PROVE Mentions(p, s) <= 1
  <2>1. Mentions(e, s) <= 1
    BY DEF Once
  <2>2. CASE e.op = "variable"
    BY <2>1, <2>2, CountsMentions, ExprCases
  <2>3. CASE e.op = "if"
    <3>1. Mentions(e.condition, s) + Mentions(e.then, s) + Mentions(e.else_expr, s) <= 1
      BY <2>1, <2>3, CountsMentions
    <3>2. Parts(e) = {e.condition, e.then, e.else_expr}
      BY <2>3, ExprCases
    <3> QED BY <1>1, <3>1, <3>2
  <2>4. CASE e.op \in {"coalesce", "array"}
    <3>1. Mentions(e.first, s) + Mentions(e.rest, s) <= 1
      BY <2>1, <2>4, CountsMentions
    <3>2. Parts(e) = {e.first, e.rest}
      BY <2>4, ExprCases
    <3> QED BY <1>1, <3>1, <3>2
  <2>5. e.op \notin {"step", "input", "literal"}
    BY DEF Parts
  <2> QED BY <2>2, <2>3, <2>4, <2>5, ExprCases
<1>3. ASSUME e.op \in {"coalesce", "array"}, NEW s \in Mentioned(e.first)
      PROVE  s \notin Mentioned(e.rest)
  <2>1. s \in Step /\ Mentions(e.first, s) > 0
    BY DEF Mentioned
  <2>2. Mentions(e.first, s) + Mentions(e.rest, s) <= 1
    BY <1>3, <2>1, CountsMentions DEF Once
  <2>3. Mentions(e.first, s) \in Nat /\ Mentions(e.rest, s) \in Nat
    BY <1>3, MentionsType, ExprCases
  <2>4. ~(Mentions(e.rest, s) > 0)
    BY <2>1, <2>2, <2>3
  <2> QED BY <2>4 DEF Mentioned
<1> QED BY <1>2, <1>3 DEF Once

(* What was gathered elsewhere does not change what is gathered here, if   *)
(* no step is mentioned twice.                                             *)
LEMMA CollectsApart ==
    ASSUME NEW ctx0, NEW e0 \in Expr, Once(e0),
           NEW n0 \in SUBSET Step, n0 \intersect Mentioned(e0) = {}
    PROVE  Collect(e0, ctx0, n0) = n0 \union Collect(e0, ctx0, {})
<1> DEFINE Apart(e) == \A n \in SUBSET Step :
                          n \intersect Mentioned(e) = {}
                            => Collect(e, ctx0, n) = n \union Collect(e, ctx0, {})
           Good == {e \in Expr : Once(e) => Apart(e)}
<1>0. {} \in SUBSET Step
  OBVIOUS
<1>1. ASSUME NEW e \in Expr, Parts(e) \subseteq Good PROVE e \in Good
  <2> SUFFICES ASSUME Once(e), NEW n \in SUBSET Step, n \intersect Mentioned(e) = {}
               PROVE  Collect(e, ctx0, n) = n \union Collect(e, ctx0, {})
    OBVIOUS
  <2>1. ASSUME NEW p \in Parts(e)
        PROVE  /\ Apart(p) /\ Mentioned(p) \subseteq Mentioned(e)
               /\ Collect(p, ctx0, {}) \subseteq Mentioned(p) /\ Mentioned(p) \subseteq Step
    <3>1. p \in Expr
      BY ExprsAssumption
    <3>2. Apart(p)
      BY <1>1, <2>1, OnceInParts
    <3>3. Mentioned(p) \subseteq Mentioned(e)
      BY <2>1, MentionedOfParts
    <3>4. Collect(p, ctx0, {}) \subseteq Mentioned(p)
      BY <1>0, <3>1, CollectAddsPending
    <3>5. Mentioned(p) \subseteq Step
      BY DEF Mentioned
    <3> QED BY <3>2, <3>3, <3>4, <3>5
  <2>2. CASE e.op = "step"
    <3>1. Collect(e, ctx0, n) = IF IsCompleted(ctx0, e.step) THEN n ELSE n \union {e.step}
      BY <2>2, CollectStep
    <3>2. Collect(e, ctx0, {}) = IF IsCompleted(ctx0, e.step) THEN {} ELSE {} \union {e.step}
      BY <1>0, <2>2, CollectStep
    <3> QED BY <3>1, <3>2
  <2>3. CASE e.op \in {"input", "variable", "literal"}
    <3>1. Collect(e, ctx0, n) = n /\ Collect(e, ctx0, {}) = {}
      BY <1>0, <2>3, CollectNothing
    <3> QED BY <3>1
  <2>4. CASE e.op = "if"
    <3>1. {e.condition, e.then, e.else_expr} \subseteq Parts(e)
      BY <2>4, ExprCases
    <3> DEFINE m == Collect(e.condition, ctx0, n)
               k == Collect(e.condition, ctx0, {})
               branch == IF IsTruthy(Resolve(e.condition, ctx0)) THEN e.then ELSE e.else_expr
    <3>2. m = n \union k /\ k \subseteq Mentioned(e) /\ k \subseteq Step
      BY <2>1, <3>1
    <3>3. Grew(m, n) <=> m # n
      <4> HIDE DEF m, k
      <4> QED BY <3>2, GrewIfAdded
    <3>4. Collect(e, ctx0, n) = IF Grew(m, n) THEN m ELSE Collect(branch, ctx0, m)
      BY <2>4, CollectIf
    <3>5. Collect(e, ctx0, {}) = IF k # {} THEN k ELSE Collect(branch, ctx0, {})
      BY <2>4, CollectIfFresh
    <3>6. branch \in Parts(e)
      BY <3>1
    <3> HIDE DEF m, k, branch
    <3>7. m # n <=> k # {}
      BY <3>2
    <3>8. Collect(branch, ctx0, n) = n \union Collect(branch, ctx0, {})
      BY <2>1, <3>6
    <3>9. CASE k # {}
      BY <3>2, <3>3, <3>4, <3>5, <3>7, <3>9
    <3>10. CASE k = {}
      BY <3>3, <3>4, <3>5, <3>7, <3>8, <3>10
    <3> QED BY <3>9, <3>10
  <2>5. CASE e.op = "coalesce"
    <3>1. {e.first, e.rest} \subseteq Parts(e)
      BY <2>5, ExprCases
    <3> DEFINE m == Collect(e.first, ctx0, n)
               k == Collect(e.first, ctx0, {})
               known == Resolve(e.first, ctx0) # "null"
    <3>2. m = n \union k /\ k \subseteq Mentioned(e) /\ k \subseteq Step
      BY <2>1, <3>1
    <3>3. Grew(m, n) <=> m # n
      <4> HIDE DEF m, k
      <4> QED BY <3>2, GrewIfAdded
    <3>4. Collect(e, ctx0, n) = IF Grew(m, n) \/ known THEN m ELSE Collect(e.rest, ctx0, m)
      BY <2>5, CollectCoalesce
    <3>5. Collect(e, ctx0, {}) = IF k # {} \/ known THEN k ELSE Collect(e.rest, ctx0, {})
      BY <2>5, CollectCoalesceFresh
    <3> HIDE DEF m, k, known
    <3>7. m # n <=> k # {}
      BY <3>2
    <3>8. Collect(e.rest, ctx0, n) = n \union Collect(e.rest, ctx0, {})
      BY <2>1, <3>1
    <3>9. CASE k # {} \/ known
      BY <3>2, <3>3, <3>4, <3>5, <3>7, <3>9
    <3>10. CASE k = {} /\ ~known
      BY <3>3, <3>4, <3>5, <3>7, <3>8, <3>10
    <3> QED BY <3>9, <3>10
  <2>6. CASE e.op = "array"
    <3>1. {e.first, e.rest} \subseteq Parts(e)
      BY <2>6, ExprCases
    <3>2. Mentioned(e.first) \intersect Mentioned(e.rest) = {}
      BY <2>6, OnceInParts
    <3> DEFINE m == Collect(e.first, ctx0, n)
               k == Collect(e.first, ctx0, {})
    <3>3. /\ m = n \union k /\ k \subseteq Mentioned(e.first) /\ k \subseteq Step
          /\ Mentioned(e.rest) \subseteq Mentioned(e)
      BY <2>1, <3>1
    <3>4. Collect(e, ctx0, n) = Collect(e.rest, ctx0, m)
      BY <2>6, CollectArray
    <3>5. Collect(e, ctx0, {}) = Collect(e.rest, ctx0, k)
      BY <1>0, <2>6, CollectArray
    <3> HIDE DEF m, k
    <3>6. k \intersect Mentioned(e.rest) = {} /\ m \intersect Mentioned(e.rest) = {}
          /\ m \in SUBSET Step
      BY <3>2, <3>3
    <3>7. /\ Collect(e.rest, ctx0, m) = m \union Collect(e.rest, ctx0, {})
          /\ Collect(e.rest, ctx0, k) = k \union Collect(e.rest, ctx0, {})
      BY <2>1, <3>1, <3>3, <3>6
    <3> QED BY <3>3, <3>4, <3>5, <3>7
  <2> QED BY <2>2, <2>3, <2>4, <2>5, <2>6, ExprCases
<1> HIDE DEF Good
<1>2. Expr \subseteq Good
  BY <1>1, ExprInduction
<1> QED BY <1>2 DEF Good

(* Then what is asked for is what a lazy evaluation reads.                 *)
LEMMA CollectsOnlyRead ==
    ASSUME NEW ctx1 \in Contexts, NEW ctx2 \in Contexts, Extends(ctx2, ctx1),
           NEW e0 \in Expr, Once(e0), HiddenSteps(e0) = {}
    PROVE  Collect(e0, ctx1, {}) \subseteq ReadSteps(e0, ctx2)
<1> DEFINE Lazy(e) == Collect(e, ctx1, {}) \subseteq ReadSteps(e, ctx2)
           Good == {e \in Expr : Once(e) /\ HiddenSteps(e) = {} => Lazy(e)}
<1>0. {} \in SUBSET Step
  OBVIOUS
<1>1. ASSUME NEW e \in Expr, Parts(e) \subseteq Good PROVE e \in Good
  <2> SUFFICES ASSUME Once(e), HiddenSteps(e) = {} PROVE Lazy(e)
    OBVIOUS
  <2>1. ASSUME NEW p \in Parts(e), e.op # "variable"
        PROVE  /\ p \in Expr /\ Lazy(p)
               /\ Collect(p, ctx1, {}) = {} => Resolve(p, ctx2) = Resolve(p, ctx1)
    <3>1. p \in Expr /\ Once(p) /\ HiddenSteps(p) = {}
      BY <2>1, OnceInParts, HiddenOfParts, ExprsAssumption
    <3>2. Lazy(p)
      BY <1>1, <2>1, <3>1
    <3>3. Collect(p, ctx1, {}) = {} => Resolve(p, ctx2) = Resolve(p, ctx1)
      BY <3>1, ReadyIsFinal
    <3> QED BY <3>1, <3>2, <3>3
  <2>2. CASE e.op = "step"
    <3>1. Collect(e, ctx1, {}) = IF IsCompleted(ctx1, e.step) THEN {} ELSE {} \union {e.step}
      BY <1>0, <2>2, CollectStep
    <3>2. ReadSteps(e, ctx2) = {e.step}
      BY <2>2, Reads
    <3> QED BY <3>1, <3>2
  <2>3. CASE e.op \in {"input", "variable", "literal"}
    BY <1>0, <2>3, CollectNothing
  <2>4. CASE e.op = "if"
    <3>1. {e.condition, e.then, e.else_expr} \subseteq Parts(e)
      BY <2>4, ExprCases
    <3>2. Lazy(e.condition) /\ Lazy(e.then) /\ Lazy(e.else_expr)
      BY <2>1, <2>4, <3>1
    <3>3. ReadSteps(e, ctx2) =
            ReadSteps(e.condition, ctx2) \union
              (IF IsTruthy(Resolve(e.condition, ctx2))
               THEN ReadSteps(e.then, ctx2) ELSE ReadSteps(e.else_expr, ctx2))
      BY <2>4, Reads
    <3>4. CASE Collect(e.condition, ctx1, {}) # {}
      <4>1. Collect(e, ctx1, {}) = Collect(e.condition, ctx1, {})
        BY <2>4, <3>4, CollectIfFresh
      <4> QED BY <3>2, <3>3, <4>1
    <3>5. CASE Collect(e.condition, ctx1, {}) = {}
      <4>1. Resolve(e.condition, ctx2) = Resolve(e.condition, ctx1)
        BY <2>1, <2>4, <3>1, <3>5
      <4>2. Collect(e, ctx1, {}) =
              IF IsTruthy(Resolve(e.condition, ctx1))
              THEN Collect(e.then, ctx1, {}) ELSE Collect(e.else_expr, ctx1, {})
        BY <2>4, <3>5, CollectIfFresh
      <4> QED BY <3>2, <3>3, <4>1, <4>2
    <3> QED BY <3>4, <3>5
  <2>5. CASE e.op = "coalesce"
    <3>1. {e.first, e.rest} \subseteq Parts(e)
      BY <2>5, ExprCases
    <3>2. Lazy(e.first) /\ Lazy(e.rest)
      BY <2>1, <2>5, <3>1
    <3>3. ReadSteps(e, ctx2) =
            ReadSteps(e.first, ctx2) \union
              (IF Resolve(e.first, ctx2) = "null" THEN ReadSteps(e.rest, ctx2) ELSE {})
      BY <2>5, Reads
    <3>4. CASE Collect(e.first, ctx1, {}) # {} \/ Resolve(e.first, ctx1) # "null"
      <4>1. Collect(e, ctx1, {}) = Collect(e.first, ctx1, {})
        BY <2>5, <3>4, CollectCoalesceFresh
      <4> QED BY <3>2, <3>3, <4>1
    <3>5. CASE Collect(e.first, ctx1, {}) = {} /\ Resolve(e.first, ctx1) = "null"
      <4>1. Resolve(e.first, ctx2) = "null"
        BY <2>1, <2>5, <3>1, <3>5
      <4>2. Collect(e, ctx1, {}) = Collect(e.rest, ctx1, {})
        BY <2>5, <3>5, CollectCoalesceFresh
      <4> QED BY <3>2, <3>3, <4>1, <4>2
    <3> QED BY <3>4, <3>5
  <2>6. CASE e.op = "array"
    <3>1. {e.first, e.rest} \subseteq Parts(e) /\ {e.first, e.rest} \subseteq Expr
      BY <2>6, ExprCases
    <3>2. Lazy(e.first) /\ Lazy(e.rest)
      BY <2>1, <2>6, <3>1
    <3>3. ReadSteps(e, ctx2) = ReadSteps(e.first, ctx2) \union ReadSteps(e.rest, ctx2)
      BY <2>6, Reads
    <3> DEFINE k == Collect(e.first, ctx1, {})
    <3>4. Collect(e, ctx1, {}) = Collect(e.rest, ctx1, k)
      BY <1>0, <2>6, CollectArray
    <3>5. k \subseteq Mentioned(e.first) /\ k \subseteq Step
      BY <1>0, <3>1, CollectAddsPending DEF Pending
    <3>6. Mentioned(e.first) \intersect Mentioned(e.rest) = {} /\ Once(e.rest)
      BY <2>6, <3>1, OnceInParts
    <3> HIDE DEF k
    <3>7. k \in SUBSET Step /\ k \intersect Mentioned(e.rest) = {} /\ e.rest \in Expr
      BY <3>1, <3>5, <3>6
    <3>8. Collect(e.rest, ctx1, k) = k \union Collect(e.rest, ctx1, {})
      BY <3>6, <3>7, CollectsApart
    <3> QED BY <3>2, <3>3, <3>4, <3>8 DEF k
  <2> QED BY <2>2, <2>3, <2>4, <2>5, <2>6, ExprCases
<1> HIDE DEF Good
<1>2. Expr \subseteq Good
  BY <1>1, ExprInduction
<1> QED BY <1>2 DEF Good

-----------------------------------------------------------------------------
(* The executor: the context holds results that the steps return.          *)
TypeInv ==
    /\ expr \in Expr /\ outcome \in [Step -> Outcomes] /\ ctx \in Contexts
    /\ \A s \in Step : ctx.results[s] \in {NoResult, outcome[s]}

LEMMA FullContextExtends ==
    ASSUME TypeInv
    PROVE  /\ FullContext \in Contexts /\ Extends(FullContext, ctx)
           /\ Pending(ctx) = Step \ Completed
<1>1. outcome \in [Step -> Resolution \union {NoResult}]
  BY OutcomesAssumption DEF TypeInv
<1>2. FullContext \in Contexts
  BY <1>1 DEF FullContext, TypeInv, Contexts
<1>3. FullContext.results = outcome /\ FullContext.input = ctx.input
      /\ FullContext.variable = ctx.variable
  BY DEF FullContext, TypeInv, Contexts
<1>4. Extends(FullContext, ctx)
  BY <1>3 DEF Extends, IsCompleted, TypeInv
<1> QED BY <1>2, <1>4 DEF Pending, Completed

LEMMA StepExtends ==
    ASSUME TypeInv, [Next]_vars
    PROVE  TypeInv' /\ Extends(ctx', ctx) /\ FullContext' = FullContext
           /\ UNCHANGED <<expr, outcome>>
<1>1. CASE UNCHANGED vars
  BY <1>1 DEF TypeInv, vars, Extends, FullContext
<1>2. ASSUME NEW s \in Step, Finish(s), UNCHANGED <<expr, outcome>>
      PROVE  TypeInv' /\ Extends(ctx', ctx) /\ FullContext' = FullContext
  <2>1. outcome[s] \in Resolution
    BY OutcomesAssumption DEF TypeInv
  <2>2. ctx' \in Contexts /\ ctx'.results = [ctx.results EXCEPT ![s] = outcome[s]]
        /\ ctx'.input = ctx.input /\ ctx'.variable = ctx.variable
    BY <1>2, <2>1 DEF Finish, TypeInv, Contexts
  <2>3. ctx.results \in [Step -> Resolution \union {NoResult}]
    BY DEF TypeInv, Contexts
  <2>4. \A x \in Step : ctx'.results[x] = IF x = s THEN outcome[s] ELSE ctx.results[x]
    BY <2>2, <2>3
  <2>5. TypeInv'
    BY <1>2, <2>2, <2>4 DEF TypeInv
  <2>6. Extends(ctx', ctx)
    BY <2>2, <2>4 DEF Extends, IsCompleted, TypeInv
  <2>7. FullContext' = FullContext
    BY <1>2, <2>2 DEF FullContext, TypeInv, Contexts
  <2> QED BY <2>5, <2>6, <2>7
<1>3. CASE Next
  BY <1>2, <1>3 DEF Next, RunNeeded, RunStray
<1> QED BY <1>1, <1>3

(* The steps demanded so far are steps a lazy evaluation reads.            *)
DemandInv ==
    Once(expr) /\ HiddenSteps(expr) = {} => demanded \subseteq ReadSteps(expr, FullContext)

(* The results in the context are results of the steps, and the steps      *)
(* needed_steps has named are, for an expression that mentions no step     *)
(* twice, those that its evaluation reads: the invariant of the executor.  *)
THEOREM EvaluationInvariant == Spec => [](TypeInv /\ DemandInv)
<1>1. Init => TypeInv /\ DemandInv
  <2> SUFFICES ASSUME Init PROVE TypeInv /\ DemandInv
    OBVIOUS
  <2>1. ctx \in Contexts
    BY OutcomesAssumption DEF Init, Contexts, Resolution
  <2>2. TypeInv
    BY <2>1 DEF Init, TypeInv
  <2>3. DemandInv
    BY <2>1, <2>2, FullContextExtends, CollectsOnlyRead
    DEF DemandInv, Init, NeededSteps
  <2> QED BY <2>2, <2>3
<1>2. TypeInv /\ DemandInv /\ [Next]_vars => (TypeInv /\ DemandInv)'
  <2> SUFFICES ASSUME TypeInv, DemandInv, [Next]_vars PROVE TypeInv' /\ DemandInv'
    OBVIOUS
  <2>1. TypeInv' /\ expr' = expr /\ FullContext' = FullContext /\ Extends(ctx', ctx)
    BY StepExtends
  <2>2. demanded' \subseteq demanded \union Collect(expr, ctx', {})
    BY <2>1 DEF Next, RunNeeded, RunStray, NeededSteps, vars
  <2>3. FullContext' \in Contexts /\ Extends(FullContext', ctx')
    <3>1. (TypeInv => FullContext \in Contexts /\ Extends(FullContext, ctx))'
      BY FullContextExtends, PTL
    <3> QED BY <2>1, <3>1
  <2>4. ASSUME Once(expr), HiddenSteps(expr) = {}
        PROVE  Collect(expr, ctx', {}) \subseteq ReadSteps(expr, FullContext)
    <3>1. ctx' \in Contexts /\ expr \in Expr
      BY <2>1 DEF TypeInv
    <3> QED BY <2>1, <2>3, <2>4, <3>1, CollectsOnlyRead
  <2>5. DemandInv'
    BY <2>1, <2>2, <2>4 DEF DemandInv
  <2> QED BY <2>1, <2>5
<1> QED BY <1>1, <1>2, PTL DEF Spec

(* needed_steps empty means that the expression resolves to its final      *)
(* value, whatever the remaining steps return.                             *)
THEOREM ReadyResolvesFinally == Spec => []ResolvesWhenReady
<1>1. TypeInv => ResolvesWhenReady
  <2> SUFFICES ASSUME TypeInv, Ready, HiddenSteps(expr) \subseteq Completed
               PROVE  Resolve(expr, ctx) = Resolve(expr, FullContext)
    BY DEF ResolvesWhenReady
  <2>1. /\ FullContext \in Contexts /\ Extends(FullContext, ctx)
        /\ HiddenSteps(expr) \intersect Pending(ctx) = {}
    BY FullContextExtends
  <2> QED BY <2>1, ReadyIsFinal DEF TypeInv, Ready, Needed, NeededSteps
<1> QED BY <1>1, EvaluationInvariant, PTL

(* An expression found ready stays ready whatever completes afterwards.    *)
THEOREM ReadyStaysReady == Spec => ReadyIsStable
<1>1. TypeInv /\ [Next]_vars =>
        [Ready /\ HiddenSteps(expr) \subseteq Completed => Ready']_vars
  <2> SUFFICES ASSUME TypeInv, [Next]_vars, Ready, HiddenSteps(expr) \subseteq Completed
               PROVE  Ready'
    OBVIOUS
  <2>1. TypeInv' /\ expr' = expr /\ Extends(ctx', ctx)
    BY StepExtends
  <2>2. HiddenSteps(expr) \intersect Pending(ctx) = {}
    BY FullContextExtends
  <2>3. ctx' \in Contexts
    BY <2>1 DEF TypeInv
  <2>4. Collect(expr, ctx', {}) = {}
    BY <2>1, <2>2, <2>3, ReadyIsFinal DEF TypeInv, Ready, Needed, NeededSteps
  <2> QED BY <2>1, <2>4 DEF Ready, Needed, NeededSteps
<1> QED BY <1>1, EvaluationInvariant, PTL DEF Spec, ReadyIsStable

(* The executor runs only steps that lazy evaluation reads.                *)
THEOREM DemandsAreLazy == Spec => []LazyWhenMentionedOnce
<1>1. DemandInv => LazyWhenMentionedOnce
  BY DEF DemandInv, LazyWhenMentionedOnce, MentionsOnce, Once
<1> QED BY <1>1, EvaluationInvariant, PTL

-----------------------------------------------------------------------------
(* What ItemState assumes of the dependency analysis.  needed_steps names  *)
(* steps that the expression mentions and that have not completed ...      *)
THEOREM NeedsArePending ==
    ASSUME NEW c, NEW e \in Expr
    PROVE  NeededSteps(e, c) \subseteq {s \in Mentioned(e) : ~IsCompleted(c, s)}
<1>1. {} \in SUBSET Step
  OBVIOUS
<1>2. Collect(e, c, {}) \subseteq {} \union (Mentioned(e) \intersect Pending(c))
  BY <1>1, CollectAddsPending
<1> QED BY <1>2 DEF NeededSteps, Pending

(* ... and once it names none, it names none after another step completes, *)
(* if the steps that defaults mention have completed.                      *)
THEOREM NothingNeededIsStable ==
    ASSUME NEW c \in Contexts, NEW e \in Expr,
           \A s \in HiddenSteps(e) : IsCompleted(c, s),
           NeededSteps(e, c) = {},
           NEW d \in Step, ~IsCompleted(c, d), NEW r \in Resolution
    PROVE  NeededSteps(e, [c EXCEPT !.results[d] = r]) = {}
<1> DEFINE more == [c EXCEPT !.results[d] = r]
<1>1. c.results \in [Step -> Resolution \union {NoResult}]
  BY DEF Contexts
<1>2. more \in Contexts /\ more.input = c.input /\ more.variable = c.variable
      /\ more.results = [c.results EXCEPT ![d] = r]
  BY DEF Contexts
<1> HIDE DEF more
<1>3. Extends(more, c)
  BY <1>1, <1>2 DEF Extends, IsCompleted
<1>4. HiddenSteps(e) \intersect Pending(c) = {}
  BY DEF Pending
<1>5. Collect(e, more, {}) = {}
  BY <1>2, <1>3, <1>4, ReadyIsFinal DEF NeededSteps
<1> QED BY <1>5 DEF NeededSteps, more

=============================================================================
