------------------------ MODULE LocalCongruenceProofs ------------------------
(***************************************************************************)
(* Local congruence programs, for every template, program, database and    *)
(* hash function.                                                          *)
(*                                                                         *)
(* 1. The certificate: what compile() derives from the wiring of a template *)
(* is sound.  Two slots it proves equal have one name under every naming    *)
(* that makes the guards equal and respects the rows the proof stands on.   *)
(*                                                                         *)
(* 2. The classes a batch joins: `Linked` maps every class to the oldest    *)
(* one it is joined to, and no further.                                     *)
(*                                                                         *)
(* 3. The invariant: a frame's slots and rows stay those of one instance of *)
(* the template, and retiring a frame's duplicates at once leaves the graph *)
(* as sound as the global repair would.                                     *)
(***************************************************************************)
EXTENDS LocalCongruence, CellGraphProofs

------------------------------------------------------------------------------
(* What holds at 0 and is handed from each number to the next holds up to n. *)
LEMMA CountUp ==
    ASSUME NEW n \in Nat, NEW S, 0 \in S,
           \A k \in 0..n : k \in S /\ k < n => k + 1 \in S
    PROVE  \A k \in 0..n : k \in S
  <1> DEFINE T == {k \in 0..n : \A j \in 0..k : j \in S}
  <1>1. 0 \in T /\ T \subseteq 0..n
    OBVIOUS
  <1> HIDE DEF T
  <1>2. PICK m \in T : \A k \in T : k <= m
    BY <1>1, Largest
  <1>3. m \in 0..n /\ \A j \in 0..m : j \in S
    BY <1>2 DEF T
  <1>4. m = n
    <2> SUFFICES ASSUME m < n PROVE FALSE
      BY <1>3
    <2>1. m + 1 \in S
      BY <1>3
    <2>2. m + 1 \in T
      BY <1>3, <2>1 DEF T
    <2> QED BY <1>2, <1>3, <2>2
  <1> QED BY <1>3, <1>4

------------------------------------------------------------------------------
(* 1. The certificate.                                                      *)

(* The wiring of the template: each slot but the parameters is made by one  *)
(* let, from slots bound before it.                                         *)
LEMMA BodyShape ==
    /\ Len(Body) \in Nat \ {0} /\ Ops = 1..Len(Body)
    /\ SlotsAfter(0) = Params /\ SlotsAfter(Len(Body)) = Slots
    /\ \A i \in Ops : /\ Body[i].dst \in Slots \ Params
                      /\ OpOf(Body[i].dst) = i
                      /\ Body[i].table \in Constructors
                      /\ DOMAIN Body[i].args = 1..Arity[Body[i].table]
                      /\ \A n \in DOMAIN Body[i].args :
                            Body[i].args[n] \in SlotsAfter(i - 1)
    /\ \A s \in Slots \ Params : OpOf(s) \in Ops /\ Body[OpOf(s)].dst = s
    /\ \A k \in 0..Len(Body) : SlotsAfter(k) \subseteq Slots
    /\ \A k \in 0..Len(Body) : \A i \in 0..k : SlotsAfter(i) \subseteq SlotsAfter(k)
    /\ \A k \in 0..Len(Body) : \A s \in SlotsAfter(k) \ Params : OpOf(s) <= k
    /\ \A k \in 0..Len(Body) : k < Len(Body) =>
            SlotsAfter(k + 1) = SlotsAfter(k) \cup {Body[k + 1].dst}
  <1> DEFINE n == Len(Body)
  <1>1. /\ n \in Nat \ {0} /\ Ops = 1..n
        /\ \A i \in Ops :
            /\ Body[i].dst \notin SlotsAfter(i - 1)
            /\ Body[i].table \in Constructors
            /\ Body[i].args \in [1..Arity[Body[i].table] -> SlotsAfter(i - 1)]
    BY BodyAssumption
  <1> HIDE DEF n
  <1>2. SlotsAfter(0) = Params /\ SlotsAfter(n) = Slots
    BY <1>1 DEF SlotsAfter, Slots
  <1>3. \A k \in 0..n : \A i \in 0..k : SlotsAfter(i) \subseteq SlotsAfter(k)
    BY <1>1 DEF SlotsAfter
  <1>4. \A k \in 0..n : SlotsAfter(k) \subseteq Slots
    BY <1>1, <1>2, <1>3
  <1>5. \A i, j \in Ops : i < j => Body[i].dst # Body[j].dst
    <2> SUFFICES ASSUME NEW i \in Ops, NEW j \in Ops, i < j
                 PROVE  Body[i].dst # Body[j].dst
      OBVIOUS
    <2>1. i \in 1..(j - 1)
      BY <1>1
    <2>2. Body[i].dst \in SlotsAfter(j - 1)
      BY <2>1 DEF SlotsAfter
    <2> QED BY <1>1, <2>2
  <1>6. \A i, j \in Ops : Body[i].dst = Body[j].dst => i = j
    BY <1>1, <1>5
  <1>7. \A i \in Ops : Body[i].dst \in Slots \ Params /\ OpOf(Body[i].dst) = i
    <2> SUFFICES ASSUME NEW i \in Ops
                 PROVE  Body[i].dst \in Slots \ Params /\ OpOf(Body[i].dst) = i
      OBVIOUS
    <2>1. Body[i].dst \in Slots /\ Body[i].dst \notin Params
      BY <1>1 DEF Slots, SlotsAfter
    <2>2. OpOf(Body[i].dst) = i
      BY <1>6 DEF OpOf
    <2> QED BY <2>1, <2>2
  <1>8. \A s \in Slots \ Params : OpOf(s) \in Ops /\ Body[OpOf(s)].dst = s
    <2> SUFFICES ASSUME NEW s \in Slots \ Params
                 PROVE  OpOf(s) \in Ops /\ Body[OpOf(s)].dst = s
      OBVIOUS
    <2>1. \E i \in Ops : Body[i].dst = s
      BY DEF Slots
    <2> QED BY <2>1 DEF OpOf
  <1>9. \A k \in 0..n : \A s \in SlotsAfter(k) \ Params : OpOf(s) <= k
    <2> SUFFICES ASSUME NEW k \in 0..n, NEW s \in SlotsAfter(k) \ Params
                 PROVE  OpOf(s) <= k
      OBVIOUS
    <2>1. PICK i \in 1..k : Body[i].dst = s
      BY DEF SlotsAfter
    <2>2. i \in Ops
      BY <1>1
    <2> QED BY <1>1, <1>7, <2>1, <2>2
  <1>10. \A k \in 0..n : k < n => SlotsAfter(k + 1) = SlotsAfter(k) \cup {Body[k + 1].dst}
    <2> SUFFICES ASSUME NEW k \in 0..n, k < n
                 PROVE  SlotsAfter(k + 1) = SlotsAfter(k) \cup {Body[k + 1].dst}
      OBVIOUS
    <2>1. 1..(k + 1) = (1..k) \cup {k + 1}
      BY <1>1
    <2> QED BY <2>1 DEF SlotsAfter
  <1>11. \A i \in Ops : /\ DOMAIN Body[i].args = 1..Arity[Body[i].table]
                        /\ \A m \in DOMAIN Body[i].args :
                              Body[i].args[m] \in SlotsAfter(i - 1)
    BY <1>1
  <1> QED BY <1>1, <1>2, <1>3, <1>4, <1>7, <1>8, <1>9, <1>10, <1>11 DEF n

(* The arguments of a slot bound by let k + 1 at the latest are bound by    *)
(* let k at the latest.                                                     *)
LEMMA ArgsEarlier ==
    ASSUME NEW k \in 0..Len(Body), k < Len(Body), NEW s \in SlotsAfter(k + 1) \ Params,
           NEW m \in DOMAIN Body[OpOf(s)].args
    PROVE  Body[OpOf(s)].args[m] \in SlotsAfter(k)
  <1> DEFINE i == OpOf(s)
  <1>1. Len(Body) \in Nat \ {0} /\ Ops = 1..Len(Body) /\ k + 1 \in 0..Len(Body)
    BY BodyShape
  <1>2. s \in Slots \ Params /\ i <= k + 1
    BY <1>1, BodyShape
  <1>3. i \in Ops
    BY <1>2, BodyShape
  <1> HIDE DEF i
  <1>4. i - 1 \in 0..k
    BY <1>1, <1>2, <1>3
  <1>5. Body[i].args[m] \in SlotsAfter(i - 1)
    BY <1>3, BodyShape DEF i
  <1>6. SlotsAfter(i - 1) \subseteq SlotsAfter(k)
    BY <1>4, BodyShape
  <1> QED BY <1>5, <1>6 DEF i

(* One unfolding of the recursive function that computes shapes.            *)
ShapeStep(f, s) ==
    IF s \in Params THEN <<>>
    ELSE <<Body[OpOf(s)].table,
           [n \in DOMAIN Body[OpOf(s)].args |-> f[Body[OpOf(s)].args[n]]]>>
Shapes(f) ==
    f = [s \in Slots |->
            IF s \in Params THEN <<>>
            ELSE <<Body[OpOf(s)].table,
                   [n \in DOMAIN Body[OpOf(s)].args |-> f[Body[OpOf(s)].args[n]]]>>]

(* Every slot has a shape: the wiring is acyclic.                           *)
LEMMA ShapeIs == \A s \in Slots : Shape[s] = ShapeStep(Shape, s)
  <1> DEFINE n == Len(Body)
             Upto(k, f) == f = [s \in SlotsAfter(k) |-> ShapeStep(f, s)]
             S == {k \in 0..n : \E f : Upto(k, f)}
  <1>1. n \in Nat
    BY BodyShape
  <1>2. 0 \in S
    <2>1. PICK f : f = [s \in Params |-> <<>>]
      OBVIOUS
    <2>2. f = [s \in Params |-> ShapeStep(f, s)]
      BY <2>1 DEF ShapeStep
    <2>3. Upto(0, f)
      BY <2>2, BodyShape
    <2> QED BY <1>1, <2>3
  <1>3. ASSUME NEW k \in 0..n, k \in S, k < n PROVE k + 1 \in S
    <2>1. PICK f : Upto(k, f)
      BY <1>3
    <2>2. \A s \in SlotsAfter(k) : f[s] = ShapeStep(f, s)
      <3> HIDE DEF n
      <3> QED BY <2>1 DEF ShapeStep
    <2>3. PICK g : g = [s \in SlotsAfter(k + 1) |->
                          IF s \in SlotsAfter(k) THEN f[s] ELSE ShapeStep(f, s)]
      OBVIOUS
    <2>4. SlotsAfter(k) \subseteq SlotsAfter(k + 1)
      BY <1>1, <1>3, BodyShape
    <2>5. ASSUME NEW s \in SlotsAfter(k + 1)
          PROVE  ShapeStep(g, s) = ShapeStep(f, s)
      <3>1. CASE s \in Params
        BY <3>1 DEF ShapeStep
      <3>2. CASE s \notin Params
        <4>1. \A m \in DOMAIN Body[OpOf(s)].args :
                g[Body[OpOf(s)].args[m]] = f[Body[OpOf(s)].args[m]]
          BY <1>3, <2>3, <2>4, <3>2, ArgsEarlier
        <4> QED BY <3>2, <4>1 DEF ShapeStep
      <3> QED BY <3>1, <3>2
    <2>6. \A s \in SlotsAfter(k + 1) : g[s] = ShapeStep(g, s)
      <3> SUFFICES ASSUME NEW s \in SlotsAfter(k + 1) PROVE g[s] = ShapeStep(g, s)
        OBVIOUS
      <3>1. g[s] = ShapeStep(f, s)
        BY <2>2, <2>3
      <3> QED BY <2>5, <3>1
    <2>7. g = [s \in SlotsAfter(k + 1) |-> g[s]]
      BY <2>3
    <2>8. Upto(k + 1, g)
      BY <2>6, <2>7
    <2> QED BY <1>1, <1>3, <2>8
  <1> HIDE DEF S
  <1>4. n \in S
    <2>1. \A k \in 0..n : k \in S /\ k < n => k + 1 \in S
      BY <1>3
    <2> HIDE DEF n
    <2>2. \A k \in 0..n : k \in S
      BY <1>1, <1>2, <2>1, CountUp
    <2> QED BY <1>1, <2>2
  <1>5. PICK f : Upto(n, f)
    BY <1>4 DEF S
  <1>6. f = [s \in Slots |-> ShapeStep(f, s)]
    BY <1>5, BodyShape
  <1>7. Shapes(f)
    BY <1>6 DEF Shapes, ShapeStep
  <1>8. Shape = CHOOSE g : Shapes(g)
    BY DEF Shape, Shapes
  <1>9. Shapes(Shape)
    BY <1>7, <1>8
  <1> QED BY <1>9 DEF Shapes, ShapeStep

(* The shape of a row's slot: its table and the shapes of its arguments.    *)
ArgShapes(s) == [n \in DOMAIN Body[OpOf(s)].args |-> Shape[Body[OpOf(s)].args[n]]]
LEMMA ShapeOfRow ==
    ASSUME NEW s \in Slots \ Params
    PROVE  /\ Shape[s][1] = Body[OpOf(s)].table
           /\ Shape[s][2] = ArgShapes(s)
           /\ Shape[s] # <<>>
  <1>1. Shape[s] = <<Body[OpOf(s)].table, ArgShapes(s)>>
    <2>1. Shape[s] = ShapeStep(Shape, s)
      BY ShapeIs
    <2> QED BY <2>1 DEF ShapeStep, ArgShapes
  <1> QED BY <1>1

(* Slots of one shape are parameters, or rows of one table whose arguments  *)
(* have one shape each.                                                     *)
LEMMA SameShape ==
    ASSUME NEW a \in Slots, NEW b \in Slots, Shape[a] = Shape[b]
    PROVE  \/ a \in Params /\ b \in Params
           \/ /\ a \notin Params /\ b \notin Params
              /\ Body[OpOf(a)].table = Body[OpOf(b)].table
              /\ \A n \in DOMAIN Body[OpOf(a)].args :
                    Shape[Body[OpOf(a)].args[n]] = Shape[Body[OpOf(b)].args[n]]
  <1>1. \A s \in Slots \cap Params : Shape[s] = <<>>
    <2>1. \A s \in Slots : Shape[s] = ShapeStep(Shape, s)
      BY ShapeIs
    <2> QED BY <2>1 DEF ShapeStep
  <1>2. \A s \in Slots \ Params : Shape[s] # <<>>
    BY ShapeOfRow
  <1>3. CASE a \in Params /\ b \in Params
    BY <1>3
  <1>4. CASE a \notin Params /\ b \notin Params
    <2>1. Body[OpOf(a)].table = Body[OpOf(b)].table
      BY <1>4, ShapeOfRow
    <2>2. DOMAIN Body[OpOf(a)].args = DOMAIN Body[OpOf(b)].args
      BY <1>4, <2>1, BodyShape
    <2>3. ArgShapes(a) = ArgShapes(b)
      BY <1>4, ShapeOfRow
    <2>4. ASSUME NEW n \in DOMAIN Body[OpOf(a)].args
          PROVE  Shape[Body[OpOf(a)].args[n]] = Shape[Body[OpOf(b)].args[n]]
      <3>1. ArgShapes(a)[n] = ArgShapes(b)[n]
        BY <2>3
      <3> QED BY <2>2, <3>1 DEF ArgShapes
    <2> QED BY <1>4, <2>1, <2>4
  <1> QED BY <1>1, <1>2, <1>3, <1>4

(* One unfolding of prove().                                                *)
ArgProof(f, i, j, n) == f[<<Body[i].args[n], Body[j].args[n]>>]
ArgProofs(f, i, j) == UNION {ArgProof(f, i, j, n) : n \in DOMAIN Body[i].args}
Leaf(p) == p[1] \in Params \/ p[2] \in Params \/ Shape[p[1]][1] # Shape[p[2]][1]
Deeper(f, i, j) ==
    IF \E n \in DOMAIN Body[i].args : ArgProof(f, i, j, n) = {} THEN {}
    ELSE {[guards |-> UNION {x.guards : x \in ArgProofs(f, i, j)},
           requires |-> {i, j} \cup UNION {x.requires : x \in ArgProofs(f, i, j)}]}
ProofStep(f, p) ==
    IF p[1] = p[2] THEN {[guards |-> {}, requires |-> {}]}
    ELSE IF Leaf(p) THEN {[guards |-> {{p[1], p[2]}}, requires |-> {}]}
    ELSE Deeper(f, OpOf(p[1]), OpOf(p[2]))
Proves(f) ==
    f = [p \in Slots \X Slots |->
            IF p[1] = p[2] THEN {[guards |-> {}, requires |-> {}]}
            ELSE IF p[1] \in Params \/ p[2] \in Params \/ Shape[p[1]][1] # Shape[p[2]][1]
            THEN {[guards |-> {{p[1], p[2]}}, requires |-> {}]}
            ELSE LET i == OpOf(p[1])
                     j == OpOf(p[2])
                     arg(n) == f[<<Body[i].args[n], Body[j].args[n]>>]
                     proofs == UNION {arg(n) : n \in DOMAIN Body[i].args}
                 IN  IF \E n \in DOMAIN Body[i].args : arg(n) = {} THEN {}
                     ELSE {[guards |-> UNION {x.guards : x \in proofs},
                            requires |-> {i, j} \cup UNION {x.requires : x \in proofs}]}]

LEMMA DeeperIsLocal ==
    ASSUME NEW f, NEW g, NEW i, NEW j,
           \A n \in DOMAIN Body[i].args : ArgProof(f, i, j, n) = ArgProof(g, i, j, n)
    PROVE  Deeper(f, i, j) = Deeper(g, i, j)
  <1>1. ArgProofs(f, i, j) = ArgProofs(g, i, j)
    BY DEF ArgProofs
  <1> QED BY <1>1 DEF Deeper

(* Two rows of one table take equally many arguments, each bound earlier.   *)
LEMMA PairArgs ==
    ASSUME NEW k \in 0..Len(Body), k < Len(Body),
           NEW p \in SlotsAfter(k + 1) \X SlotsAfter(k + 1), ~ Leaf(p),
           NEW n \in DOMAIN Body[OpOf(p[1])].args
    PROVE  <<Body[OpOf(p[1])].args[n], Body[OpOf(p[2])].args[n]>>
             \in SlotsAfter(k) \X SlotsAfter(k)
  <1>1. p[1] \in SlotsAfter(k + 1) \ Params /\ p[2] \in SlotsAfter(k + 1) \ Params
    BY DEF Leaf
  <1>2. k + 1 \in 0..Len(Body)
    BY BodyShape
  <1>3. p[1] \in Slots \ Params /\ p[2] \in Slots \ Params
    BY <1>1, <1>2, BodyShape
  <1>4. Shape[p[1]][1] = Body[OpOf(p[1])].table /\ Shape[p[2]][1] = Body[OpOf(p[2])].table
    BY <1>3, ShapeOfRow
  <1>5. DOMAIN Body[OpOf(p[1])].args = DOMAIN Body[OpOf(p[2])].args
    BY <1>3, <1>4, BodyShape DEF Leaf
  <1> QED BY <1>1, <1>5, ArgsEarlier

(* Every pair of slots has its proof, or none.                              *)
LEMMA ProofIs == \A p \in Slots \X Slots : Proof[p] = ProofStep(Proof, p)
  <1> DEFINE n == Len(Body)
             Pairs(k) == SlotsAfter(k) \X SlotsAfter(k)
             Upto(k, f) == f = [p \in Pairs(k) |-> ProofStep(f, p)]
             S == {k \in 0..n : \E f : Upto(k, f)}
  <1>1. n \in Nat
    BY BodyShape
  <1>2. 0 \in S
    <2>1. PICK f : f = [p \in Pairs(0) |-> ProofStep(Proof, p)]
      OBVIOUS
    <2>2. ASSUME NEW p \in Pairs(0)
          PROVE  ProofStep(f, p) = ProofStep(Proof, p)
      <3>1. Leaf(p)
        BY BodyShape DEF Leaf
      <3> QED BY <3>1 DEF ProofStep
    <2> HIDE DEF Pairs
    <2>3. f = [p \in Pairs(0) |-> ProofStep(f, p)]
      BY <2>1, <2>2
    <2> QED BY <1>1, <2>3
  <1>3. ASSUME NEW k \in 0..n, k \in S, k < n PROVE k + 1 \in S
    <2>1. PICK f : Upto(k, f)
      BY <1>3
    <2>2. \A p \in Pairs(k) : f[p] = ProofStep(f, p)
      <3>1. f = [p \in Pairs(k) |-> ProofStep(f, p)]
        BY <2>1
      <3> HIDE DEF Pairs
      <3> QED BY <3>1
    <2>3. PICK g : g = [p \in Pairs(k + 1) |-> IF p \in Pairs(k) THEN f[p] ELSE ProofStep(f, p)]
      OBVIOUS
    <2>4. Pairs(k) \subseteq Pairs(k + 1)
      <3>1. SlotsAfter(k) \subseteq SlotsAfter(k + 1)
        BY <1>1, <1>3, BodyShape
      <3> QED BY <3>1
    <2>5. ASSUME NEW p \in Pairs(k + 1)
          PROVE  ProofStep(g, p) = ProofStep(f, p)
      <3>1. CASE p[1] = p[2] \/ Leaf(p)
        BY <3>1 DEF ProofStep
      <3>2. CASE ~ Leaf(p)
        <4>1. ASSUME NEW m \in DOMAIN Body[OpOf(p[1])].args
              PROVE  ArgProof(g, OpOf(p[1]), OpOf(p[2]), m) = ArgProof(f, OpOf(p[1]), OpOf(p[2]), m)
          <5>1. <<Body[OpOf(p[1])].args[m], Body[OpOf(p[2])].args[m]>> \in Pairs(k)
            BY <1>3, <3>2, PairArgs
          <5> HIDE DEF Pairs
          <5> QED BY <2>3, <2>4, <5>1 DEF ArgProof
        <4>2. Deeper(g, OpOf(p[1]), OpOf(p[2])) = Deeper(f, OpOf(p[1]), OpOf(p[2]))
          BY <4>1, DeeperIsLocal
        <4> QED BY <4>2 DEF ProofStep
      <3> QED BY <3>1, <3>2
    <2> HIDE DEF Pairs
    <2>6. \A p \in Pairs(k + 1) : g[p] = ProofStep(g, p)
      <3> SUFFICES ASSUME NEW p \in Pairs(k + 1) PROVE g[p] = ProofStep(g, p)
        OBVIOUS
      <3>1. g[p] = ProofStep(f, p)
        BY <2>2, <2>3
      <3> QED BY <2>5, <3>1
    <2>7. g = [p \in Pairs(k + 1) |-> g[p]]
      BY <2>3
    <2>8. Upto(k + 1, g)
      BY <2>6, <2>7
    <2> QED BY <1>1, <1>3, <2>8
  <1> HIDE DEF S
  <1>4. n \in S
    <2>1. \A k \in 0..n : k \in S /\ k < n => k + 1 \in S
      BY <1>3
    <2> HIDE DEF n
    <2>2. \A k \in 0..n : k \in S
      BY <1>1, <1>2, <2>1, CountUp
    <2> QED BY <1>1, <2>2
  <1>5. PICK f : Upto(n, f)
    BY <1>4 DEF S
  <1>6. f = [p \in Slots \X Slots |-> ProofStep(f, p)]
    BY <1>5, BodyShape
  <1>7. \A g : Proves(g) <=> g = [p \in Slots \X Slots |-> ProofStep(g, p)]
    BY DEF Proves, ProofStep, Leaf, Deeper, ArgProofs, ArgProof
  <1>8. Proof = CHOOSE g : Proves(g)
    BY DEF Proof, Proves
  <1>9. Proves(Proof)
    BY <1>6, <1>7, <1>8
  <1>10. Proof = [p \in Slots \X Slots |-> ProofStep(Proof, p)]
    BY <1>7, <1>9
  <1> QED BY <1>10

(* Rows of one table: their lets, and their arguments pair by pair.         *)
LEMMA RowPair ==
    ASSUME NEW p \in Slots \X Slots, ~ Leaf(p)
    PROVE  /\ p[1] \in Slots \ Params /\ p[2] \in Slots \ Params
           /\ OpOf(p[1]) \in Ops /\ OpOf(p[2]) \in Ops
           /\ Body[OpOf(p[1])].dst = p[1] /\ Body[OpOf(p[2])].dst = p[2]
           /\ Body[OpOf(p[1])].table = Body[OpOf(p[2])].table
           /\ DOMAIN Body[OpOf(p[1])].args = DOMAIN Body[OpOf(p[2])].args
           /\ \A n \in DOMAIN Body[OpOf(p[1])].args :
                /\ Body[OpOf(p[1])].args[n] \in Slots
                /\ Body[OpOf(p[2])].args[n] \in Slots
  <1>1. p[1] \in Slots \ Params /\ p[2] \in Slots \ Params
    BY DEF Leaf
  <1>2. /\ OpOf(p[1]) \in Ops /\ OpOf(p[2]) \in Ops
        /\ Body[OpOf(p[1])].dst = p[1] /\ Body[OpOf(p[2])].dst = p[2]
    BY <1>1, BodyShape
  <1>3. Body[OpOf(p[1])].table = Body[OpOf(p[2])].table
    BY <1>1, ShapeOfRow DEF Leaf
  <1>4. DOMAIN Body[OpOf(p[1])].args = DOMAIN Body[OpOf(p[2])].args
    BY <1>2, <1>3, BodyShape
  <1>5. \A i \in Ops : \A n \in DOMAIN Body[i].args : Body[i].args[n] \in Slots
    <2> SUFFICES ASSUME NEW i \in Ops, NEW n \in DOMAIN Body[i].args
                 PROVE  Body[i].args[n] \in Slots
      OBVIOUS
    <2>1. i - 1 \in 0..Len(Body)
      BY BodyShape
    <2> QED BY <2>1, BodyShape
  <1> QED BY <1>1, <1>2, <1>3, <1>4, <1>5

(* A proof about two rows stands on both and on a proof for each argument.  *)
LEMMA DeepProof ==
    ASSUME NEW p \in Slots \X Slots, p[1] # p[2], ~ Leaf(p), NEW x \in Proof[p]
    PROVE  /\ {OpOf(p[1]), OpOf(p[2])} \subseteq x.requires
           /\ \A n \in DOMAIN Body[OpOf(p[1])].args :
                \E y \in Proof[<<Body[OpOf(p[1])].args[n], Body[OpOf(p[2])].args[n]>>] :
                    y.guards \subseteq x.guards /\ y.requires \subseteq x.requires
  <1>1. PICK i \in Ops, j \in Ops : i = OpOf(p[1]) /\ j = OpOf(p[2])
    BY RowPair
  <1>2. Proof[p] = Deeper(Proof, i, j)
    BY <1>1, ProofIs DEF ProofStep
  <1>3. /\ \A n \in DOMAIN Body[i].args : ArgProof(Proof, i, j, n) # {}
        /\ x.guards = UNION {y.guards : y \in ArgProofs(Proof, i, j)}
        /\ x.requires = {i, j} \cup UNION {y.requires : y \in ArgProofs(Proof, i, j)}
    BY <1>2 DEF Deeper
  <1>4. ASSUME NEW n \in DOMAIN Body[i].args
        PROVE  \E y \in Proof[<<Body[i].args[n], Body[j].args[n]>>] :
                  y.guards \subseteq x.guards /\ y.requires \subseteq x.requires
    <2>1. PICK y \in ArgProof(Proof, i, j, n) : TRUE
      BY <1>3
    <2>2. y \in ArgProofs(Proof, i, j)
      BY DEF ArgProofs
    <2>3. y.guards \subseteq x.guards /\ y.requires \subseteq x.requires
      BY <1>3, <2>2
    <2> QED BY <2>1, <2>3 DEF ArgProof
  <1> QED BY <1>1, <1>3, <1>4

(* A proof about a parameter, or rows of two tables, is the guard itself.   *)
LEMMA FlatProof ==
    ASSUME NEW p \in Slots \X Slots, p[1] # p[2], Leaf(p), NEW x \in Proof[p]
    PROVE  x.guards = {{p[1], p[2]}}
  <1>1. Proof[p] = {[guards |-> {{p[1], p[2]}}, requires |-> {}]}
    BY ProofIs DEF ProofStep
  <1> QED BY <1>1

(* Rows that respect a naming: same names in the key, same name of the value. *)
Respected(val, G) ==
    \A i, j \in G \cap Ops :
        /\ Body[i].table = Body[j].table
        /\ \A n \in DOMAIN Body[i].args : val[Body[i].args[n]] = val[Body[j].args[n]]
        => val[Body[i].dst] = val[Body[j].dst]
Holds(val, G, x) ==
    /\ \A g \in x.guards : \A a, b \in g \cap Slots : val[a] = val[b]
    /\ x.requires \subseteq G

(* What compile() proves is true under every naming that its guards and the *)
(* rows it requires respect.                                                *)
LEMMA ProofSound ==
    ASSUME NEW val, NEW G, Respected(val, G),
           NEW p \in Slots \X Slots, NEW x \in Proof[p], Holds(val, G, x)
    PROVE  val[p[1]] = val[p[2]]
  <1> DEFINE n == Len(Body)
             Pairs(k) == SlotsAfter(k) \X SlotsAfter(k)
             True(k) == \A q \in Pairs(k) : \A y \in Proof[q] :
                            Holds(val, G, y) => val[q[1]] = val[q[2]]
             S == {k \in 0..n : True(k)}
  <1>1. n \in Nat /\ \A k \in 0..n : Pairs(k) \subseteq Slots \X Slots
    BY BodyShape
  <1>2. ASSUME NEW q \in Slots \X Slots, q[1] # q[2], Leaf(q), NEW y \in Proof[q],
               Holds(val, G, y)
        PROVE  val[q[1]] = val[q[2]]
    <2>1. {q[1], q[2]} \in y.guards
      BY <1>2, FlatProof
    <2> QED BY <1>2, <2>1 DEF Holds
  <1>3. 0 \in S
    <2>1. ASSUME NEW q \in Pairs(0), NEW y \in Proof[q], Holds(val, G, y)
          PROVE  val[q[1]] = val[q[2]]
      <3>1. Leaf(q) /\ q \in Slots \X Slots
        BY <1>1, BodyShape DEF Leaf
      <3> QED BY <1>2, <2>1, <3>1
    <2> QED BY <1>1, <2>1
  <1>4. ASSUME NEW k \in 0..n, k \in S, k < n PROVE k + 1 \in S
    <2>1. ASSUME NEW q \in Pairs(k + 1), NEW y \in Proof[q], Holds(val, G, y)
          PROVE  val[q[1]] = val[q[2]]
      <3>1. q \in Slots \X Slots
        BY <1>1, <1>4
      <3>2. CASE q[1] = q[2]
        BY <3>2
      <3>3. CASE q[1] # q[2] /\ Leaf(q)
        BY <1>2, <2>1, <3>1, <3>3
      <3>4. CASE q[1] # q[2] /\ ~ Leaf(q)
        <4>1. PICK i \in Ops, j \in Ops : i = OpOf(q[1]) /\ j = OpOf(q[2])
          BY <3>1, <3>4, RowPair
        <4>2. /\ Body[i].dst = q[1] /\ Body[j].dst = q[2]
              /\ Body[i].table = Body[j].table
          BY <3>1, <3>4, <4>1, RowPair
        <4>3. i \in G /\ j \in G
          BY <2>1, <3>1, <3>4, <4>1, DeepProof DEF Holds
        <4>4. ASSUME NEW m \in DOMAIN Body[i].args
              PROVE  val[Body[i].args[m]] = val[Body[j].args[m]]
          <5> DEFINE r == <<Body[i].args[m], Body[j].args[m]>>
          <5>1. PICK z \in Proof[r] : z.guards \subseteq y.guards /\ z.requires \subseteq y.requires
            BY <3>1, <3>4, <4>1, DeepProof
          <5>2. Holds(val, G, z)
            BY <2>1, <5>1 DEF Holds
          <5>3. r \in Pairs(k)
            BY <1>4, <3>4, <4>1, PairArgs
          <5>4. r[1] = Body[i].args[m] /\ r[2] = Body[j].args[m]
            OBVIOUS
          <5>5. \A s \in Pairs(k) : \A w \in Proof[s] : Holds(val, G, w) => val[s[1]] = val[s[2]]
            BY <1>4
          <5> HIDE DEF r, Pairs
          <5> QED BY <5>1, <5>2, <5>3, <5>4, <5>5
        <4> QED BY <4>2, <4>3, <4>4 DEF Respected
      <3> QED BY <3>2, <3>3, <3>4
    <2>2. True(k + 1)
      BY <2>1
    <2> HIDE DEF True
    <2> QED BY <1>1, <1>4, <2>2
  <1> HIDE DEF S
  <1>5. n \in S
    <2>1. \A k \in 0..n : k \in S /\ k < n => k + 1 \in S
      BY <1>4
    <2> HIDE DEF n
    <2>2. \A k \in 0..n : k \in S
      BY <1>1, <1>3, <2>1, CountUp
    <2> QED BY <1>1, <2>2
  <1>6. True(n)
    BY <1>5 DEF S
  <1>7. p \in Pairs(n)
    BY BodyShape
  <1> QED BY <1>6, <1>7

(* A proof reads the same from both sides.                                  *)
LEMMA ProofSymmetric ==
    ASSUME NEW a \in Slots, NEW b \in Slots
    PROVE  Proof[<<a, b>>] = Proof[<<b, a>>]
  <1> DEFINE n == Len(Body)
             Same(k) == \A s, t \in SlotsAfter(k) : Proof[<<s, t>>] = Proof[<<t, s>>]
             S == {k \in 0..n : Same(k)}
  <1>1. n \in Nat /\ \A k \in 0..n : SlotsAfter(k) \subseteq Slots
    BY BodyShape
  <1>2. ASSUME NEW s \in Slots, NEW t \in Slots, s = t \/ Leaf(<<s, t>>)
        PROVE  Proof[<<s, t>>] = Proof[<<t, s>>]
    <2>1. Leaf(<<s, t>>) <=> Leaf(<<t, s>>)
      BY DEF Leaf
    <2>2. ProofStep(Proof, <<s, t>>) = ProofStep(Proof, <<t, s>>)
      <3>1. CASE s = t
        BY <3>1
      <3>2. CASE s # t
        <4>1. /\ ProofStep(Proof, <<s, t>>) = {[guards |-> {{s, t}}, requires |-> {}]}
              /\ ProofStep(Proof, <<t, s>>) = {[guards |-> {{t, s}}, requires |-> {}]}
          BY <1>2, <2>1, <3>2 DEF ProofStep
        <4>2. {s, t} = {t, s}
          OBVIOUS
        <4> QED BY <4>1, <4>2
      <3> QED BY <3>1, <3>2
    <2> QED BY <2>2, ProofIs
  <1>3. 0 \in S
    <2>1. ASSUME NEW s \in SlotsAfter(0), NEW t \in SlotsAfter(0)
          PROVE  Proof[<<s, t>>] = Proof[<<t, s>>]
      <3>1. s \in Slots /\ t \in Slots /\ Leaf(<<s, t>>)
        BY <1>1, BodyShape DEF Leaf
      <3> QED BY <1>2, <3>1
    <2> QED BY <1>1, <2>1
  <1>4. ASSUME NEW k \in 0..n, k \in S, k < n PROVE k + 1 \in S
    <2>1. ASSUME NEW s \in SlotsAfter(k + 1), NEW t \in SlotsAfter(k + 1)
          PROVE  Proof[<<s, t>>] = Proof[<<t, s>>]
      <3>1. s \in Slots /\ t \in Slots
        BY <1>1, <1>4
      <3>2. CASE s = t \/ Leaf(<<s, t>>)
        BY <1>2, <3>1, <3>2
      <3>3. CASE s # t /\ ~ Leaf(<<s, t>>)
        <4> DEFINE i == OpOf(s)
                   j == OpOf(t)
        <4>1. DOMAIN Body[i].args = DOMAIN Body[j].args
          BY <3>1, <3>3, RowPair
        <4>2. ASSUME NEW m \in DOMAIN Body[i].args
              PROVE  ArgProof(Proof, i, j, m) = ArgProof(Proof, j, i, m)
          <5>1. Body[i].args[m] \in SlotsAfter(k) /\ Body[j].args[m] \in SlotsAfter(k)
            <6>1. PICK p \in SlotsAfter(k + 1) \X SlotsAfter(k + 1) :
                    p = <<s, t>> /\ p[1] = s /\ p[2] = t
              <7>1. <<s, t>> \in SlotsAfter(k + 1) \X SlotsAfter(k + 1)
                OBVIOUS
              <7>2. <<s, t>>[1] = s /\ <<s, t>>[2] = t
                OBVIOUS
              <7> QED BY <7>1, <7>2
            <6>2. ~ Leaf(p)
              BY <3>3, <6>1
            <6>3. <<Body[OpOf(p[1])].args[m], Body[OpOf(p[2])].args[m]>>
                     \in SlotsAfter(k) \X SlotsAfter(k)
              BY <1>4, <6>1, <6>2, PairArgs
            <6> QED BY <6>1, <6>3
          <5> HIDE DEF i, j
          <5> QED BY <1>4, <5>1 DEF ArgProof
        <4>3. ~ Leaf(<<t, s>>)
          BY <3>3 DEF Leaf
        <4> HIDE DEF i, j
        <4>4. ArgProofs(Proof, i, j) = ArgProofs(Proof, j, i)
          BY <4>1, <4>2 DEF ArgProofs
        <4>5. {i, j} = {j, i}
          OBVIOUS
        <4>6. Deeper(Proof, i, j) = Deeper(Proof, j, i)
          BY <4>1, <4>2, <4>4, <4>5 DEF Deeper
        <4>7. /\ ProofStep(Proof, <<s, t>>) = Deeper(Proof, i, j)
              /\ ProofStep(Proof, <<t, s>>) = Deeper(Proof, j, i)
          BY <3>3, <4>3 DEF ProofStep, i, j
        <4> QED BY <3>1, <4>6, <4>7, ProofIs
      <3> QED BY <3>2, <3>3
    <2> QED BY <1>1, <1>4, <2>1
  <1> HIDE DEF S
  <1>5. n \in S
    <2>1. \A k \in 0..n : k \in S /\ k < n => k + 1 \in S
      BY <1>4
    <2> HIDE DEF n
    <2>2. \A k \in 0..n : k \in S
      BY <1>1, <1>3, <2>1, CountUp
    <2> QED BY <1>1, <2>2
  <1>6. Same(n) /\ SlotsAfter(n) = Slots
    BY <1>5, BodyShape DEF S
  <1> QED BY <1>6

(* Two lets come one before the other.                                      *)
LEMMA OpsOrdered ==
    \A i, j \in Ops : (i < j => i # j) /\ (i # j => i < j \/ j < i)
  <1>1. Ops \subseteq Int
    BY BodyShape
  <1> QED BY <1>1

(* The merges compile() writes down: two rows of one shape and their proof. *)
Merge(i, j, x) == [left |-> i, right |-> j, guards |-> x.guards, requires |-> x.requires]
LEMMA CompileIs ==
    ASSUME NEW m
    PROVE  m \in Compile <=>
             \E i, j \in Ops : /\ i < j /\ Shape[Body[i].dst] = Shape[Body[j].dst]
                               /\ \E x \in Proof[<<Body[i].dst, Body[j].dst>>] : m = Merge(i, j, x)
  <1> DEFINE Pairs == {p \in Ops \X Ops :
                          p[1] < p[2] /\ Shape[Body[p[1]].dst] = Shape[Body[p[2]].dst]}
             Of(e) == {Merge(e[1], e[2], x) : x \in Proof[<<Body[e[1]].dst, Body[e[2]].dst>>]}
  <1>1. Compile = UNION {Of(e) : e \in Pairs}
    BY DEF Compile, Merge
  <1>2. m \in Compile <=> \E e \in Pairs : m \in Of(e)
    <2> HIDE DEF Pairs, Of
    <2> QED BY <1>1
  <1>3. ASSUME NEW e \in Pairs, m \in Of(e)
        PROVE  \E i, j \in Ops : /\ i < j /\ Shape[Body[i].dst] = Shape[Body[j].dst]
                                 /\ \E x \in Proof[<<Body[i].dst, Body[j].dst>>] : m = Merge(i, j, x)
    <2>1. PICK i \in Ops, j \in Ops : e[1] = i /\ e[2] = j
      OBVIOUS
    <2>2. i < j /\ Shape[Body[i].dst] = Shape[Body[j].dst]
      BY <2>1
    <2>3. \E x \in Proof[<<Body[i].dst, Body[j].dst>>] : m = Merge(i, j, x)
      BY <1>3, <2>1
    <2> QED BY <2>2, <2>3
  <1>4. ASSUME NEW i \in Ops, NEW j \in Ops, i < j, Shape[Body[i].dst] = Shape[Body[j].dst],
               NEW x \in Proof[<<Body[i].dst, Body[j].dst>>], m = Merge(i, j, x)
        PROVE  \E e \in Pairs : m \in Of(e)
    <2>1. PICK e \in Ops \X Ops : e[1] = i /\ e[2] = j
      <3>1. <<i, j>> \in Ops \X Ops /\ <<i, j>>[1] = i /\ <<i, j>>[2] = j
        OBVIOUS
      <3> QED BY <3>1
    <2>2. e \in Pairs
      BY <1>4, <2>1
    <2>3. m \in Of(e)
      BY <1>4, <2>1
    <2> QED BY <2>2, <2>3
  <1> HIDE DEF Pairs, Of
  <1> QED BY <1>2, <1>3, <1>4

(* A merge stands on both its rows, which are rows of one table.            *)
LEMMA MergeShape ==
    ASSUME NEW m \in Compile
    PROVE  /\ m.left \in Ops /\ m.right \in Ops /\ m.left < m.right
           /\ Shape[Body[m.left].dst] = Shape[Body[m.right].dst]
           /\ {m.left, m.right} \subseteq m.requires
           /\ Body[m.left].table = Body[m.right].table
           /\ DOMAIN Body[m.left].args = DOMAIN Body[m.right].args
           /\ ~ Leaf(<<Body[m.left].dst, Body[m.right].dst>>)
           /\ \E x \in Proof[<<Body[m.left].dst, Body[m.right].dst>>] :
                 x.guards = m.guards /\ x.requires = m.requires
  <1>1. PICK i \in Ops, j \in Ops :
           /\ i < j /\ Shape[Body[i].dst] = Shape[Body[j].dst]
           /\ \E x \in Proof[<<Body[i].dst, Body[j].dst>>] : m = Merge(i, j, x)
    BY CompileIs
  <1>2. PICK x \in Proof[<<Body[i].dst, Body[j].dst>>] : m = Merge(i, j, x)
    BY <1>1
  <1>3. /\ m.left = i /\ m.right = j
        /\ x.guards = m.guards /\ x.requires = m.requires
    BY <1>2 DEF Merge
  <1>4. PICK p \in Slots \X Slots : p = <<Body[i].dst, Body[j].dst>>
    BY BodyShape
  <1>5. p[1] \notin Params /\ p[2] \notin Params /\ OpOf(p[1]) = i /\ OpOf(p[2]) = j
    BY <1>4, BodyShape
  <1>6. p[1] # p[2] /\ ~ Leaf(p)
    <2>1. i # j
      BY <1>1, BodyShape
    <2> QED BY <1>1, <1>4, <1>5, <2>1 DEF Leaf
  <1>7. {i, j} \subseteq x.requires
    BY <1>2, <1>4, <1>5, <1>6, DeepProof
  <1>8. Body[i].table = Body[j].table /\ DOMAIN Body[i].args = DOMAIN Body[j].args
    BY <1>5, <1>6, RowPair
  <1> QED BY <1>1, <1>2, <1>3, <1>4, <1>6, <1>7, <1>8

(* What a merge proves is true under every naming its guards and rows       *)
(* respect.                                                                 *)
LEMMA MergeSound ==
    ASSUME NEW val, NEW G, Respected(val, G), NEW m \in Compile, Holds(val, G, m)
    PROVE  val[Body[m.left].dst] = val[Body[m.right].dst]
  <1>1. PICK p \in Slots \X Slots : p = <<Body[m.left].dst, Body[m.right].dst>>
    BY MergeShape, BodyShape
  <1>2. PICK x \in Proof[p] : x.guards = m.guards /\ x.requires = m.requires
    BY <1>1, MergeShape
  <1>3. Holds(val, G, x)
    BY <1>2 DEF Holds
  <1>4. val[p[1]] = val[p[2]]
    BY <1>2, <1>3, ProofSound
  <1> QED BY <1>1, <1>4

(* The arguments of a merge's rows: equal slots, a guard, or a merge of     *)
(* their own that asks for nothing more.                                    *)
LEMMA MergeArgs ==
    ASSUME NEW m \in Compile, NEW n \in DOMAIN Body[m.left].args
    PROVE  LET a == Body[m.left].args[n]
               b == Body[m.right].args[n]
           IN  /\ a \in Slots /\ b \in Slots
               /\ \/ a = b
                  \/ {a, b} \in m.guards
                  \/ \E k \in Compile :
                       /\ {a, b} = {Body[k.left].dst, Body[k.right].dst}
                       /\ k.guards \subseteq m.guards /\ k.requires \subseteq m.requires
  <1> DEFINE a == Body[m.left].args[n]
             b == Body[m.right].args[n]
             p == <<Body[m.left].dst, Body[m.right].dst>>
  <1>1. /\ p \in Slots \X Slots /\ p[1] # p[2] /\ ~ Leaf(p)
        /\ OpOf(p[1]) = m.left /\ OpOf(p[2]) = m.right
        /\ p[1] = Body[m.left].dst /\ p[2] = Body[m.right].dst
    <2>1. m.left # m.right /\ m.left \in Ops /\ m.right \in Ops
      BY MergeShape, OpsOrdered
    <2>2. Body[m.left].dst # Body[m.right].dst
      BY <2>1, BodyShape
    <2> QED BY <2>1, <2>2, MergeShape, BodyShape
  <1> HIDE DEF p
  <1>2. a \in Slots /\ b \in Slots
    BY <1>1, RowPair
  <1>3. PICK x \in Proof[p] : x.guards = m.guards /\ x.requires = m.requires
    BY MergeShape DEF p
  <1>4. PICK y \in Proof[<<a, b>>] : y.guards \subseteq m.guards /\ y.requires \subseteq m.requires
    BY <1>1, <1>3, DeepProof
  <1>5. Shape[a] = Shape[b]
    <2>1. Shape[p[1]] = Shape[p[2]] /\ p[1] \in Slots /\ p[2] \in Slots
      BY <1>1, MergeShape
    <2>2. p[1] \notin Params
      BY <1>1 DEF Leaf
    <2> QED BY <1>1, <2>1, <2>2, SameShape
  <1> HIDE DEF a, b
  <1>6. CASE a = b
    BY <1>2, <1>6 DEF a, b
  <1>7. CASE a # b /\ a \in Params /\ b \in Params
    <2>1. PICK q \in Slots \X Slots : q = <<a, b>>
      BY <1>2
    <2>2. q[1] # q[2] /\ Leaf(q) /\ q[1] = a /\ q[2] = b
      BY <1>7, <2>1 DEF Leaf
    <2>3. y.guards = {{a, b}}
      BY <1>4, <2>1, <2>2, FlatProof
    <2>4. {a, b} \in m.guards
      BY <1>4, <2>3
    <2> QED BY <1>2, <2>4 DEF a, b
  <1>8. CASE a # b /\ a \notin Params /\ b \notin Params
    <2>1. PICK i \in Ops, j \in Ops : Body[i].dst = a /\ Body[j].dst = b /\ i # j
      BY <1>2, <1>8, BodyShape
    <2>2. \E k \in Compile : /\ {a, b} = {Body[k.left].dst, Body[k.right].dst}
                             /\ k.guards = y.guards /\ k.requires = y.requires
      <3>1. CASE i < j
        <4>1. Merge(i, j, y) \in Compile
          BY <1>4, <1>5, <2>1, <3>1, CompileIs
        <4>2. /\ Merge(i, j, y).left = i /\ Merge(i, j, y).right = j
              /\ Merge(i, j, y).guards = y.guards /\ Merge(i, j, y).requires = y.requires
          BY DEF Merge
        <4> QED BY <2>1, <4>1, <4>2
      <3>2. CASE j < i
        <4>1. y \in Proof[<<b, a>>]
          BY <1>2, <1>4, ProofSymmetric
        <4>2. Merge(j, i, y) \in Compile
          BY <1>5, <2>1, <3>2, <4>1, CompileIs
        <4>3. /\ Merge(j, i, y).left = j /\ Merge(j, i, y).right = i
              /\ Merge(j, i, y).guards = y.guards /\ Merge(j, i, y).requires = y.requires
          BY DEF Merge
        <4>4. {a, b} = {Body[j].dst, Body[i].dst}
          BY <2>1
        <4> HIDE DEF Merge
        <4> QED BY <4>2, <4>3, <4>4
      <3> QED BY <2>1, <3>1, <3>2, OpsOrdered
    <2>3. \E k \in Compile : /\ {a, b} = {Body[k.left].dst, Body[k.right].dst}
                             /\ k.guards \subseteq m.guards /\ k.requires \subseteq m.requires
      BY <1>4, <2>2
    <2> QED BY <1>2, <2>3 DEF a, b
  <1> QED
    BY <1>2, <1>5, <1>6, <1>7, <1>8, SameShape

------------------------------------------------------------------------------
(* 2. The classes a batch joins.                                            *)

Ends(pairs) == UNION {{e[1], e[2]} : e \in pairs}
Closed(pairs) == {S \in SUBSET Ends(pairs) : \A e \in pairs : e[1] \in S <=> e[2] \in S}
With(pairs, a) == {a} \cup {b \in Ends(pairs) : \A S \in Closed(pairs) : a \in S <=> b \in S}
Oldest(pairs, a) == CHOOSE b \in With(pairs, a) : \A z \in With(pairs, a) : b <= z

(* Every member goes to the oldest of those it is joined with.              *)
LEMMA LinkedIs ==
    ASSUME NEW p \in SUBSET Nat, NEW pairs \in SUBSET (p \X p), NEW a \in p
    PROVE  /\ Linked(p, pairs)[a] \in With(pairs, a)
           /\ \A z \in With(pairs, a) : Linked(p, pairs)[a] <= z
           /\ With(pairs, a) \subseteq p
  <1>1. Linked(p, pairs)[a] = CHOOSE b \in With(pairs, a) : \A z \in With(pairs, a) : b <= z
    BY DEF Linked, With, Closed, Ends
  <1>2. Ends(pairs) \subseteq p
    BY DEF Ends
  <1>3. With(pairs, a) \subseteq p /\ With(pairs, a) # {}
    BY <1>2 DEF With
  <1>4. \E b \in With(pairs, a) : \A z \in With(pairs, a) : b <= z
    BY <1>3, Least
  <1> QED BY <1>1, <1>3, <1>4

(* Only the ends of a pair move, and only to the end of a pair.             *)
LEMMA LinkedMoves ==
    ASSUME NEW p \in SUBSET Nat, NEW pairs \in SUBSET (p \X p), NEW a \in p,
           Linked(p, pairs)[a] # a
    PROVE  a \in Ends(pairs) /\ Linked(p, pairs)[a] \in Ends(pairs)
  <1>1. PICK b : b = Linked(p, pairs)[a]
    OBVIOUS
  <1>2. b \in With(pairs, a) /\ b # a
    BY <1>1, LinkedIs
  <1>3. b \in Ends(pairs) /\ \A S \in Closed(pairs) : a \in S <=> b \in S
    BY <1>2 DEF With
  <1>4. Ends(pairs) \in Closed(pairs)
    BY DEF Ends, Closed
  <1> QED BY <1>1, <1>3, <1>4

(* A naming that gives the ends of each pair one name gives a class and the *)
(* class it goes to one name.                                               *)
Alike(nm, pairs) == \A e \in pairs : nm[e[1]] = nm[e[2]]
Follows(nm, to, p) == \A a \in p : nm[to[a]] = nm[a]
LEMMA LinkedNaming ==
    ASSUME NEW p, NEW pairs, p \subseteq Nat, pairs \subseteq p \X p,
           NEW nm, Alike(nm, pairs)
    PROVE  Follows(nm, Linked(p, pairs), p)
  <1> USE DEF Alike
  <1> SUFFICES ASSUME NEW a \in p PROVE nm[Linked(p, pairs)[a]] = nm[a]
    BY DEF Follows
  <1>1. PICK b : b = Linked(p, pairs)[a]
    OBVIOUS
  <1>2. b \in With(pairs, a)
    BY <1>1, LinkedIs
  <1>3. CASE b = a
    BY <1>1, <1>3
  <1>4. CASE b # a
    <2>1. a \in Ends(pairs) /\ b \in Ends(pairs)
      BY <1>1, <1>4, LinkedMoves
    <2>2. \A S \in Closed(pairs) : a \in S <=> b \in S
      BY <1>2, <1>4 DEF With
    <2> DEFINE S == {x \in Ends(pairs) : nm[x] = nm[a]}
    <2>3. S \in Closed(pairs)
      BY DEF Closed, Ends
    <2>4. a \in S
      BY <2>1
    <2>5. b \in S
      BY <2>2, <2>3, <2>4
    <2> QED BY <1>1, <2>5
  <1> QED BY <1>3, <1>4

(* The map joins the ends of every pair, and following it twice gains       *)
(* nothing.                                                                 *)
JoinsAll(to, p, pairs) ==
    /\ to \in [p -> p]
    /\ \A a \in p : to[a] <= a /\ to[to[a]] = to[a]
    /\ \A e \in pairs : to[e[1]] = to[e[2]]
LEMMA LinkedFacts ==
    ASSUME NEW p, NEW pairs, p \subseteq Nat, pairs \subseteq p \X p
    PROVE  JoinsAll(Linked(p, pairs), p, pairs)
  <1> DEFINE to == Linked(p, pairs)
             Class(a) == {b \in Ends(pairs) : \A S \in Closed(pairs) : a \in S <=> b \in S}
  <1>1. \A a \in p : /\ to[a] \in With(pairs, a) /\ to[a] \in p /\ to[a] <= a
                     /\ \A z \in With(pairs, a) : to[a] <= z
    <2> SUFFICES ASSUME NEW a \in p
                 PROVE  /\ to[a] \in With(pairs, a) /\ to[a] \in p /\ to[a] <= a
                        /\ \A z \in With(pairs, a) : to[a] <= z
      OBVIOUS
    <2>1. a \in With(pairs, a)
      BY DEF With
    <2> HIDE DEF to
    <2> QED BY <2>1, LinkedIs DEF to
  <1>2. to \in [p -> p]
    <2>1. to = [a \in p |-> Oldest(pairs, a)]
      BY DEF Linked, Oldest, With, Closed, Ends
    <2> HIDE DEF to
    <2>2. to = [a \in p |-> to[a]]
      BY <2>1
    <2> QED BY <1>1, <2>2
  <1>3. \A a \in Ends(pairs) : With(pairs, a) = Class(a) /\ a \in p
    BY DEF With, Ends
  <1> HIDE DEF to
  <1>4. ASSUME NEW a \in Ends(pairs), NEW b \in Ends(pairs),
               \A S \in Closed(pairs) : a \in S <=> b \in S
        PROVE  to[a] = to[b]
    <2>1. With(pairs, a) = With(pairs, b)
      BY <1>3, <1>4
    <2>2. to[a] \in With(pairs, b) /\ to[b] \in With(pairs, a)
      BY <1>1, <1>3, <2>1
    <2>3. /\ to[a] \in Nat /\ to[b] \in Nat
          /\ to[a] <= to[b] /\ to[b] <= to[a]
      BY <1>1, <1>3, <2>2
    <2> QED BY <2>3
  <1>5. ASSUME NEW e \in pairs PROVE to[e[1]] = to[e[2]]
    <2>1. e[1] \in Ends(pairs) /\ e[2] \in Ends(pairs)
      BY DEF Ends
    <2>2. \A S \in Closed(pairs) : e[1] \in S <=> e[2] \in S
      BY DEF Closed
    <2> QED BY <1>4, <2>1, <2>2
  <1>6. ASSUME NEW a \in p PROVE to[to[a]] = to[a]
    <2>1. CASE to[a] = a
      BY <2>1
    <2>2. CASE to[a] # a
      <3>1. a \in Ends(pairs) /\ to[a] \in Ends(pairs)
        BY <2>2, LinkedMoves DEF to
      <3>2. to[a] \in Class(a)
        BY <1>1, <1>3, <3>1
      <3>3. \A S \in Closed(pairs) : a \in S <=> to[a] \in S
        BY <3>2
      <3> QED BY <1>4, <3>1, <3>3
    <2> QED BY <2>1, <2>2
  <1>7. JoinsAll(to, p, pairs)
    BY <1>1, <1>2, <1>5, <1>6 DEF JoinsAll
  <1> QED BY <1>7 DEF to

------------------------------------------------------------------------------
(* 3. The invariant.                                                        *)

Frame == [values : UNION {[T -> Nat] : T \in SUBSET Slots},
          facts : UNION {[T -> Nat] : T \in SUBSET Ops}]

(* A frame whose first k lets have run: its slots are made classes, and a   *)
(* row it still has is the row its let made, up to the unions since.        *)
SoundFrame(fr, k) ==
    /\ fr.values \in [SlotsAfter(k) -> Made]
    /\ DOMAIN fr.facts \subseteq 1..k
    /\ \A i \in DOMAIN fr.facts :
        /\ fr.facts[i] \in 1..nextFact
        /\ recipe[fr.facts[i]].table = Body[i].table
        /\ \A n \in DOMAIN Body[i].args :
              root[recipe[fr.facts[i]].key[n]] = root[fr.values[Body[i].args[n]]]
        /\ root[recipe[fr.facts[i]].value] = root[fr.values[Body[i].dst]]
    /\ \A i, j \in DOMAIN fr.facts : fr.facts[i] = fr.facts[j] => i = j

(* The lets of a frame that have run: all, except in the frame under way.   *)
Bound(c) == IF c = Len(frames) /\ pc # 0 THEN pc - 1 ELSE Len(Body)

FramesSound ==
    /\ frames \in Seq(Frame)
    /\ pc \in 0..Len(Body)
    /\ pc # 0 => phase = "rhs" /\ frames # <<>>
    /\ merges = Compile
    /\ \A c \in DOMAIN frames : SoundFrame(frames[c], Bound(c))

LInv == IInv /\ FramesSound

(* The row of a frame is a constructor's row, and all it mentions is made.  *)
LEMMA RowOfFrame ==
    ASSUME TypeOK, NEW fr, NEW k \in 0..Len(Body), SoundFrame(fr, k),
           NEW i \in DOMAIN fr.facts
    PROVE  /\ i \in Ops
           /\ fr.facts[i] \in DOMAIN recipe /\ fr.facts[i] \in FactRefs
           /\ recipe[fr.facts[i]].table = Body[i].table
           /\ recipe[fr.facts[i]].table \in Constructors
           /\ DOMAIN recipe[fr.facts[i]].key = DOMAIN Body[i].args
           /\ recipe[fr.facts[i]].value \in Made
           /\ fr.values[Body[i].dst] \in Made
           /\ \A n \in DOMAIN Body[i].args : /\ recipe[fr.facts[i]].key[n] \in Made
                                             /\ fr.values[Body[i].args[n]] \in Made
  <1> DEFINE f == fr.facts[i]
  <1>1. /\ fr.values \in [SlotsAfter(k) -> Made] /\ i \in 1..k
        /\ f \in 1..nextFact /\ recipe[f].table = Body[i].table
    BY DEF SoundFrame
  <1>2. i \in Ops /\ i \in 0..k /\ i - 1 \in 0..k
    BY <1>1, BodyShape
  <1>3. f \in DOMAIN recipe /\ f \in FactRefs
    BY <1>1 DEF TypeOK
  <1> HIDE DEF f
  <1>4. /\ recipe[f].table \in Constructors
        /\ recipe[f].key \in [1..Arity[recipe[f].table] -> Made]
        /\ recipe[f].value \in Made
    BY <1>1, <1>2, <1>3, BodyShape DEF TypeOK
  <1>5. DOMAIN recipe[f].key = DOMAIN Body[i].args
    BY <1>1, <1>2, <1>4, BodyShape
  <1>6. SlotsAfter(i) \subseteq SlotsAfter(k) /\ SlotsAfter(i - 1) \subseteq SlotsAfter(k)
    BY <1>2, BodyShape
  <1>7. Body[i].dst \in SlotsAfter(k)
    BY <1>1, <1>6 DEF SlotsAfter
  <1>8. \A n \in DOMAIN Body[i].args : Body[i].args[n] \in SlotsAfter(k)
    BY <1>2, <1>6, BodyShape
  <1> QED BY <1>1, <1>2, <1>3, <1>4, <1>5, <1>7, <1>8 DEF f

(* A frame stays sound when classes only grow and no recipe is rewritten.   *)
LEMMA KeepFrame ==
    ASSUME TypeOK, NEW fr, NEW k \in 0..Len(Body), SoundFrame(fr, k),
           nextFact' \in Nat, nextFact <= nextFact',
           \A f \in 1..nextFact : recipe'[f] = recipe[f],
           \A x, y \in Ids : root[x] = root[y] => root'[x] = root'[y]
    PROVE  SoundFrame(fr, k)'
  <1>1. nextFact \in Nat /\ Made \subseteq Ids /\ Made \subseteq Made'
    BY Numbering, BoundsAssumption DEF TypeOK, Made
  <1>2. fr.values \in [SlotsAfter(k) -> Made'] /\ DOMAIN fr.facts \subseteq 1..k
    BY <1>1 DEF SoundFrame
  <1>3. ASSUME NEW i \in DOMAIN fr.facts
        PROVE  /\ fr.facts[i] \in 1..nextFact'
               /\ recipe'[fr.facts[i]].table = Body[i].table
               /\ \A n \in DOMAIN Body[i].args :
                    root'[recipe'[fr.facts[i]].key[n]] = root'[fr.values[Body[i].args[n]]]
               /\ root'[recipe'[fr.facts[i]].value] = root'[fr.values[Body[i].dst]]
    <2>1. fr.facts[i] \in 1..nextFact /\ recipe'[fr.facts[i]] = recipe[fr.facts[i]]
      BY DEF SoundFrame
    <2>2. \A n \in DOMAIN Body[i].args :
            /\ recipe[fr.facts[i]].key[n] \in Ids /\ fr.values[Body[i].args[n]] \in Ids
            /\ root[recipe[fr.facts[i]].key[n]] = root[fr.values[Body[i].args[n]]]
      BY <1>1, RowOfFrame DEF SoundFrame
    <2>3. /\ recipe[fr.facts[i]].value \in Ids /\ fr.values[Body[i].dst] \in Ids
          /\ root[recipe[fr.facts[i]].value] = root[fr.values[Body[i].dst]]
      BY <1>1, RowOfFrame DEF SoundFrame
    <2>4. recipe[fr.facts[i]].table = Body[i].table
      BY DEF SoundFrame
    <2>5. PICK f : f = fr.facts[i]
      OBVIOUS
    <2>6. f \in 1..nextFact' /\ recipe'[f].table = Body[i].table
      BY <1>1, <2>1, <2>4, <2>5
    <2>7. \A n \in DOMAIN Body[i].args :
            root'[recipe'[f].key[n]] = root'[fr.values[Body[i].args[n]]]
      BY <2>1, <2>2, <2>5
    <2>8. root'[recipe'[f].value] = root'[fr.values[Body[i].dst]]
      BY <2>1, <2>3, <2>5
    <2> QED BY <2>5, <2>6, <2>7, <2>8
  <1>4. \A i, j \in DOMAIN fr.facts : fr.facts[i] = fr.facts[j] => i = j
    BY DEF SoundFrame
  <1> QED BY <1>2, <1>3, <1>4 DEF SoundFrame

(* The lets that have run are some of the template's.                       *)
LEMMA BoundIs ==
    ASSUME FramesSound, NEW c
    PROVE  Bound(c) \in 0..Len(Body)
  BY BodyShape DEF FramesSound, Bound

(* A step that touches no frame, lets classes only grow and rewrites no     *)
(* recipe keeps every frame sound.                                          *)
LEMMA FramesKept ==
    ASSUME TypeOK, FramesSound, UNCHANGED <<frames, pc, merges>>,
           pc # 0 => phase' = "rhs",
           nextFact' \in Nat, nextFact <= nextFact',
           \A f \in 1..nextFact : recipe'[f] = recipe[f],
           \A x, y \in Ids : root[x] = root[y] => root'[x] = root'[y]
    PROVE  FramesSound'
  <1>1. ASSUME NEW c \in DOMAIN frames
        PROVE  SoundFrame(frames[c], Bound(c))'
    <2>1. PICK fr, k : fr = frames[c] /\ k = Bound(c)
      OBVIOUS
    <2>2. k \in 0..Len(Body) /\ SoundFrame(fr, k)
      BY <2>1, BoundIs DEF FramesSound
    <2>3. SoundFrame(fr, k)'
      BY <2>2, KeepFrame
    <2>4. frames'[c] = fr /\ Bound(c)' = k
      BY <2>1 DEF Bound
    <2> QED BY <2>3, <2>4
  <1>2. \A c \in DOMAIN frames' : SoundFrame(frames[c], Bound(c))'
    BY <1>1
  <1> QED BY <1>2 DEF FramesSound

(* Making a row rewrites no other.                                          *)
LEMMA ConstructKeeps ==
    ASSUME TypeOK, NEW t, NEW key, Construct(t, key)
    PROVE  /\ nextFact \in Nat /\ nextFact' = nextFact + 1 /\ nextFact' \in Nat
           /\ nextFact <= nextFact'
           /\ \A f \in 1..nextFact : recipe'[f] = recipe[f]
           /\ recipe'[nextFact + 1] = [table |-> t, key |-> key, value |-> FreshValue(t)]
           /\ root' = root /\ phase' = phase
  <1>1. /\ nextFact' = nextFact + 1
        /\ recipe' = Put(recipe, nextFact + 1,
                         [table |-> t, key |-> key, value |-> FreshValue(t)])
        /\ root' = root /\ phase' = phase
    BY DEF Construct, Activate, unionVars
  <1>2. nextFact \in Nat /\ 1..nextFact \subseteq DOMAIN recipe
    BY BoundsAssumption DEF TypeOK
  <1> QED BY <1>1, <1>2 DEF Put

(* The other rules of the program touch no frame.                           *)
LEMMA OtherEffectInv == ASSUME LInv, OtherEffect PROVE LInv'
  <1> USE DEF LInv
  <1>1. TypeOK /\ FramesSound /\ UNCHANGED <<frames, pc, congruenceDirty, merges>> /\ pc = 0
    BY DEF IInv, OtherEffect, frameVars
  <1>2. nextFact \in Nat
    BY <1>1, BoundsAssumption DEF TypeOK
  <1>3. ASSUME NEW t \in Virtual, NEW key \in KnownKeys(t), Construct(t, key)
        PROVE  LInv'
    <2>1. IInv'
      BY <1>3, ActivateInv DEF Construct
    <2>2. /\ nextFact <= nextFact' /\ nextFact' \in Nat /\ root' = root
          /\ \A f \in 1..nextFact : recipe'[f] = recipe[f]
      BY <1>1, <1>3, ConstructKeeps
    <2>3. FramesSound'
      BY <1>1, <2>2, FramesKept
    <2> QED BY <2>1, <2>3
  <1>4. ASSUME NEW t \in Virtual, NEW key \in KnownKeys(t), Subsume(t, key) \/ Delete(t, key)
        PROVE  LInv'
    <2>1. IInv'
      BY <1>4, SubsumeInv, DeleteInv
    <2>2. UNCHANGED <<nextFact, recipe, root, phase>>
      BY <1>4 DEF Subsume, Delete, unionVars
    <2>3. FramesSound'
      BY <1>1, <1>2, <2>2, FramesKept
    <2> QED BY <2>1, <2>3
  <1>5. ASSUME NEW a \in Known, NEW b \in Known, RequestUnion(a, b)
        PROVE  LInv'
    <2>1. IInv'
      BY <1>5, KnownIsCanonical, RequestUnionInv DEF IInv
    <2>2. UNCHANGED <<nextFact, recipe, root, phase>>
      BY <1>5 DEF RequestUnion, rowVars
    <2>3. FramesSound'
      BY <1>1, <1>2, <2>2, FramesKept
    <2> QED BY <2>1, <2>3
  <1> QED BY <1>3, <1>4, <1>5 DEF OtherEffect

(* Between the phases of a Run no frame is under way.                       *)
LEMMA PhaseInv ==
    ASSUME LInv, UNCHANGED frameVars,
           BeginRun \/ (pc = 0 /\ BeginRepair) \/ Publish \/ UNCHANGED vars
    PROVE  LInv'
  <1>1. IInv'
    BY NextInv DEF LInv, Next, RepairStep
  <1>2. UNCHANGED <<nextFact, recipe, root>>
    BY DEF BeginRun, BeginRepair, Publish, vars, unionVars, rowVars
  <1>3. pc # 0 => phase' = "rhs"
    BY DEF LInv, FramesSound, BeginRun, BeginRepair, Publish, vars
  <1>4. TypeOK /\ FramesSound /\ nextFact \in Nat /\ UNCHANGED <<frames, pc, merges>>
    BY BoundsAssumption DEF LInv, IInv, TypeOK, frameVars
  <1>5. FramesSound'
    BY <1>2, <1>3, <1>4, FramesKept
  <1> QED BY <1>1, <1>5 DEF LInv

(* A union reaches frames through their classes, which only grow.           *)
LEMMA UnionMarksInv == ASSUME LInv, UnionMarks PROVE LInv'
  <1>1. ApplyUnion /\ UNCHANGED <<frames, pc, merges>>
    BY DEF UnionMarks
  <1>2. IInv /\ IInv'
    BY <1>1, ApplyUnionInv DEF LInv
  <1>3. UNCHANGED <<nextFact, recipe, phase>>
    BY <1>1 DEF ApplyUnion
  <1>4. \A x, y \in Ids : root[x] = root[y] => root'[x] = root'[y]
    BY <1>1, <1>2, UnionOnward DEF Onward
  <1>5. TypeOK /\ FramesSound /\ nextFact \in Nat /\ (pc # 0 => phase' = "rhs")
    BY <1>2, <1>3, BoundsAssumption DEF LInv, IInv, TypeOK, FramesSound
  <1>6. FramesSound'
    BY <1>1, <1>3, <1>4, <1>5, FramesKept
  <1> QED BY <1>2, <1>6 DEF LInv

(* The repair of one row is the global repair's, whatever its turn.         *)
LEMMA RepairRowInv == ASSUME LInv, NEW f \in FactRefs, RepairRow(f) PROVE LInv'
  <1>1. /\ f \in dirty /\ phase = "repair" /\ dirty' = dirty \ {f}
        /\ UNCHANGED <<root, nextFact, recipe, changed, epoch, phase>>
        /\ UNCHANGED <<frames, pc, merges>>
        /\ Reindex(f) \/ \E g \in FactRefs : Collapse(f, g)
    BY DEF RepairRow, NextRow, First, frameVars
  <1>2. IInv'
    <2>1. CASE Reindex(f)
      BY <1>1, <2>1, ReindexInv DEF LInv
    <2>2. CASE \E g \in FactRefs : Collapse(f, g)
      BY <1>1, <2>2, CollapseInv DEF LInv
    <2> QED BY <1>1, <2>1, <2>2
  <1>3. TypeOK /\ FramesSound /\ nextFact \in Nat /\ (pc # 0 => phase' = "rhs")
    BY <1>1, BoundsAssumption DEF LInv, IInv, TypeOK, FramesSound
  <1>4. FramesSound'
    BY <1>1, <1>3, FramesKept
  <1> QED BY <1>2, <1>4 DEF LInv

(* A new instance of the template binds its parameters.                     *)
LEMMA NewFrameInv ==
    ASSUME LInv, NEW values \in [Params -> Known], NewFrame(values)
    PROVE  LInv'
  <1> DEFINE fr == [values |-> values, facts |-> <<>>]
  <1>1. /\ phase = "rhs" /\ pc = 0 /\ pc' = 1
        /\ frames' = Append(frames, fr)
        /\ UNCHANGED <<vars, merges>>
    BY DEF NewFrame
  <1>2. IInv'
    BY <1>1, NextInv DEF LInv
  <1>3. values \in [Params -> Made]
    BY KnownIsCanonical DEF LInv, IInv
  <1>4. values \in [SlotsAfter(0) -> Made] /\ values \in [Params -> Nat]
        /\ Params \in SUBSET Slots
    BY <1>3, BodyShape DEF Made, Slots
  <1>5. fr \in Frame
    <2>1. values \in UNION {[T -> Nat] : T \in SUBSET Slots}
      BY <1>4
    <2>2. <<>> \in [{} -> Nat] /\ {} \in SUBSET Ops
      OBVIOUS
    <2>3. <<>> \in UNION {[T -> Nat] : T \in SUBSET Ops}
      BY <2>2
    <2> QED BY <2>1, <2>3 DEF Frame
  <1>6. SoundFrame(fr, 0)
    BY <1>4 DEF SoundFrame
  <1> HIDE DEF fr
  <1>7. /\ frames \in Seq(Frame) /\ frames' \in Seq(Frame)
        /\ Len(frames') = Len(frames) + 1 /\ Len(frames) \in Nat
        /\ DOMAIN frames = 1..Len(frames) /\ DOMAIN frames' = 1..(Len(frames) + 1)
        /\ frames'[Len(frames) + 1] = fr
        /\ \A c \in DOMAIN frames : frames'[c] = frames[c]
    <2>1. frames \in Seq(Frame)
      BY DEF LInv, FramesSound
    <2> QED BY <1>1, <1>5, <2>1
  <1>8. UNCHANGED <<nextFact, recipe, root, phase>>
    BY <1>1 DEF vars, unionVars, rowVars
  <1>9. ASSUME NEW c \in DOMAIN frames'
        PROVE  SoundFrame(frames[c], Bound(c))'
    <2>1. PICK x, k : x = frames'[c] /\ k = Bound(c)'
      OBVIOUS
    <2>2. k \in 0..Len(Body) /\ SoundFrame(x, k)
      <3>1. CASE c = Len(frames) + 1
        <4>1. k = 0 /\ x = fr
          BY <1>1, <1>7, <2>1, <3>1 DEF Bound
        <4> QED BY <4>1, <1>6, BodyShape
      <3>2. CASE c # Len(frames) + 1
        <4>1. c \in DOMAIN frames /\ x = frames[c]
          BY <1>7, <2>1, <3>2
        <4>2. k = Len(Body) /\ Bound(c) = Len(Body)
          BY <1>1, <1>7, <2>1, <3>2 DEF Bound
        <4> QED BY <4>1, <4>2, BodyShape DEF LInv, FramesSound
      <3> QED BY <3>1, <3>2
    <2>3. SoundFrame(x, k)'
      BY <1>8, <2>2 DEF SoundFrame, Made
    <2> QED BY <2>1, <2>3
  <1>10. FramesSound'
    <2>1. pc' \in 0..Len(Body) /\ frames' # <<>>
      BY <1>1, <1>7, BodyShape
    <2>2. merges' = Compile /\ phase' = "rhs"
      BY <1>1, <1>8 DEF LInv, FramesSound
    <2> QED BY <1>7, <1>9, <2>1, <2>2 DEF FramesSound
  <1> QED BY <1>2, <1>10 DEF LInv

(* A let binds its slot; the row is the frame's if the let made it.         *)
LEMMA ExtendFrame ==
    ASSUME NEW fr, NEW i \in Ops, SoundFrame(fr, i - 1)',
           NEW v, v \in Made', NEW facts,
           \/ facts = fr.facts
           \/ \E g \in 1..nextFact' :
                /\ facts = Put(fr.facts, i, g)
                /\ \A j \in DOMAIN fr.facts : fr.facts[j] # g
                /\ recipe'[g].table = Body[i].table
                /\ \A n \in DOMAIN Body[i].args :
                     root'[recipe'[g].key[n]] = root'[fr.values[Body[i].args[n]]]
                /\ root'[recipe'[g].value] = root'[v]
    PROVE  SoundFrame([values |-> Put(fr.values, Body[i].dst, v), facts |-> facts], i)'
  <1> DEFINE new == [values |-> Put(fr.values, Body[i].dst, v), facts |-> facts]
             M == Made'
             dst == Body[i].dst
  <1>1. /\ i \in 1..Len(Body) /\ i - 1 \in 0..Len(Body) /\ i \in 0..Len(Body) /\ i \notin 1..(i - 1)
        /\ SlotsAfter(i) = SlotsAfter(i - 1) \cup {dst} /\ dst \notin SlotsAfter(i - 1)
    <2>1. i \in 1..Len(Body) /\ i - 1 \in 0..Len(Body) /\ i - 1 < Len(Body) /\ (i - 1) + 1 = i
      BY BodyShape
    <2>2. SlotsAfter((i - 1) + 1) = SlotsAfter(i - 1) \cup {Body[(i - 1) + 1].dst}
      BY <2>1, BodyShape
    <2> QED BY <2>1, <2>2, BodyAssumption
  <1>2. fr.values \in [SlotsAfter(i - 1) -> M] /\ DOMAIN fr.facts \subseteq 1..(i - 1)
    BY DEF SoundFrame
  <1>3. /\ new.values \in [SlotsAfter(i) -> M]
        /\ new.values[dst] = v
        /\ \A s \in SlotsAfter(i - 1) : new.values[s] = fr.values[s]
    BY <1>1, <1>2 DEF Put
  <1>4. ASSUME NEW j \in DOMAIN fr.facts
        PROVE  /\ fr.facts[j] \in 1..nextFact'
               /\ recipe'[fr.facts[j]].table = Body[j].table
               /\ \A n \in DOMAIN Body[j].args :
                    root'[recipe'[fr.facts[j]].key[n]] = root'[new.values[Body[j].args[n]]]
               /\ root'[recipe'[fr.facts[j]].value] = root'[new.values[Body[j].dst]]
    <2>1. j \in Ops /\ j \in 0..(i - 1) /\ j - 1 \in 0..(i - 1) /\ j \in 1..j
      BY <1>1, <1>2, BodyShape
    <2>2. SlotsAfter(j) \subseteq SlotsAfter(i - 1) /\ SlotsAfter(j - 1) \subseteq SlotsAfter(i - 1)
      BY <1>1, <2>1, BodyShape
    <2>3. Body[j].dst \in SlotsAfter(i - 1)
      BY <2>1, <2>2 DEF SlotsAfter
    <2>4. \A n \in DOMAIN Body[j].args : Body[j].args[n] \in SlotsAfter(i - 1)
      BY <2>1, <2>2, BodyShape
    <2>5. /\ fr.facts[j] \in 1..nextFact'
          /\ recipe'[fr.facts[j]].table = Body[j].table
          /\ \A n \in DOMAIN Body[j].args :
               root'[recipe'[fr.facts[j]].key[n]] = root'[fr.values[Body[j].args[n]]]
          /\ root'[recipe'[fr.facts[j]].value] = root'[fr.values[Body[j].dst]]
      BY DEF SoundFrame
    <2> HIDE DEF new
    <2> QED BY <1>3, <2>3, <2>4, <2>5
  <1>5. \A j, k \in DOMAIN fr.facts : fr.facts[j] = fr.facts[k] => j = k
    BY DEF SoundFrame
  <1>6. new.facts = facts
    OBVIOUS
  <1>7. CASE facts = fr.facts
    <2>1. DOMAIN new.facts \subseteq 1..i
      BY <1>1, <1>2, <1>6, <1>7
    <2> HIDE DEF new
    <2>2. SoundFrame(new, i)'
      BY <1>3, <1>4, <1>5, <1>6, <1>7, <2>1 DEF SoundFrame
    <2> QED BY <2>2 DEF new
  <1>8. ASSUME NEW g \in 1..nextFact', facts = Put(fr.facts, i, g),
               \A j \in DOMAIN fr.facts : fr.facts[j] # g,
               recipe'[g].table = Body[i].table,
               \A n \in DOMAIN Body[i].args :
                  root'[recipe'[g].key[n]] = root'[fr.values[Body[i].args[n]]],
               root'[recipe'[g].value] = root'[v]
        PROVE  SoundFrame(new, i)'
    <2>1. /\ DOMAIN new.facts = DOMAIN fr.facts \cup {i} /\ i \notin DOMAIN fr.facts
          /\ new.facts[i] = g
          /\ \A j \in DOMAIN fr.facts : new.facts[j] = fr.facts[j]
      BY <1>1, <1>2, <1>8 DEF Put
    <2>2. DOMAIN new.facts \subseteq 1..i
      BY <1>1, <1>2, <2>1
    <2>3. \A n \in DOMAIN Body[i].args : Body[i].args[n] \in SlotsAfter(i - 1)
      BY BodyShape
    <2> HIDE DEF new, M
    <2>4. \A n \in DOMAIN Body[i].args :
            root'[recipe'[g].key[n]] = root'[new.values[Body[i].args[n]]]
      BY <1>3, <1>8, <2>3
    <2>5. \A j, k \in DOMAIN new.facts : new.facts[j] = new.facts[k] => j = k
      BY <1>5, <1>8, <2>1
    <2>6. new.values \in [SlotsAfter(i) -> Made']
      BY <1>3 DEF M
    <2>7. ASSUME NEW j \in DOMAIN new.facts
          PROVE  /\ new.facts[j] \in 1..nextFact'
                 /\ recipe'[new.facts[j]].table = Body[j].table
                 /\ \A n \in DOMAIN Body[j].args :
                      root'[recipe'[new.facts[j]].key[n]] = root'[new.values[Body[j].args[n]]]
                 /\ root'[recipe'[new.facts[j]].value] = root'[new.values[Body[j].dst]]
      <3>1. CASE j = i
        BY <1>3, <1>8, <2>1, <2>4, <3>1
      <3>2. CASE j # i
        <4>1. j \in DOMAIN fr.facts /\ new.facts[j] = fr.facts[j]
          BY <2>1, <3>2
        <4>2. /\ fr.facts[j] \in 1..nextFact'
              /\ recipe'[fr.facts[j]].table = Body[j].table
              /\ \A n \in DOMAIN Body[j].args :
                   root'[recipe'[fr.facts[j]].key[n]] = root'[new.values[Body[j].args[n]]]
              /\ root'[recipe'[fr.facts[j]].value] = root'[new.values[Body[j].dst]]
          BY <1>4, <4>1
        <4>3. PICK x, y : x = fr.facts[j] /\ y = new.facts[j]
          OBVIOUS
        <4>4. x = y
          BY <4>1, <4>3
        <4> QED BY ONLY <4>2, <4>3, <4>4
      <3> QED BY <3>1, <3>2
    <2> QED BY <2>2, <2>5, <2>6, <2>7 DEF SoundFrame
  <1> QED BY <1>7, <1>8

(* The frame under way grew by one let; no other frame was touched.         *)
LEMMA FrameGrows ==
    ASSUME TypeOK, FramesSound, NEW i, i = pc, pc # 0, NEW new \in Frame,
           frames' = [frames EXCEPT ![Len(frames)] = new],
           SoundFrame(new, i)',
           pc' = IF pc = Len(Body) THEN 0 ELSE pc + 1, merges' = merges,
           phase' = "rhs", nextFact' \in Nat, nextFact <= nextFact',
           \A f \in 1..nextFact : recipe'[f] = recipe[f], root' = root
    PROVE  FramesSound'
  <1>1. /\ frames \in Seq(Frame) /\ frames # <<>> /\ merges = Compile
        /\ pc \in 1..Len(Body) /\ pc' \in 0..Len(Body)
    BY BodyShape DEF FramesSound
  <1>2. /\ Len(frames) \in DOMAIN frames /\ frames' \in Seq(Frame)
        /\ Len(frames') = Len(frames) /\ DOMAIN frames' = DOMAIN frames
        /\ frames'[Len(frames)] = new
        /\ \A c \in DOMAIN frames : c # Len(frames) => frames'[c] = frames[c]
        /\ frames' # <<>>
    BY <1>1
  <1>3. ASSUME NEW c \in DOMAIN frames'
        PROVE  SoundFrame(frames[c], Bound(c))'
    <2>1. PICK x, k : x = frames'[c] /\ k = Bound(c)'
      OBVIOUS
    <2>2. SoundFrame(x, k)'
      <3>1. CASE c = Len(frames)
        <4>1. x = new /\ k = i
          BY <1>1, <1>2, <2>1, <3>1 DEF Bound
        <4> QED BY <4>1
      <3>2. CASE c # Len(frames)
        <4>1. c \in DOMAIN frames /\ x = frames[c]
          BY <1>2, <2>1, <3>2
        <4>2. k = Len(Body) /\ Bound(c) = Len(Body)
          BY <1>2, <2>1, <3>2 DEF Bound
        <4>3. k \in 0..Len(Body) /\ SoundFrame(x, k)
          BY <4>1, <4>2, BodyShape DEF FramesSound
        <4> QED BY <4>3, KeepFrame
      <3> QED BY <3>1, <3>2
    <2> QED BY <2>1, <2>2
  <1> QED BY <1>1, <1>2, <1>3 DEF FramesSound

(* A let runs: it makes its row, or finds the row another one made.         *)
LEMMA RunOpInv == ASSUME LInv, RunOp PROVE LInv'
  <1>1. TypeOK /\ RootIsOldest /\ FramesSound /\ IInv
    BY DEF LInv, IInv
  <1>2. PICK i, c, fr : i = pc /\ c = Len(frames) /\ fr = frames[c]
    OBVIOUS
  <1>3. /\ i \in Ops /\ pc # 0 /\ phase = "rhs" /\ frames # <<>>
        /\ frames \in Seq(Frame) /\ merges = Compile
    BY <1>1, <1>2, BodyShape DEF FramesSound, RunOp
  <1>4. c \in DOMAIN frames /\ fr \in Frame /\ DOMAIN frames = 1..Len(frames)
    BY <1>2, <1>3
  <1>5. SoundFrame(fr, i - 1) /\ i - 1 \in 0..Len(Body)
    <2>1. Bound(c) = i - 1
      BY <1>2, <1>3 DEF Bound
    <2> QED BY <1>1, <1>2, <1>4, <2>1, BoundIs DEF FramesSound
  <1> DEFINE op == Body[i]
             key == [n \in DOMAIN op.args |-> root[fr.values[op.args[n]]]]
             New(v, facts) == [values |-> Put(fr.values, op.dst, v), facts |-> facts]
  <1>6. /\ op.table \in Constructors /\ op.table \in Virtual
        /\ DOMAIN op.args = 1..Arity[op.table]
        /\ op.dst \in Slots
        /\ \A n \in DOMAIN op.args : fr.values[op.args[n]] \in Made
    <2>1. fr.values \in [SlotsAfter(i - 1) -> Made]
      BY <1>5 DEF SoundFrame
    <2>2. \A n \in DOMAIN op.args : op.args[n] \in SlotsAfter(i - 1)
      BY <1>3, BodyShape
    <2> QED BY <1>3, <2>1, <2>2, BodyShape DEF Virtual
  <1>7. key \in [1..Arity[op.table] -> Roots]
    BY <1>1, <1>6, RootOfMade DEF Roots
  <1>8. /\ pc' = IF pc = Len(Body) THEN 0 ELSE pc + 1
        /\ merges' = merges
        /\ \/ /\ Construct(op.table, key)
              /\ frames' = [frames EXCEPT ![Len(frames)] =
                              New(FreshValue(op.table), Put(fr.facts, i, nextFact'))]
           \/ \E f \in FactRefs :
                /\ First(f, Matching(op.table, key))
                /\ frames' = [frames EXCEPT ![Len(frames)] = New(Row(f).value, fr.facts)]
                /\ UNCHANGED vars
    BY <1>2 DEF RunOp, Slot
  <1> HIDE DEF key
  <1>9. ASSUME NEW v, v \in Nat, NEW facts \in UNION {[T -> Nat] : T \in SUBSET Ops}
        PROVE  New(v, facts) \in Frame
    <2>1. PICK T \in SUBSET Slots : fr.values \in [T -> Nat]
      BY <1>4 DEF Frame
    <2>2. Put(fr.values, op.dst, v) \in [T \cup {op.dst} -> Nat]
      BY <1>9, <2>1 DEF Put
    <2>3. T \cup {op.dst} \in SUBSET Slots
      BY <1>6
    <2>4. Put(fr.values, op.dst, v) \in UNION {[U -> Nat] : U \in SUBSET Slots}
      BY <2>2, <2>3
    <2> QED BY <2>4 DEF Frame
  <1> HIDE DEF New
  <1>10. CASE /\ Construct(op.table, key)
              /\ frames' = [frames EXCEPT ![Len(frames)] =
                              New(FreshValue(op.table), Put(fr.facts, i, nextFact'))]
    <2>1. PICK v, g : v = FreshValue(op.table) /\ g = nextFact + 1
      OBVIOUS
    <2>2. IInv'
      <3>1. Activate(op.table, key, FreshValue(op.table), FALSE) /\ phase # "repair"
        BY <1>10 DEF Construct
      <3>2. FALSE \in BOOLEAN /\ FreshValue(op.table) \in Roots \cup {FreshValue(op.table)}
        OBVIOUS
      <3> QED BY <1>1, <1>6, <1>7, <3>1, <3>2, ActivateRootsInv
    <2>3. /\ nextFact \in Nat /\ nextFact' = nextFact + 1 /\ nextFact' \in Nat
          /\ nextFact <= nextFact'
          /\ \A f \in 1..nextFact : recipe'[f] = recipe[f]
          /\ recipe'[g] = [table |-> op.table, key |-> key, value |-> v]
          /\ root' = root /\ phase' = phase
      BY <1>1, <1>10, <2>1, ConstructKeeps
    <2>4. /\ v = NumImports + g /\ v \in Made' /\ v \in Nat
          /\ g = nextFact' /\ g \in 1..nextFact' /\ g \in Nat
      BY <1>6, <2>1, <2>3, BoundsAssumption DEF FreshValue, ClassOf, Made
    <2>5. SoundFrame(fr, i - 1)'
      BY <1>1, <1>5, <2>3, <2>4, KeepFrame
    <2>6. /\ Put(fr.facts, i, g) \in UNION {[T -> Nat] : T \in SUBSET Ops}
          /\ \A j \in DOMAIN fr.facts : fr.facts[j] # g
      <3>1. PICK T \in SUBSET Ops : fr.facts \in [T -> Nat]
        BY <1>4 DEF Frame
      <3>2. g \in Nat
        BY <2>3, <2>4
      <3>3. Put(fr.facts, i, g) \in [T \cup {i} -> Nat] /\ T \cup {i} \in SUBSET Ops
        BY <1>3, <3>1, <3>2 DEF Put
      <3>4. \A j \in DOMAIN fr.facts : fr.facts[j] \in 1..nextFact
        BY <1>5 DEF SoundFrame
      <3> QED BY <2>3, <2>4, <3>3, <3>4
    <2>7. \A n \in DOMAIN Body[i].args :
            root'[recipe'[g].key[n]] = root'[fr.values[Body[i].args[n]]]
      <3>1. recipe'[g].key = key
        BY <2>3
      <3>2. \A n \in DOMAIN Body[i].args : root[key[n]] = root[fr.values[Body[i].args[n]]]
        BY <1>1, <1>6, RootOfMade DEF key
      <3> QED BY <2>3, <3>1, <3>2
    <2>8. recipe'[g].table = Body[i].table /\ recipe'[g].value = v
      BY <2>3
    <2>9. SoundFrame(New(v, Put(fr.facts, i, g)), i)'
      BY <1>3, <2>4, <2>5, <2>6, <2>7, <2>8, ExtendFrame DEF New
    <2>10. New(v, Put(fr.facts, i, g)) \in Frame
      BY <1>9, <2>4, <2>6
    <2>11. frames' = [frames EXCEPT ![Len(frames)] = New(v, Put(fr.facts, i, g))]
      BY <1>10, <2>1, <2>4
    <2>12. PICK new \in Frame : new = New(v, Put(fr.facts, i, g))
      BY <2>10
    <2>13. SoundFrame(new, i)'
      BY <2>9, <2>12
    <2>14. FramesSound'
      BY <1>1, <1>2, <1>3, <1>8, <2>3, <2>4, <2>11, <2>12, <2>13, FrameGrows
    <2> QED BY <2>2, <2>14 DEF LInv
  <1>11. ASSUME NEW f \in FactRefs, First(f, Matching(op.table, key)),
                frames' = [frames EXCEPT ![Len(frames)] = New(Row(f).value, fr.facts)],
                UNCHANGED vars
         PROVE  LInv'
    <2>1. IInv'
      BY <1>1, <1>11, NextInv
    <2>2. UNCHANGED <<root, nextFact, recipe, phase>> /\ Made' = Made
      BY <1>11 DEF vars, unionVars, rowVars, Made
    <2>3. f \in DOMAIN recipe /\ recipe[f].table \in Constructors
      BY <1>1, <1>6, <1>11 DEF First, Matching, TypeOK
    <2>4. PICK v : v = Row(f).value
      OBVIOUS
    <2>5. v \in Made /\ v \in Nat /\ nextFact \in Nat /\ nextFact <= nextFact
      <3>1. v \in Made
        BY <1>1, <2>3, <2>4, ValueOfRow
      <3>2. nextFact \in Nat /\ Made \subseteq Nat
        BY <1>1, BoundsAssumption DEF Made, TypeOK
      <3>3. nextFact <= nextFact
        BY <3>2
      <3> QED BY <3>1, <3>2, <3>3
    <2>6. SoundFrame(fr, i - 1)'
      BY <1>1, <1>5, <2>2, <2>5, KeepFrame
    <2>7. fr.facts \in UNION {[T -> Nat] : T \in SUBSET Ops}
      BY <1>4 DEF Frame
    <2>8. PICK new \in Frame : new = New(v, fr.facts)
      BY <1>9, <2>5, <2>7
    <2>9. SoundFrame(new, i)'
      BY <1>3, <2>2, <2>5, <2>6, <2>8, ExtendFrame DEF New
    <2>10. frames' = [frames EXCEPT ![Len(frames)] = new]
      BY <1>11, <2>4, <2>8
    <2>11. FramesSound'
      BY <1>1, <1>2, <1>3, <1>8, <2>2, <2>5, <2>9, <2>10, FrameGrows
    <2> QED BY <2>1, <2>11 DEF LInv
  <1> QED BY <1>8, <1>10, <1>11

------------------------------------------------------------------------------
(* The batch itself: every class goes where `to` says, the rows R are       *)
(* retired, and the rows of every class that took part are dirty.           *)

RootSet == {root[i] : i \in Ids}
LEMMA RootSetIs ==
    ASSUME TypeOK, RootIsOldest
    PROVE  /\ RootSet \subseteq Ids /\ RootSet \subseteq Nat
           /\ \A a \in RootSet : root[a] = a
           /\ \A a \in Ids : root[a] = a => a \in RootSet
           /\ \A a \in Ids : root[a] \in RootSet
           /\ \A a \in Made : root[a] \in RootSet
  <1>1. \A i \in Ids : root[i] \in Ids /\ root[root[i]] = root[i]
    BY DEF TypeOK, RootIsOldest
  <1>2. Ids \subseteq Nat
    BY BoundsAssumption DEF Ids
  <1>3. Made \subseteq Ids
    BY RootOfMade
  <1> QED BY <1>1, <1>2, <1>3 DEF RootSet

Relinks(to, R, K) ==
    /\ root' = [i \in Ids |-> to[root[i]]]
    /\ uses' \in [Ids -> SUBSET Dependency]
    /\ \A i \in Ids, d \in Dependency :
          d \in uses'[i] <=> /\ d \notin R /\ root[i] = i /\ to[i] = i
                             /\ \E j \in RootSet : to[j] = i /\ d \in uses[j]
    /\ dependencies' = [d \in Dependency |-> IF d \in R THEN {} ELSE dependencies[d]]
    /\ dirty' \subseteq live'
    /\ \A d \in live' \ dirty' : /\ d \notin dirty
                                 /\ \A i \in RootSet : to[i] # i => d \notin uses[i]
    /\ live' = live \ R
    /\ intern' = [h \in Hashes |-> intern[h] \ R]
    /\ stamp' = [d \in Dependency |-> IF d \in K THEN epoch ELSE stamp[d]]
    /\ events' = events \cup K
    /\ changed' \in BOOLEAN
    /\ UNCHANGED <<pending, bucketOf, nextFact, recipe, hidden, epoch, phase>>

LEMMA RelinkInv ==
    ASSUME IInv, phase = "repair", NEW to \in [RootSet -> RootSet],
           NEW R, R \subseteq (live \ hidden) \cap FactRefs, NEW K \in SUBSET Dependency,
           \A a \in RootSet : /\ to[a] <= a /\ to[to[a]] = to[a]
                              /\ to[a] # a => a \in Made,
           Relinks(to, R, K)
    PROVE  IInv'
  <1> USE DEF IInv
  <1>1. /\ root' = [i \in Ids |-> to[root[i]]]
        /\ uses' \in [Ids -> SUBSET Dependency]
        /\ \A i \in Ids, d \in Dependency :
              d \in uses'[i] <=> /\ d \notin R /\ root[i] = i /\ to[i] = i
                                 /\ \E j \in RootSet : to[j] = i /\ d \in uses[j]
        /\ dependencies' = [d \in Dependency |-> IF d \in R THEN {} ELSE dependencies[d]]
        /\ dirty' \subseteq live'
        /\ \A d \in live' \ dirty' : /\ d \notin dirty
                                     /\ \A i \in RootSet : to[i] # i => d \notin uses[i]
        /\ live' = live \ R
        /\ intern' = [h \in Hashes |-> intern[h] \ R]
        /\ stamp' = [d \in Dependency |-> IF d \in K THEN epoch ELSE stamp[d]]
        /\ events' = events \cup K
        /\ changed' \in BOOLEAN
        /\ UNCHANGED <<pending, bucketOf, nextFact, recipe, hidden, epoch, phase>>
    BY DEF Relinks
  <1>2. /\ RootSet \subseteq Ids /\ RootSet \subseteq Nat
        /\ \A a \in RootSet : root[a] = a
        /\ \A a \in Ids : root[a] = a => a \in RootSet
        /\ \A a \in Ids : root[a] \in RootSet
    BY RootSetIs
  <1>3. \A i \in Ids : /\ root'[i] = to[root[i]] /\ root'[i] \in RootSet /\ root'[i] \in Ids
                       /\ root'[i] <= root[i]
    BY <1>1, <1>2
  <1>4. TypeOK'
    <2>1. root' \in [Ids -> Ids]
      BY <1>1, <1>2
    <2>2. /\ dependencies' \in [Dependency -> SUBSET Ids]
          /\ stamp' \in [Dependency -> 0..MaxEpoch]
          /\ intern' \in [Hashes -> SUBSET FactRefs]
      BY <1>1 DEF TypeOK
    <2>3. /\ live' \subseteq DOMAIN recipe' /\ hidden' \subseteq live' \cap FactRefs
          /\ dirty' \subseteq Dependency /\ events' \subseteq Dependency
      BY <1>1 DEF TypeOK
    <2> QED BY <2>1, <2>2, <2>3, <1>1 DEF TypeOK, Made
  <1>5. RootIsOldest'
    <2> SUFFICES ASSUME NEW i \in Ids
                 PROVE  root'[root'[i]] = root'[i] /\ root'[i] <= i
      BY DEF RootIsOldest
    <2>1. root[i] \in Ids /\ root[i] <= i /\ root[i] \in RootSet
      BY <1>2 DEF RootIsOldest, TypeOK
    <2>2. root'[i] \in RootSet /\ root[root'[i]] = root'[i]
      BY <1>2, <1>3
    <2>3. root'[root'[i]] = root'[i]
      <3>1. PICK a, b : a = root[i] /\ b = root'[i]
        OBVIOUS
      <3>2. a \in RootSet /\ b = to[a] /\ b \in RootSet /\ b \in Ids /\ root[b] = b
        BY <1>3, <2>1, <2>2, <3>1
      <3>3. to[b] = b
        BY <3>2
      <3>4. root'[b] = to[root[b]]
        BY <1>3, <3>2
      <3> QED BY <3>1, <3>2, <3>3, <3>4
    <2>4. root'[i] <= i
      <3>1. Ids \subseteq Nat
        BY BoundsAssumption DEF Ids
      <3>2. i \in Nat /\ root[i] \in Nat /\ root'[i] \in Nat
        BY <1>3, <2>1, <3>1
      <3>3. root'[i] <= root[i] /\ root[i] <= i
        BY <1>3, <2>1
      <3> QED BY <3>2, <3>3
    <2> QED BY <2>3, <2>4
  <1>6. UnmadeAlone'
    <2> SUFFICES ASSUME NEW i \in Ids \ Made PROVE root'[i] = i
      BY <1>1 DEF UnmadeAlone, Made
    <2>1. root[i] = i /\ i \in RootSet
      BY <1>2 DEF UnmadeAlone
    <2> QED BY <1>1, <2>1
  <1>7. UsesExact'
    <2> SUFFICES ASSUME NEW i \in Ids, NEW d \in Dependency
                 PROVE  d \in uses'[i] <=> \E x \in dependencies'[d] : root'[x] = i
      BY DEF UsesExact
    <2>1. \A j \in Ids : d \in uses[j] <=> \E x \in dependencies[d] : root[x] = j
      BY DEF UsesExact
    <2>2. \A x \in dependencies[d] : x \in Ids
      BY DEF TypeOK
    <2>3. CASE d \in R
      <3>1. dependencies'[d] = {} /\ d \notin uses'[i]
        BY <1>1, <2>3
      <3> QED BY <3>1
    <2>4. CASE d \notin R
      <3>1. dependencies'[d] = dependencies[d]
        BY <1>1, <2>4
      <3>2. ASSUME d \in uses'[i] PROVE \E x \in dependencies[d] : root'[x] = i
        <4>1. PICK j \in RootSet : to[j] = i /\ d \in uses[j]
          BY <1>1, <3>2
        <4>2. PICK x \in dependencies[d] : root[x] = j
          BY <1>2, <2>1, <4>1
        <4> QED BY <1>3, <2>2, <4>1, <4>2
      <3>3. ASSUME NEW x \in dependencies[d], root'[x] = i PROVE d \in uses'[i]
        <4>1. to[root[x]] = i /\ root[x] \in RootSet /\ i \in RootSet
          BY <1>2, <1>3, <2>2, <3>3
        <4>2. root[i] = i /\ to[i] = i
          BY <1>2, <4>1
        <4>3. d \in uses[root[x]]
          BY <1>2, <2>1, <4>1
        <4> QED BY <1>1, <2>4, <4>1, <4>2, <4>3
      <3> QED BY <3>1, <3>2, <3>3
    <2> QED BY <2>3, <2>4
  <1>8. Covers'
    <2>0. recipe' = recipe
      BY <1>1
    <2> SUFFICES ASSUME NEW d \in Dependency
                 PROVE  IF d \in live'
                        THEN \A i \in Ids : (\E x \in dependencies'[d] : root'[x] = i)
                                            <=> (\E x \in Refs(recipe[d]) : root'[x] = i)
                        ELSE dependencies'[d] = {}
      BY <2>0 DEF Covers, Refs
    <2>1. CASE d \notin live'
      <3>1. d \in R \/ d \notin live
        BY <1>1, <2>1
      <3>2. dependencies'[d] = {}
        BY <1>1, <3>1 DEF Covers
      <3> QED BY <2>1, <3>2
    <2>2. CASE d \in live'
      <3>1. d \in live /\ dependencies'[d] = dependencies[d]
        BY <1>1, <2>2
      <3>2. \A j \in Ids : (\E x \in dependencies[d] : root[x] = j)
                            <=> (\E x \in Refs(recipe[d]) : root[x] = j)
        BY <3>1 DEF Covers
      <3>3. dependencies[d] \subseteq Ids /\ Refs(recipe[d]) \subseteq Ids
        BY DEF TypeOK, Refs
      <3>5. \A i \in Ids : (\E x \in dependencies[d] : root'[x] = i)
                            <=> (\E x \in Refs(recipe[d]) : root'[x] = i)
        <4>1. PICK S \in SUBSET Ids, S2 \in SUBSET Ids :
                S = dependencies[d] /\ S2 = Refs(recipe[d])
          BY <3>3
        <4>2. \A j \in Ids : (\E x \in S : root[x] = j) <=> (\E x \in S2 : root[x] = j)
          BY <3>2, <4>1
        <4>3. ASSUME NEW x \in S PROVE \E y \in S2 : root'[y] = root'[x]
          <5>1. root[x] \in Ids
            BY <1>2
          <5>2. PICK y \in S2 : root[y] = root[x]
            BY <4>2, <5>1
          <5> QED BY <1>3, <5>2
        <4>4. ASSUME NEW x \in S2 PROVE \E y \in S : root'[y] = root'[x]
          <5>1. root[x] \in Ids
            BY <1>2
          <5>2. PICK y \in S : root[y] = root[x]
            BY <4>2, <5>1
          <5> QED BY <1>3, <5>2
        <4> QED BY <4>1, <4>3, <4>4
      <3> QED BY <2>2, <3>1, <3>5
    <2> QED BY <2>1, <2>2
  <1>9. Filed'
    BY <1>1 DEF Filed
  <1>10. \A d \in (live' \cap FactRefs) \ dirty' :
           /\ d \in (live \cap FactRefs) \ dirty /\ d \notin R
           /\ [j \in DOMAIN recipe[d].key |->
                 IF recipe[d].key[j] \in Ids THEN root'[recipe[d].key[j]] ELSE recipe[d].key[j]]
              = CanonKey(recipe[d].key)
    <2> SUFFICES ASSUME NEW d \in (live' \cap FactRefs) \ dirty'
                 PROVE  /\ d \in (live \cap FactRefs) \ dirty /\ d \notin R
                        /\ [j \in DOMAIN recipe[d].key |->
                              IF recipe[d].key[j] \in Ids
                              THEN root'[recipe[d].key[j]] ELSE recipe[d].key[j]]
                           = CanonKey(recipe[d].key)
      OBVIOUS
    <2>1. d \in (live \cap FactRefs) \ dirty /\ d \notin R
      BY <1>1
    <2>2. \A x \in Refs(recipe[d]) : x \in Ids /\ d \in uses[root[x]]
      <3>1. \A i \in Ids : (\E x \in Refs(recipe[d]) : root[x] = i) <=> d \in uses[i]
        BY <2>1, ListedWhereMentioned
      <3> QED BY <1>2, <3>1 DEF Refs
    <2>3. \A x \in Refs(recipe[d]) : to[root[x]] = root[x]
      BY <1>1, <1>2, <2>2
    <2>4. \A j \in DOMAIN recipe[d].key :
            recipe[d].key[j] \in Ids => recipe[d].key[j] \in Refs(recipe[d])
      BY DEF Refs
    <2>5. \A j \in DOMAIN recipe[d].key : recipe[d].key[j] \in Ids
            => root'[recipe[d].key[j]] = root[recipe[d].key[j]]
      BY <1>3, <2>2, <2>3, <2>4
    <2> QED BY <2>1, <2>5 DEF CanonKey, Canon
  <1>11. CleanIndexed'
    <2> SUFFICES ASSUME NEW d \in (live' \cap FactRefs) \ dirty'
                 PROVE  /\ bucketOf[d] = HashOf(recipe[d].table,
                             [j \in DOMAIN recipe[d].key |->
                                IF recipe[d].key[j] \in Ids
                                THEN root'[recipe[d].key[j]] ELSE recipe[d].key[j]])
                        /\ d \in intern'[bucketOf[d]]
      BY <1>1 DEF CleanIndexed, Row, CanonKey, Canon
    <2>1. d \in (live \cap FactRefs) \ dirty /\ d \notin R
      BY <1>10
    <2>2. /\ bucketOf[d] = HashOf(recipe[d].table, CanonKey(recipe[d].key))
          /\ d \in intern[bucketOf[d]] /\ bucketOf[d] \in Hashes
      BY <2>1 DEF CleanIndexed, Row, TypeOK
    <2> QED BY <1>1, <1>10, <2>1, <2>2
  <1>12. CleanUnique'
    <2> SUFFICES ASSUME NEW d \in (live' \cap FactRefs) \ dirty',
                        NEW e \in (live' \cap FactRefs) \ dirty', SameKey(d, e)'
                 PROVE  d = e
      BY DEF CleanUnique
    <2>1. SameKey(d, e)
      <3>1. /\ CanonKey(recipe[d].key)' = CanonKey(recipe[e].key)'
            /\ recipe[d].table = recipe[e].table
        BY <1>1 DEF SameKey
      <3>2. \A x \in (live' \cap FactRefs) \ dirty' :
              CanonKey(recipe[x].key)' =
                   [j \in DOMAIN recipe[x].key |->
                      IF recipe[x].key[j] \in Ids
                      THEN root'[recipe[x].key[j]] ELSE recipe[x].key[j]]
        <4>1. recipe' = recipe
          BY <1>1
        <4> QED BY <4>1 DEF CanonKey, Canon
      <3>3. /\ CanonKey(recipe[d].key)' = CanonKey(recipe[d].key)
            /\ CanonKey(recipe[e].key)' = CanonKey(recipe[e].key)
        BY <1>10, <3>2
      <3> QED BY <3>1, <3>2, <3>3 DEF SameKey
    <2> QED BY <1>10, <2>1 DEF CleanUnique
  <1>13. DirtyLive' /\ QuietOutsideRepair'
    BY <1>1 DEF DirtyLive, QuietOutsideRepair
  <1> QED
    BY <1>4, <1>5, <1>6, <1>7, <1>8, <1>9, <1>11, <1>12, <1>13

------------------------------------------------------------------------------
(* 4. One visit of a frame: what it joins and what it retires.              *)

ClassPairs(c) ==
    {<<Slot(c, Body[m.left].dst), Slot(c, Body[m.right].dst)>> : m \in Proved(c)}
RowPairs(c) == {<<m.left, m.right>> : m \in Proved(c)}
Rows(c) == DOMAIN frames[c].facts

LEMMA BatchIs ==
    ASSUME NEW c
    PROVE  /\ Joined(c) = Linked(RootSet, ClassPairs(c))
           /\ Survivor(c) = Linked(Rows(c), RowPairs(c))
  BY DEF Joined, Survivor, RootSet, ClassPairs, RowPairs, Rows

(* During repair every frame is whole; a proof that is ready stands on rows *)
(* of the frame that are there and visible.                                 *)
LEMMA WholeFrame ==
    ASSUME LInv, phase = "repair", NEW c \in DOMAIN frames
    PROVE  /\ SoundFrame(frames[c], Len(Body))
           /\ \A s \in Slots : /\ frames[c].values[s] \in Made
                               /\ Slot(c, s) \in RootSet /\ Slot(c, s) \in Made
           /\ Rows(c) \subseteq Ops /\ Rows(c) \in SUBSET Nat
           /\ \A i \in Rows(c) : /\ frames[c].facts[i] \in FactRefs
                                 /\ frames[c].facts[i] \in DOMAIN recipe
  <1>1. TypeOK /\ RootIsOldest /\ FramesSound
    BY DEF LInv, IInv
  <1>2. PICK fr : fr = frames[c]
    OBVIOUS
  <1>3. Bound(c) = Len(Body)
    BY <1>1 DEF FramesSound, Bound
  <1>4. SoundFrame(fr, Len(Body))
    BY <1>1, <1>2, <1>3 DEF FramesSound
  <1>5. fr.values \in [Slots -> Made]
    BY <1>4, BodyShape DEF SoundFrame
  <1>6. \A s \in Slots : Slot(c, s) \in RootSet /\ Slot(c, s) \in Made
    BY <1>1, <1>2, <1>5, RootSetIs, RootOfMade DEF Slot
  <1>7. \A i \in DOMAIN fr.facts :
          i \in Ops /\ fr.facts[i] \in FactRefs /\ fr.facts[i] \in DOMAIN recipe
    <2>1. Len(Body) \in 0..Len(Body)
      BY BodyShape
    <2> QED BY <1>1, <1>4, <2>1, RowOfFrame
  <1>8. Ops \subseteq Nat
    BY BodyShape
  <1> QED BY <1>2, <1>4, <1>5, <1>6, <1>7, <1>8 DEF Rows

LEMMA ProvedFacts ==
    ASSUME LInv, phase = "repair", NEW c \in DOMAIN frames, NEW m \in Proved(c)
    PROVE  /\ m \in Compile /\ Equal(c, m)
           /\ m.requires \subseteq Rows(c)
           /\ \A i \in m.requires : frames[c].facts[i] \in (live \ hidden) \cap FactRefs
           /\ m.left \in m.requires /\ m.right \in m.requires
           /\ m.left \in Ops /\ m.right \in Ops
           /\ Body[m.left].dst \in Slots /\ Body[m.right].dst \in Slots
  <1>1. m \in Compile /\ Equal(c, m) /\ Ready(c, m)
    BY DEF Proved, LInv, FramesSound
  <1>2. /\ m.left \in m.requires /\ m.right \in m.requires
        /\ m.left \in Ops /\ m.right \in Ops
    BY <1>1, MergeShape
  <1>3. Body[m.left].dst \in Slots /\ Body[m.right].dst \in Slots
    BY <1>2 DEF Slots
  <1>4. \A i \in m.requires : i \in Rows(c) /\ frames[c].facts[i] \in live \ hidden
    BY <1>1 DEF Ready, Rows
  <1> QED BY <1>1, <1>2, <1>3, <1>4, WholeFrame

(* The classes go to the oldest they are joined to; only classes that are   *)
(* made move.                                                               *)
LEMMA JoinedFacts ==
    ASSUME LInv, phase = "repair", NEW c \in DOMAIN frames
    PROVE  /\ ClassPairs(c) \in SUBSET (RootSet \X RootSet) /\ RootSet \in SUBSET Nat
           /\ Joined(c) \in [RootSet -> RootSet]
           /\ \A a \in RootSet : /\ Joined(c)[a] <= a
                                 /\ Joined(c)[Joined(c)[a]] = Joined(c)[a]
                                 /\ Joined(c)[a] # a => a \in Made /\ Joined(c)[a] \in Made
           /\ \A m \in Proved(c) : Joined(c)[Slot(c, Body[m.left].dst)]
                                  = Joined(c)[Slot(c, Body[m.right].dst)]
  <1>1. RootSet \in SUBSET Nat
    BY RootSetIs DEF LInv, IInv
  <1>2. \A m \in Proved(c) : /\ Slot(c, Body[m.left].dst) \in RootSet
                             /\ Slot(c, Body[m.right].dst) \in RootSet
                             /\ Slot(c, Body[m.left].dst) \in Made
                             /\ Slot(c, Body[m.right].dst) \in Made
    BY ProvedFacts, WholeFrame
  <1>3. ClassPairs(c) \in SUBSET (RootSet \X RootSet)
    BY <1>2 DEF ClassPairs
  <1>4. Ends(ClassPairs(c)) \subseteq Made
    BY <1>2 DEF ClassPairs, Ends
  <1>5. PICK p, pairs, to : /\ p = RootSet /\ pairs = ClassPairs(c) /\ to = Linked(p, pairs)
                            /\ to = Joined(c)
    BY BatchIs
  <1>6. /\ to \in [p -> p]
        /\ \A a \in p : to[a] <= a /\ to[to[a]] = to[a]
        /\ \A e \in pairs : to[e[1]] = to[e[2]]
    <2>1. p \subseteq Nat /\ pairs \subseteq p \X p
      BY <1>1, <1>3, <1>5
    <2>2. JoinsAll(to, p, pairs)
      BY <1>5, <2>1, LinkedFacts
    <2> QED BY <2>2 DEF JoinsAll
  <1>7. \A a \in p : to[a] # a => a \in Made /\ to[a] \in Made
    BY <1>1, <1>3, <1>4, <1>5, LinkedMoves
  <1>8. \A m \in Proved(c) : to[Slot(c, Body[m.left].dst)] = to[Slot(c, Body[m.right].dst)]
    <2> SUFFICES ASSUME NEW m \in Proved(c)
                 PROVE  to[Slot(c, Body[m.left].dst)] = to[Slot(c, Body[m.right].dst)]
      OBVIOUS
    <2>1. PICK e : e = <<Slot(c, Body[m.left].dst), Slot(c, Body[m.right].dst)>>
      OBVIOUS
    <2>2. e \in pairs
      BY <1>5, <2>1 DEF ClassPairs
    <2> QED BY <1>6, <2>1, <2>2
  <1> QED BY <1>1, <1>3, <1>5, <1>6, <1>7, <1>8

(* A duplicate and the row that survives it are rows a proof stands on; no  *)
(* survivor is retired.                                                     *)
LEMMA SurvivorFacts ==
    ASSUME LInv, phase = "repair", NEW c \in DOMAIN frames
    PROVE  /\ RowPairs(c) \in SUBSET (Rows(c) \X Rows(c))
           /\ Survivor(c) \in [Rows(c) -> Rows(c)]
           /\ \A i \in Rows(c) : Survivor(c)[Survivor(c)[i]] = Survivor(c)[i]
           /\ \A i \in Duplicates(c) :
                /\ i \in Rows(c) /\ Survivor(c)[i] \in Rows(c)
                /\ Survivor(c)[i] \notin Duplicates(c)
                /\ frames[c].facts[i] \in (live \ hidden) \cap FactRefs
                /\ frames[c].facts[Survivor(c)[i]] \in (live \ hidden) \cap FactRefs
           /\ Retired(c) \subseteq (live \ hidden) \cap FactRefs
           /\ Kept(c) \subseteq (live \ hidden) \cap FactRefs
           /\ Kept(c) \cap Retired(c) = {}
  <1>1. \A m \in Proved(c) :
          /\ m.left \in Rows(c) /\ m.right \in Rows(c)
          /\ frames[c].facts[m.left] \in (live \ hidden) \cap FactRefs
          /\ frames[c].facts[m.right] \in (live \ hidden) \cap FactRefs
    <2> SUFFICES ASSUME NEW m \in Proved(c)
                 PROVE  /\ m.left \in Rows(c) /\ m.right \in Rows(c)
                        /\ frames[c].facts[m.left] \in (live \ hidden) \cap FactRefs
                        /\ frames[c].facts[m.right] \in (live \ hidden) \cap FactRefs
      OBVIOUS
    <2> QED BY ProvedFacts
  <1>2. RowPairs(c) \in SUBSET (Rows(c) \X Rows(c)) /\ Rows(c) \in SUBSET Nat
    BY <1>1, WholeFrame DEF RowPairs
  <1>3. \A i \in Ends(RowPairs(c)) : frames[c].facts[i] \in (live \ hidden) \cap FactRefs
    BY <1>1 DEF RowPairs, Ends
  <1>4. PICK p, pairs, to : /\ p = Rows(c) /\ pairs = RowPairs(c) /\ to = Linked(p, pairs)
                            /\ to = Survivor(c)
    BY BatchIs
  <1>5. to \in [p -> p] /\ \A a \in p : to[to[a]] = to[a]
    <2>1. p \subseteq Nat /\ pairs \subseteq p \X p
      BY <1>2, <1>4
    <2>2. JoinsAll(to, p, pairs)
      BY <1>4, <2>1, LinkedFacts
    <2> QED BY <2>2 DEF JoinsAll
  <1>6. \A i \in p : to[i] # i =>
            /\ frames[c].facts[i] \in (live \ hidden) \cap FactRefs
            /\ frames[c].facts[to[i]] \in (live \ hidden) \cap FactRefs
    BY <1>2, <1>3, <1>4, LinkedMoves
  <1>7. \A i : i \in Duplicates(c) <=> i \in p /\ to[i] # i
    BY <1>4 DEF Duplicates, Rows
  <1>8. Retired(c) \subseteq (live \ hidden) \cap FactRefs
        /\ Kept(c) \subseteq (live \ hidden) \cap FactRefs
    BY <1>4, <1>6, <1>7 DEF Retired, Kept
  <1>9. ASSUME NEW x \in Kept(c), x \in Retired(c) PROVE FALSE
    <2>1. PICK i \in Duplicates(c) : x = frames[c].facts[to[i]]
      BY <1>4, <1>9 DEF Kept
    <2>2. PICK j \in Duplicates(c) : x = frames[c].facts[j]
      BY <1>9 DEF Retired
    <2>3. to[i] \in p /\ j \in p /\ to[to[i]] = to[i]
      BY <1>5, <1>7, <2>1
    <2>4. to[i] = j
      <3>1. \A a, b \in Rows(c) : frames[c].facts[a] = frames[c].facts[b] => a = b
        BY WholeFrame DEF SoundFrame, Rows
      <3> QED BY <1>4, <2>1, <2>2, <2>3, <3>1
    <2> QED BY <1>7, <2>2, <2>3, <2>4
  <1> QED BY <1>2, <1>4, <1>5, <1>6, <1>7, <1>8, <1>9

(* A visit is a batch of that kind: the classes that take part are those a  *)
(* proof joins, and every row they are mentioned in is dirty afterwards.    *)
LEMMA VisitRelinks ==
    ASSUME LInv, NEW c \in DOMAIN frames, RepairLocal(c)
    PROVE  Relinks(Joined(c), Retired(c), Kept(c))
  <1>1. PICK to, R, K, G, V :
          to = Joined(c) /\ R = Retired(c) /\ K = Kept(c) /\ G = Reached(c) /\ V = RootSet
    OBVIOUS
  <1>2. TypeOK /\ RootIsOldest /\ UsesExact /\ Covers /\ DirtyLive /\ phase = "repair"
    BY DEF LInv, IInv, RepairLocal
  <1>3. /\ V \subseteq Ids
        /\ \A a \in V : root[a] = a
        /\ \A a \in Ids : root[a] \in V /\ (root[a] = a => a \in V)
    BY <1>1, <1>2, RootSetIs
  <1>4. to \in [V -> V]
    BY <1>1, <1>2, JoinedFacts
  <1>5. R \subseteq (live \ hidden) \cap FactRefs
    BY <1>1, <1>2, SurvivorFacts
  <1>6. \A i \in Ids, d \in Dependency :
          d \in uses'[i] <=> /\ d \notin R /\ root[i] = i /\ to[i] = i
                             /\ \E j \in V : to[j] = i /\ d \in uses[j]
    <2>1. uses' = [i \in Ids |->
                     (IF root[i] # i \/ to[i] # i THEN uses[i] \ uses[i]
                      ELSE UNION {uses[j] : j \in {k \in Ids : root[k] = k /\ to[k] = i}}) \ R]
      BY <1>1 DEF RepairLocal
    <2> SUFFICES ASSUME NEW i \in Ids, NEW d \in Dependency
                 PROVE  d \in uses'[i] <=> /\ d \notin R /\ root[i] = i /\ to[i] = i
                                           /\ \E j \in V : to[j] = i /\ d \in uses[j]
      OBVIOUS
    <2>2. CASE root[i] # i \/ to[i] # i
      BY <2>1, <2>2
    <2>3. CASE root[i] = i /\ to[i] = i
      <3>1. uses'[i] = (UNION {uses[j] : j \in {k \in Ids : root[k] = k /\ to[k] = i}}) \ R
        BY <2>1, <2>3
      <3>2. \A j : j \in V <=> j \in Ids /\ root[j] = j
        BY <1>3
      <3> QED BY <2>3, <3>1, <3>2
    <2> QED BY <2>2, <2>3
  <1>7. uses' \in [Ids -> SUBSET Dependency]
    <2>1. uses \in [Ids -> SUBSET Dependency]
      BY <1>2 DEF TypeOK
    <2>2. PICK gathered : uses' = [i \in Ids |-> gathered[i] \ R] /\
            gathered = [i \in Ids |->
                     (IF root[i] # i \/ to[i] # i THEN uses[i] \ uses[i]
                      ELSE UNION {uses[j] : j \in {k \in Ids : root[k] = k /\ to[k] = i}})]
      BY <1>1 DEF RepairLocal
    <2>3. \A i \in Ids : gathered[i] \subseteq Dependency
      BY <2>1, <2>2
    <2> QED BY <2>2, <2>3
  <1>8. G \subseteq live
    <2>1. ASSUME NEW i \in Ids, NEW d \in uses[i] PROVE d \in live
      <3>1. d \in Dependency
        BY <1>2 DEF TypeOK
      <3>2. dependencies[d] # {}
        BY <1>2, <3>1 DEF UsesExact
      <3> QED BY <1>2, <3>1, <3>2 DEF Covers
    <2>2. G = UNION {uses[i] : i \in {k \in Ids : root[k] = k /\ to[k] # k}
                                     \cup {to[j] : j \in {k \in Ids : root[k] = k /\ to[k] # k}}}
      BY <1>1 DEF Reached
    <2>3. {k \in Ids : root[k] = k /\ to[k] # k}
            \cup {to[j] : j \in {k \in Ids : root[k] = k /\ to[k] # k}} \subseteq Ids
      BY <1>3, <1>4
    <2> QED BY <2>1, <2>2, <2>3
  <1>9. \A i \in V : to[i] # i => uses[i] \subseteq G
    <2> SUFFICES ASSUME NEW i \in V, to[i] # i PROVE uses[i] \subseteq G
      OBVIOUS
    <2>1. i \in Ids /\ root[i] = i
      BY <1>3
    <2> QED BY <1>1, <2>1 DEF Reached
  <1>10. /\ root' = [i \in Ids |-> to[root[i]]]
         /\ dependencies' = [d \in Dependency |-> IF d \in R THEN {} ELSE dependencies[d]]
         /\ dirty' = (dirty \cup G) \ R
         /\ live' = live \ R
         /\ intern' = [h \in Hashes |-> intern[h] \ R]
         /\ stamp' = [d \in Dependency |-> IF d \in K THEN epoch ELSE stamp[d]]
         /\ events' = events \cup K
         /\ UNCHANGED <<pending, bucketOf, nextFact, recipe, hidden, epoch, phase>>
    BY <1>1 DEF RepairLocal, Settled
  <1>11. changed' \in BOOLEAN
    <2>1. changed' = (changed \/ \E i \in Ids : to[root[i]] # root[i])
      BY <1>1 DEF RepairLocal
    <2> QED BY <1>2, <2>1 DEF TypeOK
  <1>12. dirty' \subseteq live'
    BY <1>2, <1>8, <1>10 DEF DirtyLive
  <1>13. \A d \in live' \ dirty' : d \notin dirty /\ \A i \in V : to[i] # i => d \notin uses[i]
    BY <1>9, <1>10
  <1>14. Relinks(to, R, K)
    BY <1>1, <1>6, <1>7, <1>10, <1>11, <1>12, <1>13 DEF Relinks
  <1> QED BY <1>1, <1>14

LEMMA RepairLocalInv ==
    ASSUME LInv, NEW c \in DOMAIN frames, RepairLocal(c)
    PROVE  LInv'
  <1>1. IInv /\ TypeOK /\ RootIsOldest /\ FramesSound /\ phase = "repair"
    BY DEF LInv, IInv, RepairLocal
  <1>2. PICK to, R, K : to = Joined(c) /\ R = Retired(c) /\ K = Kept(c)
    OBVIOUS
  <1>3. Relinks(to, R, K)
    BY <1>2, VisitRelinks
  <1>4. to \in [RootSet -> RootSet]
        /\ \A a \in RootSet : to[a] <= a /\ to[to[a]] = to[a] /\ (to[a] # a => a \in Made)
    BY <1>1, <1>2, JoinedFacts
  <1>5. R \subseteq (live \ hidden) \cap FactRefs /\ K \in SUBSET Dependency
    BY <1>1, <1>2, SurvivorFacts, Numbering
  <1>6. IInv'
    BY <1>1, <1>3, <1>4, <1>5, RelinkInv
  <1>7. /\ nextFact' = nextFact /\ recipe' = recipe /\ phase' = phase
        /\ root' = [i \in Ids |-> to[root[i]]]
    BY <1>3 DEF Relinks
  <1>8. pc = 0 /\ pc' = 0 /\ merges' = merges
    BY <1>1 DEF RepairLocal, FramesSound
  <1>9. PICK fr, D, new : /\ fr = frames[c] /\ D = Duplicates(c)
                          /\ new = [fr EXCEPT !.facts = [i \in DOMAIN fr.facts \ D |-> fr.facts[i]]]
    OBVIOUS
  <1>10. frames' = [frames EXCEPT ![c] = new]
    BY <1>9 DEF RepairLocal
  <1>11. /\ frames \in Seq(Frame) /\ fr \in Frame
         /\ new.values = fr.values /\ new.facts = [i \in DOMAIN fr.facts \ D |-> fr.facts[i]]
         /\ new = [values |-> new.values, facts |-> new.facts]
    <2>1. frames \in Seq(Frame)
      BY <1>1 DEF FramesSound
    <2>2. fr \in Frame
      BY <1>9, <2>1
    <2>3. fr = [values |-> fr.values, facts |-> fr.facts]
      BY <2>2 DEF Frame
    <2>4. new = [values |-> fr.values, facts |-> [i \in DOMAIN fr.facts \ D |-> fr.facts[i]]]
      BY <1>9, <2>3
    <2> QED BY <2>1, <2>2, <2>4
  <1>12. new \in Frame
    <2>1. PICK T \in SUBSET Ops : fr.facts \in [T -> Nat]
      BY <1>11 DEF Frame
    <2>2. new.facts \in [T \ D -> Nat] /\ T \ D \in SUBSET Ops
      BY <1>11, <2>1
    <2>3. new.facts \in UNION {[U -> Nat] : U \in SUBSET Ops}
      BY <2>2
    <2>4. new.values \in UNION {[U -> Nat] : U \in SUBSET Slots}
      BY <1>11 DEF Frame
    <2> QED BY <1>11, <2>3, <2>4 DEF Frame
  <1>13. SoundFrame(new, Len(Body))
    <2>1. SoundFrame(fr, Len(Body))
      BY <1>1, <1>9, WholeFrame
    <2>2. /\ DOMAIN new.facts \subseteq DOMAIN fr.facts
          /\ \A i \in DOMAIN new.facts : new.facts[i] = fr.facts[i]
      BY <1>11
    <2> QED BY <1>11, <2>1, <2>2 DEF SoundFrame
  <1>14. ASSUME NEW x, SoundFrame(x, Len(Body)) PROVE SoundFrame(x, Len(Body))'
    <2>1. Len(Body) \in 0..Len(Body)
      BY BodyShape
    <2>2. nextFact \in Nat /\ nextFact <= nextFact
      BY <1>1, BoundsAssumption DEF TypeOK
    <2>3. \A y, z \in Ids : root[y] = root[z] => root'[y] = root'[z]
      BY <1>7
    <2> QED BY <1>1, <1>7, <1>14, <2>1, <2>2, <2>3, KeepFrame
  <1>15. /\ frames' \in Seq(Frame) /\ DOMAIN frames' = DOMAIN frames
         /\ frames'[c] = new /\ \A e \in DOMAIN frames : e # c => frames'[e] = frames[e]
    BY <1>10, <1>11, <1>12
  <1>16. ASSUME NEW e \in DOMAIN frames'
         PROVE  SoundFrame(frames[e], Bound(e))'
    <2>1. PICK x, k : x = frames'[e] /\ k = Bound(e)'
      OBVIOUS
    <2>2. k = Len(Body) /\ Bound(e) = Len(Body)
      BY <1>8, <2>1 DEF Bound
    <2>3. SoundFrame(x, Len(Body))
      <3>1. CASE e = c
        BY <1>13, <1>15, <2>1, <3>1
      <3>2. CASE e # c
        BY <1>1, <1>15, <2>1, <2>2, <3>2 DEF FramesSound
      <3> QED BY <3>1, <3>2
    <2>4. SoundFrame(x, k)'
      BY <1>14, <2>2, <2>3
    <2> QED BY <2>1, <2>4
  <1>17. FramesSound'
    <2>1. pc' \in 0..Len(Body) /\ merges' = Compile
      BY <1>1, <1>8 DEF FramesSound
    <2> QED BY <1>8, <1>15, <1>16, <2>1 DEF FramesSound
  <1> QED BY <1>6, <1>17 DEF LInv

------------------------------------------------------------------------------
LEMMA LInitInv == LocalInit => LInv
  <1> SUFFICES ASSUME LocalInit PROVE LInv
    OBVIOUS
  <1>1. IInv
    BY InitInv DEF LocalInit
  <1>2. frames = <<>> /\ pc = 0 /\ merges = Compile
    BY DEF LocalInit
  <1>3. frames \in Seq(Frame) /\ DOMAIN frames = {} /\ pc \in 0..Len(Body)
    BY <1>2, BodyShape
  <1> QED BY <1>1, <1>2, <1>3 DEF LInv, FramesSound

LEMMA LNextInv == LInv /\ [LocalNext]_allVars => LInv'
  <1> SUFFICES ASSUME LInv, [LocalNext]_allVars PROVE LInv'
    OBVIOUS
  <1>1. CASE BeginRun /\ UNCHANGED frameVars
    BY <1>1, PhaseInv
  <1>2. ASSUME NEW values \in [Params -> Known], NewFrame(values) PROVE LInv'
    BY <1>2, NewFrameInv
  <1>3. CASE RunOp
    BY <1>3, RunOpInv
  <1>4. CASE OtherEffect
    BY <1>4, OtherEffectInv
  <1>5. CASE pc = 0 /\ BeginRepair /\ UNCHANGED frameVars
    BY <1>5, PhaseInv
  <1>6. CASE UnionMarks
    BY <1>6, UnionMarksInv
  <1>7. ASSUME NEW c \in DOMAIN frames, RepairLocal(c) PROVE LInv'
    BY <1>7, RepairLocalInv
  <1>8. ASSUME NEW f \in FactRefs, RepairRow(f) PROVE LInv'
    BY <1>8, RepairRowInv
  <1>9. CASE congruenceDirty = {} /\ Publish /\ UNCHANGED frameVars
    BY <1>9, PhaseInv
  <1>10. CASE UNCHANGED allVars
    <2>1. UNCHANGED vars /\ UNCHANGED frameVars
      BY <1>10 DEF allVars
    <2> QED BY <2>1, PhaseInv
  <1> QED BY <1>1, <1>2, <1>3, <1>4, <1>5, <1>6, <1>7, <1>8, <1>9, <1>10 DEF LocalNext

(* Every reachable graph is sound, and every frame in it is one instance of *)
(* the template: its slots name made classes, and the rows it still owns    *)
(* are the ones its lets made (instantiate, repair_local_congruence).       *)
THEOREM LocalInductive == LocalSpec => []LInv
  BY LInitInv, LNextInv, PTL DEF LocalSpec

(* Once a Run is published no two live rows have the same key, markers      *)
(* included, and every row is filed where lookup() finds it                 *)
(* (repair_local_congruence, repair).                                       *)
THEOREM LocalCongruent == LocalSpec => []Congruent
  <1>1. LInv => Congruent
    <2> SUFFICES ASSUME LInv, phase # "repair"
                 PROVE  /\ \A f, g \in live \cap FactRefs : SameKey(f, g) => f = g
                        /\ \A f \in live \cap FactRefs :
                              bucketOf[f] = HashOf(Row(f).table, Row(f).key)
      BY DEF Congruent
    <2>1. dirty = {} /\ CleanUnique /\ CleanIndexed
      BY DEF LInv, IInv, QuietOutsideRepair
    <2> QED BY <2>1 DEF CleanUnique, CleanIndexed
  <1> QED BY <1>1, LocalInductive, PTL

------------------------------------------------------------------------------
(* 5. What a visit does is what congruence forces.                          *)

(* A frame's row reads as its let does: the slots are its columns.          *)
LEMMA RowOfLet ==
    ASSUME LInv, phase = "repair", NEW c \in DOMAIN frames, NEW i \in Rows(c)
    PROVE  /\ recipe[frames[c].facts[i]].table = Body[i].table
           /\ DOMAIN Body[i].args = DOMAIN recipe[frames[c].facts[i]].key
           /\ Row(frames[c].facts[i]).value = Slot(c, Body[i].dst)
           /\ Row(frames[c].facts[i]).value \in Ids
           /\ Row(frames[c].facts[i]).key
                = [n \in DOMAIN Body[i].args |-> Slot(c, Body[i].args[n])]
           /\ \A n \in DOMAIN Body[i].args :
                /\ recipe[frames[c].facts[i]].key[n] \in Ids
                /\ root[recipe[frames[c].facts[i]].key[n]] = Slot(c, Body[i].args[n])
  <1>1. TypeOK /\ RootIsOldest
    BY DEF LInv, IInv
  <1>2. PICK fr, f : fr = frames[c] /\ f = fr.facts[i]
    OBVIOUS
  <1>3. SoundFrame(fr, Len(Body)) /\ i \in DOMAIN fr.facts /\ Len(Body) \in 0..Len(Body)
    BY <1>2, WholeFrame, BodyShape DEF Rows
  <1>4. /\ recipe[f].table = Body[i].table
        /\ \A n \in DOMAIN Body[i].args :
              root[recipe[f].key[n]] = root[fr.values[Body[i].args[n]]]
        /\ root[recipe[f].value] = root[fr.values[Body[i].dst]]
    BY <1>2, <1>3 DEF SoundFrame
  <1>5. /\ DOMAIN recipe[f].key = DOMAIN Body[i].args
        /\ recipe[f].value \in Ids /\ root[recipe[f].value] \in Ids
        /\ \A n \in DOMAIN Body[i].args : recipe[f].key[n] \in Ids
    BY <1>1, <1>2, <1>3, RowOfFrame, RootOfMade
  <1>6. Row(f).value = root[recipe[f].value]
    BY <1>5 DEF Row, Canon
  <1>7. Row(f).key = [n \in DOMAIN Body[i].args |-> root[recipe[f].key[n]]]
    BY <1>5 DEF Row, Canon, CanonKey
  <1>8. Slot(c, Body[i].dst) = root[fr.values[Body[i].dst]]
        /\ \A n \in DOMAIN Body[i].args :
              Slot(c, Body[i].args[n]) = root[fr.values[Body[i].args[n]]]
    BY <1>2 DEF Slot
  <1>9. [n \in DOMAIN Body[i].args |-> root[recipe[f].key[n]]]
        = [n \in DOMAIN Body[i].args |-> Slot(c, Body[i].args[n])]
    BY <1>4, <1>8
  <1>10. /\ Row(f).value = Slot(c, Body[i].dst) /\ Row(f).value \in Ids
         /\ Row(f).key = [n \in DOMAIN Body[i].args |-> Slot(c, Body[i].args[n])]
         /\ \A n \in DOMAIN Body[i].args :
              recipe[f].key[n] \in Ids /\ root[recipe[f].key[n]] = Slot(c, Body[i].args[n])
    BY <1>4, <1>5, <1>6, <1>7, <1>8, <1>9
  <1> QED BY <1>2, <1>4, <1>5, <1>10

(* A naming that is congruent names the ends of every proof alike: this is  *)
(* where the certificate, compiled from the wiring alone, meets the graph.  *)
LEMMA NamedAlike ==
    ASSUME LInv, phase = "repair", NEW c \in DOMAIN frames, NEW m \in Proved(c),
           NEW nm \in Congruences
    PROVE  nm[Slot(c, Body[m.left].dst)] = nm[Slot(c, Body[m.right].dst)]
  <1>1. PICK val, G : /\ val = [s \in Slots |-> nm[Slot(c, s)]]
                      /\ G = {i \in Rows(c) : frames[c].facts[i] \in (live \ hidden) \cap FactRefs}
    OBVIOUS
  <1>2. Respected(val, G)
    <2> SUFFICES ASSUME NEW i \in G \cap Ops, NEW j \in G \cap Ops,
                        Body[i].table = Body[j].table,
                        \A n \in DOMAIN Body[i].args :
                            val[Body[i].args[n]] = val[Body[j].args[n]]
                 PROVE  val[Body[i].dst] = val[Body[j].dst]
      BY DEF Respected
    <2>1. PICK f, g : f = frames[c].facts[i] /\ g = frames[c].facts[j]
      OBVIOUS
    <2>2. i \in Rows(c) /\ j \in Rows(c) /\ f \in live \cap FactRefs /\ g \in live \cap FactRefs
      BY <1>1, <2>1
    <2>3. /\ recipe[f].table = Body[i].table /\ Row(f).value = Slot(c, Body[i].dst)
          /\ Row(f).key = [n \in DOMAIN Body[i].args |-> Slot(c, Body[i].args[n])]
      BY <2>1, <2>2, RowOfLet
    <2>4. /\ recipe[g].table = Body[j].table /\ Row(g).value = Slot(c, Body[j].dst)
          /\ Row(g).key = [n \in DOMAIN Body[j].args |-> Slot(c, Body[j].args[n])]
      BY <2>1, <2>2, RowOfLet
    <2>5. /\ Body[i].table \in Constructors
          /\ DOMAIN Body[i].args = DOMAIN Body[j].args
          /\ \A n \in DOMAIN Body[i].args : Body[i].args[n] \in Slots /\ Body[j].args[n] \in Slots
          /\ Body[i].dst \in Slots /\ Body[j].dst \in Slots
      <3>1. \A k \in Ops : k - 1 \in 0..Len(Body)
        BY BodyShape
      <3>2. \A k \in Ops : \A n \in DOMAIN Body[k].args : Body[k].args[n] \in Slots
        BY <3>1, BodyShape
      <3> QED BY <3>2, BodyShape
    <2>6. KeyUnder(nm, f) = KeyUnder(nm, g)
      <3>1. \A n \in DOMAIN Body[i].args :
              nm[Slot(c, Body[i].args[n])] = nm[Slot(c, Body[j].args[n])]
        BY <1>1, <2>5
      <3>2. KeyUnder(nm, f) = [n \in DOMAIN Body[i].args |-> nm[Slot(c, Body[i].args[n])]]
        BY <2>3 DEF KeyUnder
      <3>3. KeyUnder(nm, g) = [n \in DOMAIN Body[i].args |-> nm[Slot(c, Body[j].args[n])]]
        BY <2>4, <2>5 DEF KeyUnder
      <3> QED BY <3>1, <3>2, <3>3
    <2>7. nm[Row(f).value] = nm[Row(g).value]
      BY <2>2, <2>3, <2>4, <2>5, <2>6 DEF Congruences
    <2> QED BY <1>1, <2>3, <2>4, <2>5, <2>7
  <1>3. m \in Compile /\ Equal(c, m) /\ m.requires \subseteq G
        /\ Body[m.left].dst \in Slots /\ Body[m.right].dst \in Slots
    BY <1>1, ProvedFacts
  <1>4. Holds(val, G, m)
    <2>1. \A g \in m.guards : \A a, b \in g \cap Slots : val[a] = val[b]
      BY <1>1, <1>3 DEF Equal
    <2> QED BY <1>3, <2>1 DEF Holds
  <1>5. val[Body[m.left].dst] = val[Body[m.right].dst]
    BY <1>2, <1>3, <1>4, MergeSound
  <1> QED BY <1>1, <1>3, <1>5

LEMMA VisitForced == LInv => UnionsForced
  <1> SUFFICES ASSUME LInv, NEW c \in DOMAIN frames, RepairLocal(c),
                      NEW nm \in Congruences, NEW i \in Ids, root'[i] # root[i]
               PROVE  /\ {root[i], root'[i]} \subseteq Mentioned
                      /\ nm[root'[i]] = nm[root[i]]
    BY DEF UnionsForced
  <1>1. /\ phase = "repair" /\ root'[i] = Joined(c)[root[i]]
        /\ TypeOK /\ RootIsOldest
    BY DEF RepairLocal, LInv, IInv
  <1>2. PICK p, pairs, to, a : /\ p = RootSet /\ pairs = ClassPairs(c) /\ to = Joined(c)
                               /\ to = Linked(p, pairs) /\ a = root[i]
    BY BatchIs
  <1>3. p \in SUBSET Nat /\ pairs \in SUBSET (p \X p) /\ a \in p
    BY <1>1, <1>2, JoinedFacts, RootSetIs
  <1>4. nm[to[a]] = nm[a]
    <2>1. Alike(nm, pairs)
      <3> SUFFICES ASSUME NEW m \in Proved(c)
                   PROVE  nm[Slot(c, Body[m.left].dst)] = nm[Slot(c, Body[m.right].dst)]
        BY <1>2 DEF ClassPairs, Alike
      <3> QED BY <1>1, NamedAlike
    <2>2. p \subseteq Nat /\ pairs \subseteq p \X p
      BY <1>3
    <2>3. Follows(nm, Linked(p, pairs), p)
      BY <2>1, <2>2, LinkedNaming
    <2> QED BY <1>2, <1>3, <2>3 DEF Follows
  <1>5. a \in Ends(pairs) /\ to[a] \in Ends(pairs)
    BY <1>1, <1>2, <1>3, LinkedMoves
  <1>6. Ends(pairs) \subseteq Mentioned
    <2>1. ASSUME NEW j \in Rows(c), frames[c].facts[j] \in live \cap FactRefs
          PROVE  Slot(c, Body[j].dst) \in Mentioned
      <3>1. PICK f : f = frames[c].facts[j]
        OBVIOUS
      <3>2. Row(f).value = Slot(c, Body[j].dst) /\ Row(f).value \in Ids
        BY <1>1, <2>1, <3>1, RowOfLet
      <3>3. Row(f).value \in Refs(Row(f))
        BY <3>2 DEF Refs
      <3> QED BY <2>1, <3>1, <3>2, <3>3 DEF Mentioned
    <2>2. ASSUME NEW m \in Proved(c)
          PROVE  /\ Slot(c, Body[m.left].dst) \in Mentioned
                 /\ Slot(c, Body[m.right].dst) \in Mentioned
      <3>1. /\ m.left \in Rows(c) /\ m.right \in Rows(c)
            /\ frames[c].facts[m.left] \in live \cap FactRefs
            /\ frames[c].facts[m.right] \in live \cap FactRefs
        BY <1>1, ProvedFacts
      <3> QED BY <2>1, <3>1
    <2> QED BY <1>2, <2>2 DEF Ends, ClassPairs
  <1> QED BY <1>1, <1>2, <1>4, <1>5, <1>6

(* Two rows a proof shows to be duplicates have one key once the classes    *)
(* the visit joins are one: an argument is the same slot, or guarded, or    *)
(* proved equal by a proof of its own that is ready too.                    *)
LEMMA KeysMeet ==
    ASSUME LInv, phase = "repair", NEW c \in DOMAIN frames, NEW m \in Proved(c),
           NEW n \in DOMAIN Body[m.left].args
    PROVE  Joined(c)[Slot(c, Body[m.left].args[n])] = Joined(c)[Slot(c, Body[m.right].args[n])]
  <1>1. PICK a, b : a = Body[m.left].args[n] /\ b = Body[m.right].args[n]
    OBVIOUS
  <1>2. m \in Compile /\ Equal(c, m) /\ Ready(c, m) /\ merges = Compile
    BY ProvedFacts DEF Proved, LInv, FramesSound
  <1>3. \/ a = b
        \/ {a, b} \in m.guards
        \/ \E k \in Compile :
              /\ {a, b} = {Body[k.left].dst, Body[k.right].dst}
              /\ k.guards \subseteq m.guards /\ k.requires \subseteq m.requires
    BY <1>1, <1>2, MergeArgs
  <1>4. CASE {a, b} \in m.guards
    <2>1. Slot(c, a) = Slot(c, b)
      BY <1>2, <1>4 DEF Equal
    <2> QED BY <1>1, <2>1
  <1>5. ASSUME NEW k \in Compile, {a, b} = {Body[k.left].dst, Body[k.right].dst},
               k.guards \subseteq m.guards, k.requires \subseteq m.requires
        PROVE  Joined(c)[Slot(c, a)] = Joined(c)[Slot(c, b)]
    <2>1. Equal(c, k) /\ Ready(c, k)
      BY <1>2, <1>5 DEF Equal, Ready
    <2>2. k \in Proved(c)
      BY <1>2, <2>1 DEF Proved
    <2>3. Joined(c)[Slot(c, Body[k.left].dst)] = Joined(c)[Slot(c, Body[k.right].dst)]
      BY <2>2, JoinedFacts
    <2>4. \/ a = Body[k.left].dst /\ b = Body[k.right].dst
          \/ b = Body[k.left].dst /\ a = Body[k.right].dst
          \/ a = b
      BY <1>5
    <2> QED BY <2>3, <2>4
  <1> QED BY <1>1, <1>3, <1>4, <1>5

LEMMA VisitKeeps == LInv => KeysKept
  <1> SUFFICES ASSUME LInv, NEW c \in DOMAIN frames, RepairLocal(c), NEW f \in Retired(c)
               PROVE  \E g \in live' \ hidden' : (SameKey(f, g))'
    BY DEF KeysKept
  <1>1. /\ phase = "repair" /\ recipe' = recipe /\ hidden' = hidden
        /\ live' = live \ Retired(c)
        /\ root' = [i \in Ids |-> Joined(c)[root[i]]]
    BY DEF RepairLocal
  <1>2. PICK i \in Duplicates(c) : f = frames[c].facts[i]
    BY DEF Retired
  <1>3. PICK p, pairs, surv, j, g :
          /\ p = Rows(c) /\ pairs = RowPairs(c) /\ surv = Survivor(c)
          /\ surv = Linked(p, pairs) /\ j = surv[i] /\ g = frames[c].facts[j]
    BY BatchIs
  <1>4. /\ p \in SUBSET Nat /\ pairs \in SUBSET (p \X p) /\ i \in p /\ j \in p
        /\ Kept(c) \subseteq live \ hidden /\ Kept(c) \cap Retired(c) = {}
    BY <1>1, <1>3, SurvivorFacts, WholeFrame
  <1>5. g \in live' \ hidden'
    <2>1. g \in Kept(c)
      BY <1>2, <1>3 DEF Kept
    <2> QED BY <1>1, <1>4, <2>1
  <1> DEFINE nm == [k \in p |-> <<Body[k].table,
                                  [n \in DOMAIN Body[k].args |->
                                     Joined(c)[Slot(c, Body[k].args[n])]]>>]
  <1>6. ASSUME NEW m \in Proved(c) PROVE nm[m.left] = nm[m.right]
    <2>1. m.left \in p /\ m.right \in p
      BY <1>1, <1>3, ProvedFacts
    <2>2. /\ Body[m.left].table = Body[m.right].table
          /\ DOMAIN Body[m.left].args = DOMAIN Body[m.right].args
      <3>1. m \in Compile
        BY <1>1, ProvedFacts
      <3> QED BY <3>1, MergeShape
    <2>3. \A n \in DOMAIN Body[m.left].args :
            Joined(c)[Slot(c, Body[m.left].args[n])] = Joined(c)[Slot(c, Body[m.right].args[n])]
      BY <1>1, KeysMeet
    <2>4. [n \in DOMAIN Body[m.left].args |-> Joined(c)[Slot(c, Body[m.left].args[n])]]
          = [n \in DOMAIN Body[m.right].args |-> Joined(c)[Slot(c, Body[m.right].args[n])]]
      BY <2>2, <2>3
    <2> QED BY <2>1, <2>2, <2>4
  <1> HIDE DEF nm
  <1>7. nm[j] = nm[i]
    <2>1. Alike(nm, pairs)
      BY <1>3, <1>6 DEF Alike, RowPairs
    <2>2. p \subseteq Nat /\ pairs \subseteq p \X p
      BY <1>4
    <2>3. Follows(nm, Linked(p, pairs), p)
      BY <2>1, <2>2, LinkedNaming
    <2> QED BY <1>3, <1>4, <2>3 DEF Follows
  <1>8. /\ Body[i].table = Body[j].table
        /\ [n \in DOMAIN Body[i].args |-> Joined(c)[Slot(c, Body[i].args[n])]]
           = [n \in DOMAIN Body[j].args |-> Joined(c)[Slot(c, Body[j].args[n])]]
    BY <1>4, <1>7 DEF nm
  <1>9. ASSUME NEW k \in p, NEW x, x = frames[c].facts[k]
        PROVE  /\ recipe'[x].table = Body[k].table
               /\ CanonKey(recipe[x].key)'
                  = [n \in DOMAIN Body[k].args |-> Joined(c)[Slot(c, Body[k].args[n])]]
    <2>1. /\ recipe[x].table = Body[k].table
          /\ DOMAIN Body[k].args = DOMAIN recipe[x].key
          /\ \A n \in DOMAIN Body[k].args :
                recipe[x].key[n] \in Ids /\ root[recipe[x].key[n]] = Slot(c, Body[k].args[n])
      BY <1>1, <1>3, <1>9, RowOfLet
    <2>2. CanonKey(recipe[x].key)'
          = [n \in DOMAIN recipe[x].key |->
               IF recipe[x].key[n] \in Ids THEN root'[recipe[x].key[n]] ELSE recipe[x].key[n]]
      <3>1. recipe' = recipe
        BY <1>1
      <3> QED BY <3>1 DEF CanonKey, Canon
    <2>3. [n \in DOMAIN recipe[x].key |->
             IF recipe[x].key[n] \in Ids THEN root'[recipe[x].key[n]] ELSE recipe[x].key[n]]
          = [n \in DOMAIN Body[k].args |-> Joined(c)[Slot(c, Body[k].args[n])]]
      BY <1>1, <2>1
    <2> QED BY <1>1, <2>1, <2>2, <2>3
  <1>10. SameKey(f, g)'
    <2>1. recipe'[f].table = recipe'[g].table
      BY <1>2, <1>3, <1>4, <1>8, <1>9
    <2>2. CanonKey(recipe[f].key)'
          = [n \in DOMAIN Body[i].args |-> Joined(c)[Slot(c, Body[i].args[n])]]
      BY <1>2, <1>4, <1>9
    <2>3. CanonKey(recipe[g].key)'
          = [n \in DOMAIN Body[j].args |-> Joined(c)[Slot(c, Body[j].args[n])]]
      BY <1>3, <1>4, <1>9
    <2>4. CanonKey(recipe[f].key)' = CanonKey(recipe[g].key)'
      BY <1>8, <2>2, <2>3
    <2> QED BY <2>1, <2>4 DEF SameKey
  <1> QED BY <1>5, <1>10

(* A local program runs ahead of the global repair but never past it: what  *)
(* it unites, congruence forces, and a row it retires leaves its key behind *)
(* with a row that is live and visible (compile, repair_local_congruence).  *)
THEOREM LocalStepsAreForced == LocalSpec => LocalStepsForced
  <1>1. LInv /\ [LocalNext]_allVars => [UnionsForced /\ KeysKept]_allVars
    BY VisitForced, VisitKeeps
  <1> QED BY <1>1, LocalInductive, PTL DEF LocalSpec, LocalStepsForced
==============================================================================
