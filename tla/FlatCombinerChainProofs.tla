---------------------- MODULE FlatCombinerChainProofs ----------------------
(***************************************************************************)
(* Lemmas about linked lists, of which FlatCombiner's is one: what the     *)
(* shape of a list gives its readers, and that a push behind the head and  *)
(* the removal of a node keep the shape.                                   *)
(***************************************************************************)
EXTENDS FlatCombinerInvariant, TLAPS

\* What the shape of a list gives a reader of its words.
LEMMA ChainFacts ==
  ASSUME NEW f, NEW A, Chain(f, A)
  PROVE  /\ Members(A) \subseteq Node /\ Head \in Members(A) /\ Tail \in Members(A)
         /\ \A a \in Members(A) : A[a] \subseteq A[Head] /\ A[a] \subseteq Members(A)
         /\ \A a \in Members(A) : Head \notin A[a]
         /\ \A a \in Members(A) \ {Tail} :
              f[a].ptr \in A[a] /\ f[a].ptr \in Members(A) \ {Head} /\ f[a].ptr # Null
         /\ \A a \in Members(A) \ {Tail} : \A b \in A[a] :
              b = f[a].ptr \/ b \in A[f[a].ptr]
         /\ \A a \in Members(A) : \A b \in A[a] : a # b /\ a \notin A[b] /\ a # Tail
<1> DEFINE M == Members(A)
<1>1. /\ A \in [Node -> SUBSET Node] /\ Head \in Node /\ Tail \in Node /\ Head # Tail
      /\ \A a \in M : a \notin A[a] /\ \A b \in A[a] : A[b] \subseteq A[a]
      /\ \A a \in M \ {Tail} : A[a] = {f[a].ptr} \union A[f[a].ptr] /\ Tail \in A[a]
      /\ A[Tail] = {}
  BY NodesAssumption DEF Chain, Node
<1>2. M = {Head} \union A[Head] /\ Null \notin Node
  BY NodesAssumption DEF Members
<1> HIDE DEF M
<1>3. M \subseteq Node /\ Head \in M /\ Tail \in M
  BY <1>1, <1>2
<1>4. \A a \in M : A[a] \subseteq A[Head] /\ A[a] \subseteq M
  BY <1>1, <1>2
<1>5. \A a \in M : Head \notin A[a]
  BY <1>1, <1>2, <1>4
<1>6. \A a \in M \ {Tail} : f[a].ptr \in A[a]
  BY <1>1
<1>7. \A a \in M \ {Tail} : f[a].ptr \in M \ {Head} /\ f[a].ptr # Null
  BY <1>2, <1>3, <1>4, <1>5, <1>6
<1>8. \A a \in M \ {Tail} : \A b \in A[a] : b = f[a].ptr \/ b \in A[f[a].ptr]
  BY <1>1
<1>9. \A a \in M : \A b \in A[a] : a # b /\ a \notin A[b] /\ a # Tail
  BY <1>1
<1>10. QED
  BY <1>3, <1>4, <1>5, <1>6, <1>7, <1>8, <1>9 DEF M

\* Words outside the list, and alive bits, do not matter to it.
LEMMA ChainFrame ==
  ASSUME NEW f, NEW g, NEW A, Chain(f, A),
         \A a \in Members(A) : g[a].ptr = f[a].ptr
  PROVE  Chain(g, A)
<1>1. Tail \in Members(A)
  BY ChainFacts
<1>2. \A a \in Members(A) \ {Tail} : A[a] = {g[a].ptr} \union A[g[a].ptr] /\ Tail \in A[a]
  BY DEF Chain
<1>3. ASSUME NEW S \in SUBSET Members(A), Head \in S, \A a \in S \ {Tail} : g[a].ptr \in S
      PROVE  S = Members(A)
  <2>1. \A a \in S \ {Tail} : f[a].ptr \in S
    BY <1>3
  <2>2. QED
    BY <1>3, <2>1 DEF Chain
<1>4. QED
  BY <1>1, <1>2, <1>3 DEF Chain

\* A node has one predecessor.
LEMMA ChainUnique ==
  ASSUME NEW f, NEW A, Chain(f, A),
         NEW a \in Members(A) \ {Tail}, NEW b \in Members(A) \ {Tail},
         f[a].ptr = f[b].ptr
  PROVE  a = b
<1>1. ASSUME NEW x \in Members(A) \ {Tail}, NEW y \in A[x], y # Tail, f[x].ptr = f[y].ptr
      PROVE  FALSE
  <2>1. y \in Members(A) /\ f[y].ptr \in A[y]
    BY <1>1, ChainFacts
  <2>2. y # f[y].ptr
    BY <2>1, ChainFacts
  <2>3. y \in A[f[y].ptr]
    BY <1>1, <2>2, ChainFacts
  <2>4. QED
    BY <2>1, <2>3, ChainFacts
<1>2. a = b \/ a \in A[b] \/ b \in A[a]
  BY DEF Chain
<1>3. QED
  BY <1>1, <1>2

\* The list after s is pushed behind the head, ...
Pushed(A, s) ==
  [a \in Node |-> IF a = s THEN A[Head]
                  ELSE IF a = Head THEN A[Head] \union {s} ELSE A[a]]

\* ... and after c is taken off it.
Without(A, c) == [a \in Node |-> A[a] \ {c}]

\* Who is behind whom after the push.
LEMMA PushedFacts ==
  ASSUME NEW f, NEW A, Chain(f, A), NEW s \in Node \ Members(A)
  PROVE  /\ Members(Pushed(A, s)) = Members(A) \union {s}
         /\ Pushed(A, s)[s] = A[Head] /\ Pushed(A, s)[Head] = A[Head] \union {s}
         /\ \A a \in Node \ {Head, s} : Pushed(A, s)[a] = A[a]
<1>1. s # Head /\ Head \in Node
  BY ChainFacts
<1>2. QED
  BY <1>1 DEF Pushed, Members

\* push_to_queue: a slot whose successor is the head's becomes the head's.
LEMMA ChainPush ==
  ASSUME NEW f \in [Node -> TaggedPointer], NEW A, Chain(f, A),
         NEW s \in Node \ Members(A), f[s].ptr = f[Head].ptr
  PROVE  Chain(SetPtr(f, Head, s), Pushed(A, s))
<1> DEFINE g == SetPtr(f, Head, s)
           B == Pushed(A, s)
           M == Members(A)
<1>1. /\ M \subseteq Node /\ Head \in M /\ Tail \in M /\ Head # Tail
      /\ \A a \in M : A[a] \subseteq A[Head] /\ Head \notin A[a] /\ A[a] \subseteq M
      /\ \A a \in M \ {Tail} : f[a].ptr \in A[a] /\ f[a].ptr \in M \ {Head}
  BY ChainFacts, NodesAssumption
<1>2. /\ Members(B) = M \union {s} /\ B[s] = A[Head] /\ B[Head] = A[Head] \union {s}
      /\ \A a \in Node \ {Head, s} : B[a] = A[a]
  BY PushedFacts
<1>3. g[Head].ptr = s /\ \A a \in Node \ {Head} : g[a] = f[a]
  BY <1>1 DEF SetPtr, TaggedPointer
<1>4. /\ A \in [Node -> SUBSET Node]
      /\ \A a \in M : a \notin A[a] /\ \A b \in A[a] : A[b] \subseteq A[a]
      /\ \A a \in M \ {Tail} : A[a] = {f[a].ptr} \union A[f[a].ptr] /\ Tail \in A[a]
      /\ A[Tail] = {} /\ f[Tail].ptr = Null
      /\ \A a, b \in M : a = b \/ a \in A[b] \/ b \in A[a]
  BY DEF Chain
<1>5. M = {Head} \union A[Head]
  BY DEF Members
<1>6. B \in [Node -> SUBSET Node]
  BY <1>1, <1>4 DEF Pushed
<1> HIDE DEF g, B, M
<1>7. ASSUME NEW a \in Members(B)
      PROVE  a \notin B[a] /\ \A b \in B[a] : B[b] \subseteq B[a]
  <2>0. s # Head /\ s \notin M /\ a \in Node
    BY <1>1, <1>2 DEF M
  <2>1. CASE a = s
    BY <1>1, <1>2, <1>4, <1>5, <2>0, <2>1
  <2>2. CASE a = Head
    BY <1>1, <1>2, <1>4, <1>5, <2>0, <2>2
  <2>3. CASE a \in M \ {Head}
    BY <1>1, <1>2, <1>4, <1>5, <2>0, <2>3
  <2>4. QED
    BY <1>2, <2>1, <2>2, <2>3
<1>8. ASSUME NEW a \in Members(B) \ {Tail}
      PROVE  B[a] = {g[a].ptr} \union B[g[a].ptr] /\ Tail \in B[a]
  <2>0. s # Head /\ s \notin M /\ s # Tail /\ a \in Node
    BY <1>1, <1>2 DEF M
  <2>1. CASE a = s
    <3>1. g[s].ptr = f[Head].ptr
      BY <1>3, <2>0
    <3>2. B[f[Head].ptr] = A[f[Head].ptr]
      BY <1>1, <1>2, <2>0
    <3>3. QED
      BY <1>1, <1>2, <1>4, <2>1, <3>1, <3>2
  <2>2. CASE a = Head
    BY <1>1, <1>2, <1>3, <1>4, <2>0, <2>2
  <2>3. CASE a \in M \ {Head}
    <3>1. g[a].ptr = f[a].ptr /\ f[a].ptr \in M \ {Head}
      BY <1>1, <1>3, <2>0, <2>3
    <3>2. B[a] = A[a] /\ B[g[a].ptr] = A[f[a].ptr]
      BY <1>1, <1>2, <2>0, <2>3, <3>1
    <3>3. QED
      BY <1>4, <2>3, <3>1, <3>2
  <2>4. QED
    BY <1>2, <2>1, <2>2, <2>3
<1>9. B[Tail] = {} /\ g[Tail].ptr = Null
  <2>1. Tail # s /\ Tail # Head /\ Tail \in Node
    BY <1>1 DEF M
  <2>2. QED
    BY <1>2, <1>3, <1>4, <2>1
<1>10. ASSUME NEW a \in Members(B), NEW b \in Members(B)
       PROVE  a = b \/ a \in B[b] \/ b \in B[a]
  <2>0. s # Head /\ s \notin M /\ a \in Node /\ b \in Node
    BY <1>1, <1>2 DEF M
  <2>1. CASE a \in M /\ b \in M
    BY <1>1, <1>2, <1>4, <1>5, <2>0, <2>1
  <2>2. CASE a = s \/ b = s
    BY <1>1, <1>2, <1>5, <2>0, <2>2
  <2>3. QED
    BY <1>2, <2>1, <2>2
<1>11. ASSUME NEW S \in SUBSET Members(B), Head \in S, \A a \in S \ {Tail} : g[a].ptr \in S
       PROVE  S = Members(B)
  <2>0. s # Head /\ s \notin M /\ s # Tail
    BY <1>1 DEF M
  <2>1. s \in S
    BY <1>1, <1>3, <1>11
  <2>2. f[Head].ptr \in S \ {s}
    <3>1. g[s].ptr = f[Head].ptr
      BY <1>3, <2>0
    <3>2. QED
      BY <1>1, <1>11, <2>0, <2>1, <3>1
  <2>3. \A a \in (S \ {s}) \ {Tail} : f[a].ptr \in S \ {s}
    <3>1. TAKE a \in (S \ {s}) \ {Tail}
    <3>2. CASE a = Head
      BY <2>2, <3>2
    <3>3. CASE a # Head
      <4>1. a \in M /\ g[a] = f[a]
        BY <1>1, <1>2, <1>3, <3>3
      <4>2. f[a].ptr \in M
        BY <1>1, <4>1
      <4>3. QED
        BY <1>11, <2>0, <4>1, <4>2
    <3>4. QED
      BY <3>2, <3>3
  <2>4. S \ {s} \in SUBSET M /\ Head \in S \ {s}
    BY <1>2, <1>11, <2>0
  <2>5. S \ {s} = M
    <3>1. \A T \in SUBSET M : Head \in T /\ (\A a \in T \ {Tail} : f[a].ptr \in T) => T = M
      BY DEF Chain, M
    <3>2. QED
      BY <2>3, <2>4, <3>1
  <2>6. QED
    BY <1>2, <2>1, <2>5
<1>12. QED
  BY <1>6, <1>7, <1>8, <1>9, <1>10, <1>11 DEF Chain, g, B

\* Who is behind whom after the removal.
LEMMA WithoutFacts ==
  ASSUME NEW f, NEW A, Chain(f, A), NEW c \in Members(A) \ {Head}
  PROVE  /\ Members(Without(A, c)) = Members(A) \ {c}
         /\ \A a \in Node : Without(A, c)[a] = A[a] \ {c}
<1>1. Head \in Node
  BY ChainFacts
<1>2. QED
  BY <1>1 DEF Without, Members

\* dequeue_slot: the predecessor takes over the successor of what is removed.
LEMMA ChainRemove ==
  ASSUME NEW f \in [Node -> TaggedPointer], NEW A, Chain(f, A),
         NEW p \in Members(A) \ {Tail}, NEW c \in Members(A) \ {Tail}, f[p].ptr = c
  PROVE  Chain(SetPtr(f, p, f[c].ptr), Without(A, c))
<1> DEFINE g == SetPtr(f, p, f[c].ptr)
           B == Without(A, c)
           M == Members(A)
           d == f[c].ptr
<1>1. /\ M \subseteq Node /\ Head \in M /\ Tail \in M
      /\ \A a \in M : A[a] \subseteq M /\ Head \notin A[a]
      /\ \A a \in M \ {Tail} : f[a].ptr \in A[a] /\ f[a].ptr \in M \ {Head}
  BY ChainFacts
<1>2. c # Head /\ c # p
  <2>1. c \in A[p] /\ c # Head
    BY <1>1
  <2>2. QED
    BY <2>1, ChainFacts
<1>3. Members(B) = M \ {c} /\ \A a \in Node : B[a] = A[a] \ {c}
  BY <1>2, WithoutFacts
<1>4. /\ A \in [Node -> SUBSET Node]
      /\ \A a \in M : a \notin A[a] /\ \A b \in A[a] : A[b] \subseteq A[a]
      /\ \A a \in M \ {Tail} : A[a] = {f[a].ptr} \union A[f[a].ptr] /\ Tail \in A[a]
      /\ A[Tail] = {} /\ f[Tail].ptr = Null
      /\ \A a, b \in M : a = b \/ a \in A[b] \/ b \in A[a]
  BY DEF Chain
<1>5. g[p].ptr = d /\ \A a \in Node \ {p} : g[a] = f[a]
  BY <1>1 DEF SetPtr, TaggedPointer
<1>6. \A a \in M \ {Tail} : f[a].ptr = c => a = p
  BY ChainUnique
<1>7. B \in [Node -> SUBSET Node]
  BY <1>4 DEF Without
<1>8. p \in M \ {Tail} /\ c \in M \ {Tail} /\ f[p].ptr = c
  OBVIOUS
<1> HIDE DEF g, B, M
<1>9. ASSUME NEW a \in Members(B)
      PROVE  a \notin B[a] /\ \A b \in B[a] : B[b] \subseteq B[a]
  BY <1>1, <1>3, <1>4
<1>10. ASSUME NEW a \in Members(B) \ {Tail}
       PROVE  B[a] = {g[a].ptr} \union B[g[a].ptr] /\ Tail \in B[a]
  <2>0. a \in M \ {Tail} /\ a # c /\ Tail \in A[a] /\ c # Tail
    BY <1>3, <1>4, <1>8
  <2>1. CASE a = p
    <3>1. g[a].ptr = d /\ d \in M /\ d \in A[c]
      BY <1>1, <1>5, <1>8, <2>1
    <3>2. A[a] = {c} \union A[c] /\ A[c] = {d} \union A[d] /\ c \notin A[c]
      BY <1>4, <1>8, <2>1
    <3>3. B[a] = A[c] /\ B[d] = A[d]
      <4>1. a \in Node /\ d \in Node
        BY <1>1, <2>0, <3>1
      <4>2. B[a] = A[a] \ {c} /\ B[d] = A[d] \ {c}
        BY <1>3, <4>1
      <4>3. c \notin A[d]
        BY <3>2
      <4>4. QED
        BY <3>2, <4>2, <4>3
    <3>4. Tail \in A[c]
      BY <1>4, <1>8
    <3>5. QED
      BY <3>1, <3>2, <3>3, <3>4
  <2>2. CASE a # p
    <3>1. g[a].ptr = f[a].ptr /\ f[a].ptr # c /\ f[a].ptr \in Node
      BY <1>1, <1>5, <1>6, <2>0, <2>2
    <3>2. B[a] = A[a] \ {c} /\ B[g[a].ptr] = A[f[a].ptr] \ {c}
      BY <1>1, <1>3, <2>0, <3>1
    <3>3. A[a] = {f[a].ptr} \union A[f[a].ptr]
      BY <1>4, <2>0
    <3>4. QED
      BY <2>0, <3>1, <3>2, <3>3
  <2>3. QED
    BY <2>1, <2>2
<1>11. B[Tail] = {} /\ g[Tail].ptr = Null
  <2>1. Tail \in Node \ {p}
    BY <1>1, <1>8
  <2>2. QED
    BY <1>3, <1>4, <1>5, <2>1
<1>12. ASSUME NEW a \in Members(B), NEW b \in Members(B)
       PROVE  a = b \/ a \in B[b] \/ b \in B[a]
  BY <1>1, <1>3, <1>4
<1>13. ASSUME NEW S \in SUBSET Members(B), Head \in S, \A a \in S \ {Tail} : g[a].ptr \in S
       PROVE  S = Members(B)
  <2>0. \A T \in SUBSET M : Head \in T /\ (\A a \in T \ {Tail} : f[a].ptr \in T) => T = M
    BY DEF Chain, M
  <2>1. S \in SUBSET M /\ c \notin S
    BY <1>3, <1>13
  <2>2. p \in S
    <3>1. ASSUME p \notin S PROVE \A a \in S \ {Tail} : f[a].ptr \in S
      <4>1. \A a \in S \ {Tail} : g[a] = f[a]
        BY <1>1, <1>5, <2>1, <3>1
      <4>2. QED
        BY <1>13, <4>1
    <3>2. QED
      BY <1>8, <1>13, <2>0, <2>1, <3>1
  <2>3. d \in S
    BY <1>5, <1>8, <1>13, <2>2
  <2> DEFINE T == S \union {c}
  <2>4. T \in SUBSET M /\ Head \in T
    BY <1>8, <1>13, <2>1
  <2>5. \A a \in T \ {Tail} : f[a].ptr \in T
    <3>1. TAKE a \in T \ {Tail}
    <3>2. CASE a = c
      BY <2>3, <3>2
    <3>3. CASE a = p
      BY <1>8, <3>3
    <3>4. CASE a \in S \ {Tail, p}
      <4>1. g[a] = f[a]
        BY <1>1, <1>5, <2>1, <3>4
      <4>2. QED
        BY <1>13, <3>4, <4>1
    <3>5. QED
      BY <3>2, <3>3, <3>4
  <2>6. T = M
    BY <2>0, <2>4, <2>5
  <2>7. QED
    BY <1>3, <2>1, <2>6
<1>14. QED
  BY <1>7, <1>9, <1>10, <1>11, <1>12, <1>13 DEF Chain, g, B

\* The members of a list are what is reached from the head.
LEMMA QueueIsMembers ==
  ASSUME NEW A, Chain(link, A)
  PROVE  Queue = Members(A)
<1> DEFINE M == Members(A)
<1>1. M \subseteq Node /\ Head \in M
  BY ChainFacts
<1>2. \A a \in M \ {Tail} : link[a].ptr \in M /\ link[a].ptr # Null
  BY ChainFacts
<1>3. Closed(M)
  BY <1>2 DEF Closed, Chain
<1>4. ASSUME NEW S \in SUBSET Node, Head \in S, Closed(S)
      PROVE  M \subseteq S
  <2>1. \A a \in (S \intersect M) \ {Tail} : link[a].ptr \in S \intersect M
    BY <1>2, <1>4 DEF Closed
  <2>2. S \intersect M \in SUBSET M /\ Head \in S \intersect M
    BY <1>1, <1>4
  <2>3. \A T \in SUBSET M : Head \in T /\ (\A a \in T \ {Tail} : link[a].ptr \in T) => T = M
    BY DEF Chain
  <2>4. S \intersect M = M
    BY <2>1, <2>2, <2>3
  <2>5. QED
    BY <2>4
<1> HIDE DEF M
<1>5. Queue \subseteq M
  BY <1>1, <1>3 DEF Queue, ReachedFrom
<1>6. M \subseteq Queue
  BY <1>1, <1>4 DEF Queue, ReachedFrom
<1>7. QED
  BY <1>5, <1>6 DEF M

\* From a node of the list one reaches the node and what is behind it.
LEMMA ReachedIsBehind ==
  ASSUME NEW A, Chain(link, A), NEW a \in Members(A)
  PROVE  ReachedFrom(a) \ {a} = A[a]
<1> DEFINE M == Members(A)
           T == {a} \union A[a]
<1>1. /\ M \subseteq Node /\ Head \in M /\ A[a] \subseteq M
      /\ \A b \in M : Head \notin A[b]
      /\ \A b \in M \ {Tail} : link[b].ptr \in A[b] /\ link[b].ptr \in M
      /\ \A b \in M \ {Tail} : \A c \in A[b] : c = link[b].ptr \/ c \in A[link[b].ptr]
      /\ \A b \in M : \A c \in A[b] : b # Tail /\ b # c
  BY ChainFacts
<1>2. /\ \A b \in M : \A c \in A[b] : A[c] \subseteq A[b]
      /\ \A b, c \in M : b = c \/ b \in A[c] \/ c \in A[b]
      /\ link[Tail].ptr = Null
      /\ \A S \in SUBSET M :
           Head \in S /\ (\A b \in S \ {Tail} : link[b].ptr \in S) => S = M
  BY DEF Chain
<1>3. Closed(T)
  <2>1. ASSUME NEW b \in T \ {Tail} PROVE link[b].ptr \in T
    <3>1. b \in M /\ A[b] \subseteq A[a]
      BY <1>1, <1>2
    <3>2. QED
      BY <1>1, <3>1
  <2>2. QED
    BY <1>2, <2>1 DEF Closed
<1>4. ASSUME NEW S \in SUBSET Node, a \in S, Closed(S)
      PROVE  A[a] \subseteq S
  <2> DEFINE R == (M \ T) \union (S \intersect T)
  <2>1. R \in SUBSET M /\ Head \in R
    BY <1>1, <1>4
  <2>2. ASSUME NEW b \in R \ {Tail} PROVE link[b].ptr \in R
    <3>1. b \in M /\ link[b].ptr \in M /\ link[b].ptr \in A[b]
      BY <1>1, <2>1
    <3>2. ASSUME link[b].ptr \in A[a] PROVE b \in T
      <4>1. ASSUME a \in A[b] PROVE FALSE
        <5>1. a = link[b].ptr \/ a \in A[link[b].ptr]
          BY <1>1, <3>1, <4>1
        <5>2. A[link[b].ptr] \subseteq A[a]
          BY <1>2, <3>2
        <5>3. QED
          BY <1>1, <3>2, <5>1, <5>2
      <4>2. QED
        BY <1>2, <3>1, <4>1
    <3>3. CASE link[b].ptr \in A[a]
      <4>1. b \in S
        BY <3>2, <3>3
      <4>2. link[b].ptr # Null
        BY <1>1, <3>1, NodesAssumption
      <4>3. link[b].ptr \in S
        BY <1>4, <4>1, <4>2 DEF Closed
      <4>4. QED
        BY <3>3, <4>3
    <3>4. CASE link[b].ptr \notin A[a]
      BY <1>4, <3>1, <3>4
    <3>5. QED
      BY <3>3, <3>4
  <2> HIDE DEF R
  <2>3. R = M
    BY <1>2, <2>1, <2>2
  <2>4. QED
    BY <1>1, <2>3 DEF R
<1>5. T \in SUBSET Node /\ a \notin A[a]
  BY <1>1
<1>6. ReachedFrom(a) \subseteq T
  BY <1>3, <1>5 DEF ReachedFrom
<1>7. A[a] \subseteq ReachedFrom(a)
  BY <1>1, <1>4 DEF ReachedFrom
<1>8. QED
  BY <1>5, <1>6, <1>7

=============================================================================
