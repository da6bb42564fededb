---------------------------- MODULE NetworkProofs ----------------------------
(***************************************************************************)
(* Proofs about networks of any size, however often they are trained,      *)
(* copied, grown and shrunk: about their memory, about the connections     *)
(* that neurons keep, and about the files they are saved in and read from. *)
(***************************************************************************)
EXTENDS Network, DataLemmas, TLAPS

(* The two pointers, what was lost and the blocks they name: a program     *)
(* that has lost its best network has no other one, so at most two of the  *)
(* three blocks there are are in use, and malloc always has one.           *)
Memory ==
  /\ ptr \in [Handles -> 0..3] /\ lost \in 0..3
  /\ lost # 0 => ptr["best"] = 0
  /\ heap = [b \in DOMAIN heap |-> heap[b]]
  /\ BlocksOwned

LEMMA SomeUnused ==
  ASSUME Memory
  PROVE  /\ Unused \in 1..3 /\ Unused \notin DOMAIN heap
<1>1. \E b \in 1..3 : b \notin DOMAIN heap
  BY DEF Memory, BlocksOwned, Handles
<1> QED
  BY <1>1 DEF Unused

LEMMA InitMemory == Init => Memory
  BY DEF Init, Memory, BlocksOwned, Handles

(* A network of its own for a handle that had none ...                     *)
LEMMA NewBlock ==
  ASSUME Memory, NEW h \in Handles, ptr[h] = 0, h = "best" => lost = 0,
         NEW net, New(h, net), lost' = lost
  PROVE  /\ Memory'
         /\ Of(h)' = net
         /\ \A g \in Handles \ {h} : Of(g)' = Of(g)
<1>1. Unused \in 1..3 /\ Unused \notin DOMAIN heap
  BY SomeUnused
<1>2. PICK u \in 1..3 : u = Unused
  BY <1>1
<1>3. /\ heap' = [b \in DOMAIN heap \cup {u} |-> IF b = u THEN net ELSE heap[b]]
      /\ ptr' = [ptr EXCEPT ![h] = u]
      /\ u \notin DOMAIN heap
  BY <1>1, <1>2 DEF New
<1> QED
  BY <1>3 DEF Memory, BlocksOwned, Handles, Of

(* ... and for one that had one, which is freed.                           *)
LEMMA SwitchBlock ==
  ASSUME Memory, NEW h \in Handles, ptr[h] # 0, NEW net, Switch(h, net),
         lost' = lost
  PROVE  /\ Memory'
         /\ Of(h)' = net
         /\ \A g \in Handles \ {h} : Of(g)' = Of(g)
<1>1. Unused \in 1..3 /\ Unused \notin DOMAIN heap
  BY SomeUnused
<1>2. PICK u \in 1..3 : u = Unused
  BY <1>1
<1>3. /\ heap' = [b \in (DOMAIN heap \ {ptr[h]}) \cup {u} |->
                    IF b = u THEN net ELSE heap[b]]
      /\ ptr' = [ptr EXCEPT ![h] = u]
      /\ u \notin DOMAIN heap
  BY <1>1, <1>2 DEF Switch
<1> QED
  BY <1>3 DEF Memory, BlocksOwned, Handles, Of

(* What may become of best_net in a step.                                  *)
BestStep == Of("best")' = Of("best") \/ Of("best")' \in {Of("net"), NoNet}

LEMMA MemoryStep ==
  ASSUME Memory, [Next]_vars
  PROVE  Memory' /\ BestStep
<1> USE DEF Handles
<1>1. CASE Allocate
  <2>1. PICK size \in Sizes : New("net", Allocated(size, events + 1))
    BY <1>1 DEF Allocate
  <2> QED
    BY <1>1, <2>1, NewBlock DEF Allocate, BestStep, Rest
<1>2. CASE Load
  BY <1>2, NewBlock DEF Load, BestStep, Rest
<1>3. CASE Train
  <2>1. ptr' = ptr /\ lost' = lost
    BY <1>3 DEF Train, Rest
  <2>2. DOMAIN heap' = DOMAIN heap /\ heap' = [b \in DOMAIN heap' |-> heap'[b]]
        /\ \A b \in DOMAIN heap : b # ptr["net"] => heap'[b] = heap[b]
    BY <1>3 DEF Train
  <2>3. Memory'
    BY <2>1, <2>2 DEF Memory, BlocksOwned
  <2>4. Of("best")' = Of("best")
    BY <2>1, <2>2 DEF Of, Memory, BlocksOwned
  <2> QED
    BY <2>3, <2>4 DEF BestStep
<1>4. CASE Copy
  BY <1>4, NewBlock DEF Copy, BestStep, Rest
<1>5. CASE Free
  BY <1>5 DEF Free, Memory, BlocksOwned, BestStep, Of, Rest
<1>11. CASE StopAtSmallError
  BY <1>11 DEF StopAtSmallError, Memory, BlocksOwned, BestStep, Of
<1>6. ASSUME NEW dest \in Handles, NEW src \in Handles, Overwrite(dest, src)
      PROVE  Memory' /\ BestStep
  BY <1>6, SwitchBlock DEF Overwrite, BestStep, Rest
<1>7. CASE AddNeurons
  <2>1. PICK at \in AddPlaces(Of("net").size) :
          Switch("net", Added(Of("net"), at[1], at[2], at[3], events + 1))
    BY <1>7 DEF AddNeurons
  <2> QED
    BY <1>7, <2>1, SwitchBlock DEF AddNeurons, BestStep, Rest
<1>8. CASE RemoveNeurons
  <2>1. PICK at \in RemovePlaces(Of("net").size) :
          Switch("net", Removed(Of("net"), at[1], at[2], at[3]))
    BY <1>8 DEF RemoveNeurons
  <2> QED
    BY <1>8, <2>1, SwitchBlock DEF RemoveNeurons, BestStep, Rest
<1>9. CASE Save \/ Exit
  <2>1. heap' = << >> /\ ptr' = [h \in Handles |-> 0] /\ lost' = 0
    BY <1>9 DEF Save, Exit, Gone
  <2>2. Memory'
    BY <2>1 DEF Memory, BlocksOwned
  <2>3. Of("best")' = NoNet
    BY <2>1 DEF Of
  <2> QED
    BY <2>2, <2>3 DEF BestStep
<1>10. CASE UNCHANGED vars
  BY <1>10 DEF vars, Memory, BlocksOwned, BestStep, Of
<1> QED
  BY <1>1, <1>2, <1>3, <1>4, <1>5, <1>6, <1>7, <1>8, <1>9, <1>10, <1>11
  DEF Next

LEMMA MemoryInvariant == Spec => []Memory
<1>1. Memory /\ [Next]_vars => Memory'
  BY MemoryStep
<1> QED
  BY InitMemory, <1>1, PTL DEF Spec

(* Whatever is copied, overwritten, grown, shrunk and freed, no block is   *)
(* shared or used after it was freed, and none is lost but the best        *)
(* network of a training that stops at a small error.                      *)
THEOREM EveryBlockOwned == Spec => []BlocksOwned
<1>1. Memory => BlocksOwned
  BY DEF Memory
<1> QED
  BY MemoryInvariant, <1>1, PTL

(* Nothing done to net reaches best_net: the two never share their layers. *)
THEOREM BestIsKept == Spec => BestKept
<1>1. Memory /\ [Next]_vars =>
        [Of("best")' # Of("best") => Of("best")' \in {Of("net"), NoNet}]_vars
  BY MemoryStep DEF BestStep
<1> QED
  BY MemoryInvariant, <1>1, PTL DEF Spec, BestKept

-----------------------------------------------------------------------------
(* Growth.  What net_allocate makes: weights and deltas at the connections *)
(* of the network, and nowhere else.                                       *)
WellFormed(net) ==
  /\ net = [size |-> net.size, weight |-> net.weight, delta |-> net.delta]
  /\ net.size \in Seq(Nat)
  /\ net.weight = [c \in Connections(net.size) |-> net.weight[c]]
  /\ net.delta = [c \in Connections(net.size) |-> net.delta[c]]

LEMMA ConnectionIs ==
  ASSUME NEW size
  PROVE  /\ \A l \in 2..Len(size) : \A x \in 0..size[l] - 1, y \in 0..size[l - 1] :
              <<l, x, y>> \in Connections(size)
         /\ \A c \in Connections(size) :
              \E l \in 2..Len(size) : \E x \in 0..size[l] - 1, y \in 0..size[l - 1] :
                c = <<l, x, y>>
BY DEF Connections

(* A place and a number that net_add_neurons accepts.                      *)
Place(size, layer, neuron, number) ==
  layer \in DOMAIN size /\ neuron \in 0..size[layer] /\ number \in Nat
Grown(size, layer, number) == [size EXCEPT ![layer] = @ + number]

(* Neurons and biases of a network keep their connections in the grown     *)
(* one, and no two of them get the same.                                   *)
LEMMA ShiftEmbeds ==
  ASSUME NEW size \in Seq(Nat), NEW layer, NEW neuron, NEW number,
         Place(size, layer, neuron, number),
         NEW b \in Connections(size)
  PROVE  /\ Shift(b, layer, neuron, number) \in Connections(Grown(size, layer, number))
         /\ \A d \in Connections(size) :
              Shift(d, layer, neuron, number) = Shift(b, layer, neuron, number) => d = b
<1>t. /\ DOMAIN size = 1..Len(size) /\ Len(size) \in Nat
      /\ \A l \in 1..Len(size) : size[l] \in Nat
      /\ layer \in 1..Len(size) /\ neuron \in 0..size[layer] /\ number \in Nat
  BY DEF Place
<1> DEFINE big == Grown(size, layer, number)
           Nu(l, x) == IF l = layer /\ x >= neuron THEN x + number ELSE x
           Nl(l, y) == IF l = layer + 1 /\ y >= neuron THEN y + number ELSE y
<1>1. /\ Len(big) = Len(size)
      /\ \A l \in 1..Len(size) : big[l] = IF l = layer THEN size[l] + number ELSE size[l]
  BY <1>t DEF Grown
<1>2. \A l, x, y : Shift(<<l, x, y>>, layer, neuron, number) = <<l, Nu(l, x), Nl(l, y)>>
  BY DEF Shift
<1>3. PICK l \in 2..Len(size) : \E x \in 0..size[l] - 1, y \in 0..size[l - 1] :
        b = <<l, x, y>>
  BY ConnectionIs
<1>4. PICK x \in 0..size[l] - 1, y \in 0..size[l - 1] : b = <<l, x, y>>
  BY <1>3
<1>l. l \in 1..Len(size) /\ l - 1 \in 1..Len(size) /\ l \in Int
  BY <1>t
<1>i. size[l] \in Nat /\ size[l - 1] \in Nat /\ x \in Nat /\ y \in Nat
  BY <1>t, <1>l
<1>5. Nu(l, x) \in 0..big[l] - 1
  <2>1. big[l] = IF l = layer THEN size[l] + number ELSE size[l]
    BY <1>1, <1>l
  <2> HIDE DEF big
  <2> QED
    BY <1>t, <1>i, <2>1
<1>6. Nl(l, y) \in 0..big[l - 1]
  <2>1. big[l - 1] = IF l - 1 = layer THEN size[l - 1] + number ELSE size[l - 1]
    BY <1>1, <1>l
  <2>2. l - 1 = layer <=> l = layer + 1
    BY <1>t, <1>l
  <2> HIDE DEF big
  <2> QED
    BY <1>t, <1>i, <2>1, <2>2
<1>7. Shift(b, layer, neuron, number) \in Connections(big)
  <2> HIDE DEF Nu, Nl, big
  <2> QED
    BY <1>1, <1>2, <1>4, <1>5, <1>6, ConnectionIs
<1>8. ASSUME NEW d \in Connections(size),
             Shift(d, layer, neuron, number) = Shift(b, layer, neuron, number)
      PROVE  d = b
  <2>1. PICK k \in 2..Len(size) : \E u \in 0..size[k] - 1, v \in 0..size[k - 1] :
          d = <<k, u, v>>
    BY ConnectionIs
  <2>2. PICK u \in 0..size[k] - 1, v \in 0..size[k - 1] : d = <<k, u, v>>
    BY <2>1
  <2>3. k = l /\ Nu(k, u) = Nu(l, x) /\ Nl(k, v) = Nl(l, y)
    <3> HIDE DEF Nu, Nl
    <3> QED
      BY <1>2, <1>4, <1>8, <2>2
  <2>4. u \in Int /\ v \in Int /\ neuron \in Int
    BY <1>t, <1>l, <1>i, <2>3
  <2>5. u = x
    BY <1>t, <1>i, <2>3, <2>4
  <2>6. v = y
    BY <1>t, <1>i, <2>3, <2>4
  <2> QED
    BY <1>4, <2>2, <2>3, <2>5, <2>6
<1> QED
  BY <1>7, <1>8

(* A network to which neurons were added, with its Fill written out.       *)
Filled(net, layer, neuron, number, n) ==
  LET size == net.size
      big  == Grown(size, layer, number)
      From(c) == {b \in Connections(size) : Shift(b, layer, neuron, number) = c}
  IN [size   |-> big,
      weight |-> [c \in Connections(big) |->
                    IF From(c) = {} THEN Weight(n, c)
                    ELSE [d \in Connections(size) |-> Weight(n + 1, d)]
                           [CHOOSE b \in From(c) : TRUE]],
      delta  |-> [c \in Connections(big) |->
                    IF From(c) = {} THEN Zero ELSE net.delta[CHOOSE b \in From(c) : TRUE]]]

LEMMA AddedIs ==
  ASSUME NEW net, WellFormed(net), NEW n, NEW layer, NEW neuron, NEW number
  PROVE  Added(net, layer, neuron, number, n) = Filled(net, layer, neuron, number, n)
<1> DEFINE size == net.size
           big == Grown(size, layer, number)
           From(c) == {b \in Connections(size) : Shift(b, layer, neuron, number) = c}
           new == Allocated(big, n)
           old == Randomized(net, n + 1)
           Fill(to, what) == [c \in DOMAIN to |->
                               IF From(c) = {} THEN to[c]
                               ELSE what[CHOOSE b \in From(c) : TRUE]]
<1>1. PICK added : added = Added(net, layer, neuron, number, n)
  OBVIOUS
<1>2. added = [new EXCEPT !.weight = Fill(@, old.weight), !.delta = Fill(@, old.delta)]
  BY <1>1 DEF Added, Grown
<1>3. /\ new = [size   |-> big,
                weight |-> [c \in Connections(big) |-> Weight(n, c)],
                delta  |-> [c \in Connections(big) |-> Zero]]
      /\ old.weight = [d \in Connections(size) |-> Weight(n + 1, d)]
      /\ old.delta = net.delta
  BY DEF Allocated, Randomized, WellFormed
<1>4. added = [size |-> big, weight |-> Fill(new.weight, old.weight),
               delta |-> Fill(new.delta, old.delta)]
  <2> HIDE DEF new, old, From, big, Fill
  <2> QED
    BY <1>2, <1>3
<1>5. Fill(new.weight, old.weight)
        = [c \in Connections(big) |->
             IF From(c) = {} THEN Weight(n, c)
             ELSE [d \in Connections(size) |-> Weight(n + 1, d)][CHOOSE b \in From(c) : TRUE]]
  <2>1. /\ DOMAIN new.weight = Connections(big)
        /\ \A c \in Connections(big) : new.weight[c] = Weight(n, c)
    <3> HIDE DEF new, big
    <3> QED
      BY <1>3
  <2> HIDE DEF new, old, From, big
  <2> QED
    BY <1>3, <2>1
<1>6. Fill(new.delta, old.delta)
        = [c \in Connections(big) |->
             IF From(c) = {} THEN Zero ELSE net.delta[CHOOSE b \in From(c) : TRUE]]
  <2>1. /\ DOMAIN new.delta = Connections(big)
        /\ \A c \in Connections(big) : new.delta[c] = Zero
    <3> HIDE DEF new, big
    <3> QED
      BY <1>3
  <2> HIDE DEF new, old, From, big
  <2> QED
    BY <1>3, <2>1
<1> HIDE DEF Fill, new, old
<1> QED
  BY <1>1, <1>4, <1>5, <1>6 DEF Filled

(* What net_add_neurons copies arrives: every connection keeps its delta   *)
(* with its two neurons, bias included, the new ones begin with none, and  *)
(* taking the neurons away again gives what was copied: the deltas, and    *)
(* weights that are random (network.c:1222-1284, 1287-1334).               *)
THEOREM GrowthMovesConnections ==
  ASSUME NEW net, WellFormed(net), NEW n,
         NEW layer, NEW neuron, NEW number, Place(net.size, layer, neuron, number)
  PROVE  LET added == Added(net, layer, neuron, number, n)
             To(b) == Shift(b, layer, neuron, number)
         IN  /\ Removed(added, layer, neuron, number) = Randomized(net, n + 1)
             /\ \A b \in Connections(net.size) : added.delta[To(b)] = net.delta[b]
             /\ \A c \in Connections(added.size) :
                  (\A b \in Connections(net.size) : To(b) # c) => added.delta[c] = Zero
             /\ \A nu \in 0..net.size[layer + 1] - 1 : layer < Len(net.size) =>
                  added.delta[<<layer + 1, nu, added.size[layer]>>]
                    = net.delta[<<layer + 1, nu, net.size[layer]>>]
<1> DEFINE size == net.size
           big == Grown(size, layer, number)
           added == Added(net, layer, neuron, number, n)
           To(b) == Shift(b, layer, neuron, number)
           From(c) == {b \in Connections(size) : To(b) = c}
<1>t. /\ size \in Seq(Nat) /\ Place(size, layer, neuron, number)
      /\ DOMAIN size = 1..Len(size) /\ layer \in DOMAIN size
      /\ number \in Nat /\ neuron \in Nat /\ size[layer] \in Nat
  BY DEF WellFormed, Place
<1>1. \A b \in Connections(size) : To(b) \in Connections(big) /\ From(To(b)) = {b}
  BY <1>t, ShiftEmbeds
<1>2. added = [size   |-> big,
               weight |-> [c \in Connections(big) |->
                             IF From(c) = {} THEN Weight(n, c)
                             ELSE [d \in Connections(size) |-> Weight(n + 1, d)]
                                    [CHOOSE b \in From(c) : TRUE]],
               delta  |-> [c \in Connections(big) |->
                             IF From(c) = {} THEN Zero
                             ELSE net.delta[CHOOSE b \in From(c) : TRUE]]]
  <2>1. added = Filled(net, layer, neuron, number, n)
    BY AddedIs
  <2> HIDE DEF added
  <2> QED
    BY <2>1 DEF Filled
<1>3. /\ added.size = big
      /\ \A c \in Connections(big) : From(c) = {} => added.delta[c] = Zero
      /\ \A b \in Connections(size) : /\ added.delta[To(b)] = net.delta[b]
                                      /\ added.weight[To(b)] = Weight(n + 1, b)
  <2> HIDE DEF added, From, To
  <2>1. \A b : (CHOOSE x \in {b} : TRUE) = b
    OBVIOUS
  <2> QED
    BY <1>1, <1>2, <2>1
<1> HIDE DEF added
<1>4. Removed(added, layer, neuron, number) = Randomized(net, n + 1)
  <2>1. [big EXCEPT ![layer] = @ - number] = size
    BY <1>t DEF Grown
  <2>2. Removed(added, layer, neuron, number)
          = [size   |-> size,
             weight |-> [c \in Connections(size) |-> Weight(n + 1, c)],
             delta  |-> [c \in Connections(size) |-> net.delta[c]]]
    BY <1>3, <2>1 DEF Removed
  <2>3. Randomized(net, n + 1)
          = [size   |-> size,
             weight |-> [c \in Connections(size) |-> Weight(n + 1, c)],
             delta  |-> net.delta]
    BY DEF Randomized, WellFormed
  <2> QED
    BY <2>2, <2>3 DEF WellFormed
<1>5. ASSUME layer < Len(size), NEW nu \in 0..size[layer + 1] - 1
      PROVE  added.delta[<<layer + 1, nu, added.size[layer]>>]
               = net.delta[<<layer + 1, nu, size[layer]>>]
  <2> DEFINE b == <<layer + 1, nu, size[layer]>>
  <2>1. b \in Connections(size)
    <3> PICK k \in 2..Len(size) : k = layer + 1 /\ k - 1 = layer
      BY <1>t, <1>5
    <3>1. nu \in 0..size[k] - 1 /\ size[layer] \in 0..size[k - 1]
      BY <1>t, <1>5
    <3> QED
      BY <3>1, ConnectionIs
  <2>2. big[layer] = size[layer] + number
    BY <1>t DEF Grown
  <2>3. To(b) = <<layer + 1, nu, big[layer]>>
    BY <1>t, <2>2 DEF Shift, Place
  <2> QED
    BY <1>3, <2>1, <2>3
<1> QED
  BY <1>3, <1>4, <1>5 DEF added

-----------------------------------------------------------------------------
(* The order of the loops that write and read the weights.                 *)

LEMMA FiniteTriples ==
  ASSUME NEW A, NEW B, NEW C, IsFiniteSet(A), IsFiniteSet(B), IsFiniteSet(C)
  PROVE  IsFiniteSet(A \X B \X C)
<1> DEFINE f == [t \in A \X B \X C |-> <<<<t[1], t[2]>>, t[3]>>]
<1>1. f \in Injection(A \X B \X C, (A \X B) \X C)
  BY DEF Injection, IsInjective
<1>2. IsFiniteSet((A \X B) \X C)
  BY FS_Product
<1> QED
  BY <1>1, <1>2, FS_Injection

LEMMA ConnectionsFinite ==
  ASSUME NEW size \in Seq(Nat)
  PROVE  IsFiniteSet(Connections(size))
<1> DEFINE Layer(l) == {l} \X (0..size[l] - 1) \X (0..size[l - 1])
           L == 2..Len(size)
           S == {Layer(l) : l \in L}
           f == [l \in L |-> Layer(l)]
<1>1. Len(size) \in Nat /\ \A l \in L : size[l] \in Nat /\ size[l - 1] \in Nat
  OBVIOUS
<1>2. \A l \in L : IsFiniteSet(Layer(l))
  <2>1. ASSUME NEW l \in L PROVE IsFiniteSet(Layer(l))
    <3>1. IsFiniteSet({l})
      BY FS_Singleton
    <3>2. size[l] - 1 \in Int /\ size[l - 1] \in Int /\ 0 \in Int
      BY <1>1
    <3>3. IsFiniteSet(0..size[l] - 1) /\ IsFiniteSet(0..size[l - 1])
      BY <3>2, FS_Interval
    <3> QED
      BY <3>1, <3>3, FiniteTriples
  <2> QED
    BY <2>1
<1>3. IsFiniteSet(S)
  <2>1. f \in Surjection(L, S)
    <3> HIDE DEF Layer
    <3> QED
      BY DEF Surjection
  <2>2. IsFiniteSet(L)
    BY <1>1, FS_Interval
  <2> QED
    BY <2>1, <2>2, FS_Surjection
<1>4. IsFiniteSet(UNION S)
  <2> HIDE DEF Layer
  <2> QED
    BY <1>2, <1>3, FS_UNION
<1> QED
  BY <1>4 DEF Connections

(* Earlier is a total order, so the connection that is earlier than        *)
(* another one has fewer before it.                                        *)
LEMMA EarlierOrders ==
  ASSUME NEW size \in Seq(Nat),
         NEW b \in Connections(size), NEW c \in Connections(size), NEW d \in Connections(size)
  PROVE  /\ b # c => Earlier(b, c) \/ Earlier(c, b)
         /\ ~Earlier(b, b)
         /\ Earlier(b, c) /\ Earlier(c, d) => Earlier(b, d)
<1>1. \A x \in Connections(size) : /\ x = <<x[1], x[2], x[3]>>
                                   /\ x[1] \in Int /\ x[2] \in Int /\ x[3] \in Int
  <2> SUFFICES ASSUME NEW a \in Connections(size)
               PROVE  /\ a = <<a[1], a[2], a[3]>>
                      /\ a[1] \in Int /\ a[2] \in Int /\ a[3] \in Int
    OBVIOUS
  <2>1. PICK l \in 2..Len(size) : \E x \in 0..size[l] - 1, y \in 0..size[l - 1] : a = <<l, x, y>>
    BY ConnectionIs
  <2>2. PICK x \in 0..size[l] - 1, y \in 0..size[l - 1] : a = <<l, x, y>>
    BY <2>1
  <2>3. l \in Int /\ x \in Int /\ y \in Int
    OBVIOUS
  <2> QED
    BY <2>2, <2>3
<1> QED
  BY <1>1 DEF Earlier

(* Each connection has its turn, and only one.                             *)
LEMMA LoopOrderCovers ==
  ASSUME NEW size \in Seq(Nat)
  PROVE  LET n     == Cardinality(Connections(size))
             order == LoopOrder(size)
         IN  /\ n \in Nat
             /\ order \in Seq(Connections(size)) /\ Len(order) = n
             /\ \A c \in Connections(size) : \E i \in 1..n : order[i] = c
<1> DEFINE S == Connections(size)
           n == Cardinality(S)
           order == LoopOrder(size)
           Below(c) == {d \in S : Earlier(d, c)}
           turn == [c \in S |-> Cardinality(Below(c)) + 1]
<1>1. IsFiniteSet(S) /\ n \in Nat
  BY ConnectionsFinite, FS_CardinalityType
<1>2. ASSUME NEW c \in S
      PROVE  /\ IsFiniteSet(Below(c)) /\ Cardinality(Below(c)) \in Nat
             /\ Cardinality(Below(c)) < n
  <2>1. Below(c) \subseteq S /\ c \notin Below(c)
    BY EarlierOrders
  <2> HIDE DEF S, Below
  <2>2. Cardinality(Below(c)) <= n /\ (n = Cardinality(Below(c)) => S = Below(c))
    BY <1>1, <2>1, FS_Subset
  <2>3. IsFiniteSet(Below(c)) /\ Cardinality(Below(c)) \in Nat
    BY <1>1, <2>1, FS_Subset, FS_CardinalityType
  <2> QED
    BY <1>1, <2>1, <2>2, <2>3
<1>3. turn \in [S -> 1..n]
  <2>1. \A c \in S : Cardinality(Below(c)) + 1 \in 1..n
    <3> HIDE DEF S, Below
    <3> QED
      BY <1>1, <1>2
  <2> QED
    BY <2>1
<1>4. ASSUME NEW b \in S, NEW c \in S, Earlier(b, c)
      PROVE  turn[b] < turn[c]
  <2>1. Below(b) \subseteq Below(c) /\ b \in Below(c) /\ b \notin Below(b)
    BY <1>4, EarlierOrders
  <2> HIDE DEF S, Below
  <2>2. Below(b) \in SUBSET Below(c) /\ Below(b) # Below(c)
    BY <2>1
  <2>3. IsFiniteSet(Below(c)) /\ Cardinality(Below(c)) \in Nat /\ Cardinality(Below(b)) \in Nat
    BY <1>2
  <2>4. Cardinality(Below(b)) <= Cardinality(Below(c)) /\ Cardinality(Below(c)) # Cardinality(Below(b))
    BY <2>2, <2>3, FS_Subset
  <2> QED
    BY <2>3, <2>4
<1>5. turn \in Injection(S, 1..n)
  <2>1. ASSUME NEW b \in S, NEW c \in S, turn[b] = turn[c] PROVE b = c
    <3>1. turn[b] \in Int /\ turn[c] \in Int
      BY <1>3
    <3> HIDE DEF turn
    <3>2. ~Earlier(b, c) /\ ~Earlier(c, b)
      BY <1>4, <2>1, <3>1
    <3> QED
      BY <3>2, EarlierOrders
  <2> HIDE DEF turn
  <2> QED
    BY <1>3, <2>1 DEF Injection, IsInjective
<1>6. turn \in Surjection(S, 1..n)
  <2>1. IsFiniteSet(1..n) /\ Cardinality(1..n) = n
    BY <1>1, FS_Interval
  <2> HIDE DEF turn
  <2> QED
    BY <1>5, <2>1, FS_Injection
<1>7. order = [i \in 1..n |-> CHOOSE c \in S : turn[c] = i]
  <2>1. order = [i \in 1..n |-> CHOOSE c \in S : Cardinality(Below(c)) + 1 = i]
    BY DEF LoopOrder
  <2>2. \A c \in S : turn[c] = Cardinality(Below(c)) + 1
    OBVIOUS
  <2>3. ASSUME NEW i \in 1..n
        PROVE  (CHOOSE c \in S : turn[c] = i) = CHOOSE c \in S : Cardinality(Below(c)) + 1 = i
    BY <2>2
  <2> HIDE DEF order, turn, Below, S, n
  <2> QED
    BY <2>1, <2>3
<1> HIDE DEF turn, order
<1>8. \A i \in 1..n : order[i] \in S /\ turn[order[i]] = i
  BY <1>6, <1>7 DEF Surjection
<1>9. order \in Seq(S) /\ Len(order) = n
  <2> HIDE DEF S, n
  <2> QED
    BY <1>1, <1>7, <1>8
<1>10. ASSUME NEW c \in S PROVE \E i \in 1..n : order[i] = c
  <2>1. turn[c] \in 1..n
    BY <1>3
  <2>2. order[turn[c]] \in S /\ turn[order[turn[c]]] = turn[c]
    BY <1>8, <2>1
  <2>3. order[turn[c]] = c
    BY <1>5, <2>2 DEF Injection, IsInjective
  <2> QED
    BY <2>1, <2>3
<1> QED
  BY <1>1, <1>9, <1>10 DEF order

-----------------------------------------------------------------------------
(* The text of a network, number by number.                                *)
LEMMA TextIs ==
  ASSUME NEW net, WellFormed(net)
  PROVE  LET size  == net.size
             order == LoopOrder(size)
             text  == Text(net)
         IN  /\ \E U : text \in Seq(U)
             /\ Len(text) = Len(size) + 4 + Len(order)
             /\ text[1] = Len(size)
             /\ \A k \in 1..Len(size) : text[1 + k] = size[k]
             /\ \A k \in 1..Len(order) :
                  text[Len(size) + 4 + k] = Printed(net.weight[order[k]])
<1> DEFINE size == net.size
           order == LoopOrder(size)
           weights == [k \in DOMAIN order |-> Printed(net.weight[order[k]])]
           U == Nat \cup {"momentum", "learning_rate", "global_error"}
                  \cup {Printed(net.weight[order[k]]) : k \in DOMAIN order}
           constants == <<"momentum", "learning_rate", "global_error">>
<1>1. size \in Seq(Nat)
  BY DEF WellFormed
<1>2. order \in Seq(Connections(size))
  BY <1>1, LoopOrderCovers
<1>3. PICK l \in Nat, n \in Nat : l = Len(size) /\ n = Len(order) /\ DOMAIN order = 1..n
  <2> HIDE DEF order
  <2> QED
    BY <1>1, <1>2
<1>4. weights \in Seq(U) /\ Len(weights) = n
  <2> HIDE DEF order
  <2> QED
    BY <1>3
<1>5. size \in Seq(U) /\ constants \in Seq(U) /\ Len(constants) = 3
  <2>1. \A k \in 1..Len(size) : size[k] \in U
    BY <1>1
  <2> QED
    BY <1>1, <2>1
<1>6. <<l>> \in Seq(U) /\ Len(<<l>>) = 1 /\ <<l>>[1] = l
  OBVIOUS
<1>7. Text(net) = ((<<l>> \o size) \o constants) \o weights
  BY <1>3 DEF Text
<1>8. PICK a : a = <<l>>
  OBVIOUS
<1>9. PICK w : w = weights
  OBVIOUS
<1>10. PICK c : c = constants
  OBVIOUS
<1>11. PICK z : z = size
  OBVIOUS
<1>12. PICK V : V = U
  OBVIOUS
<1>13. /\ a \in Seq(V) /\ z \in Seq(V) /\ c \in Seq(V) /\ w \in Seq(V)
       /\ Len(a) = 1 /\ a[1] = l /\ Len(z) = l /\ Len(c) = 3 /\ Len(w) = n
  BY <1>3, <1>4, <1>5, <1>6, <1>8, <1>9, <1>10, <1>11, <1>12
<1>14. Text(net) = ((a \o z) \o c) \o w
  BY <1>7, <1>8, <1>9, <1>10, <1>11
<1>15. PICK x : x = a \o z
  OBVIOUS
<1>16. /\ x \in Seq(V) /\ Len(x) = l + 1 /\ x[1] = l
       /\ \A k \in 1..l : x[1 + k] = z[k]
  <2>1. /\ Len(a) \in Nat /\ Len(z) \in Nat
        /\ a \o z \in Seq(V) /\ Len(a \o z) = Len(a) + Len(z)
        /\ \A k \in 1..Len(a) : (a \o z)[k] = a[k]
        /\ \A k \in 1..Len(z) : (a \o z)[Len(a) + k] = z[k]
    <3>1. a \in Seq(V) /\ z \in Seq(V)
      BY <1>13
    <3> QED
      BY <3>1
  <2> QED
    BY <1>13, <1>15, <2>1
<1>17. PICK y : y = x \o c
  OBVIOUS
<1>18. /\ y \in Seq(V) /\ Len(y) = l + 4
       /\ \A k \in 1..l + 1 : y[k] = x[k]
  <2>1. /\ Len(x) \in Nat /\ Len(c) \in Nat
        /\ x \o c \in Seq(V) /\ Len(x \o c) = Len(x) + Len(c)
        /\ \A k \in 1..Len(x) : (x \o c)[k] = x[k]
        /\ \A k \in 1..Len(c) : (x \o c)[Len(x) + k] = c[k]
    <3>1. x \in Seq(V) /\ c \in Seq(V)
      BY <1>13, <1>16
    <3> QED
      BY <3>1
  <2> QED
    BY <1>13, <1>16, <1>17, <2>1
<1>19. PICK t : t = y \o w
  OBVIOUS
<1>20. /\ t \in Seq(V) /\ Len(t) = l + 4 + n
       /\ \A k \in 1..l + 4 : t[k] = y[k]
       /\ \A k \in 1..n : t[l + 4 + k] = w[k]
  <2>1. /\ Len(y) \in Nat /\ Len(w) \in Nat
        /\ y \o w \in Seq(V) /\ Len(y \o w) = Len(y) + Len(w)
        /\ \A k \in 1..Len(y) : (y \o w)[k] = y[k]
        /\ \A k \in 1..Len(w) : (y \o w)[Len(y) + k] = w[k]
    <3>1. y \in Seq(V) /\ w \in Seq(V)
      BY <1>13, <1>18
    <3> QED
      BY <3>1
  <2> QED
    BY <1>13, <1>18, <1>19, <2>1
<1>21. t = Text(net)
  BY <1>14, <1>15, <1>17, <1>19
<1>22. t[1] = l /\ \A k \in 1..l : t[1 + k] = size[k]
  <2>1. \A k \in 0..l : 1 + k \in 1..l + 1 /\ 1 + k \in 1..l + 4
    OBVIOUS
  <2>2. \A k \in 0..l : t[1 + k] = x[1 + k]
    BY <1>18, <1>20, <2>1
  <2>3. 1 + 0 = 1 /\ 0 \in 0..l /\ \A k \in 1..l : k \in 0..l
    OBVIOUS
  <2> QED
    BY <1>11, <1>16, <2>2, <2>3
<1>23. \A k \in 1..n : w[k] = Printed(net.weight[order[k]])
  <2> HIDE DEF order
  <2> QED
    BY <1>3, <1>9
<1> HIDE DEF order, U, weights, constants
<1> QED
  BY <1>3, <1>20, <1>21, <1>22, <1>23 DEF order

(* A text that was cut off, and is not refused, was not cut off before its *)
(* last weight; so each weight is found where it was put.                  *)
LEMMA CutIsRead ==
  ASSUME NEW net, WellFormed(net), NEW f \in Cuts(Text(net)), Scanned(f) # NoNet
  PROVE  /\ WellFormed(Scanned(f)) /\ Scanned(f).size = net.size
         /\ \A c \in Connections(net.size) :
              \/ Scanned(f).weight[c] = Printed(net.weight[c])
              \/ c = LoopOrder(net.size)[Cardinality(Connections(net.size))] /\ f.torn
<1> DEFINE S == Connections(net.size)
<1>1. PICK text, size, order : text = Text(net) /\ size = net.size /\ order = LoopOrder(size)
  OBVIOUS
<1>2. size \in Seq(Nat)
  BY <1>1 DEF WellFormed
<1>3. /\ order \in Seq(S) /\ Len(order) = Cardinality(S)
      /\ \A c \in S : \E k \in 1..Len(order) : order[k] = c
  BY <1>1, <1>2, LoopOrderCovers
<1>4. PICK l \in Nat, n \in Nat : l = Len(size) /\ n = Len(order) /\ DOMAIN order = 1..n
  BY <1>2, <1>3
<1>5. PICK U : text \in Seq(U)
  BY <1>1, TextIs
<1>6. /\ Len(text) = l + 4 + n /\ text[1] = l
      /\ \A k \in 1..l : text[1 + k] = size[k]
      /\ \A k \in 1..n : text[l + 4 + k] = Printed(net.weight[order[k]])
  BY <1>1, <1>4, TextIs
<1>7. PICK g \in 0..Len(text) : f.numbers = SubSeq(text, 1, g)
  BY <1>1 DEF Cuts
<1>8. PICK numbers : numbers = f.numbers
  OBVIOUS
<1>9. /\ numbers \in Seq(U) /\ Len(numbers) = g
      /\ \A k \in 1..g : numbers[k] = text[k]
  <2>1. g \in Nat /\ 0 + g <= Len(text) /\ 0 + 1 = 1 /\ 0 + g = g
    BY <1>6
  <2>2. \A k \in 1..g : 0 + k = k
    BY <2>1
  <2>3. /\ SubSeq(text, 0 + 1, 0 + g) \in Seq(U)
        /\ Len(SubSeq(text, 0 + 1, 0 + g)) = g
        /\ \A k \in 1..g : SubSeq(text, 0 + 1, 0 + g)[k] = text[0 + k]
    BY <1>5, <2>1, PartLaws
  <2> QED
    BY <1>7, <1>8, <2>1, <2>2, <2>3
<1> DEFINE part == SubSeq(numbers, 2, numbers[1] + 1)
           turns == LoopOrder(part)
           place == [c \in Connections(part) |-> CHOOSE k \in DOMAIN turns : turns[k] = c]
           first == Len(part) + 4
           Read(k) == IF f.torn /\ first + k = g
                      THEN [numbers[first + k] EXCEPT !.digits = "some"]
                      ELSE numbers[first + k]
           scanned == [size   |-> part,
                       weight |-> [c \in Connections(part) |-> Read(place[c])],
                       delta  |-> [c \in Connections(part) |-> Zero]]
<1>10. Scanned(f) = IF g = 0 \/ g < numbers[1] + 4 \/ g < first + Len(turns) THEN NoNet
                    ELSE scanned
  BY <1>8, <1>9 DEF Scanned
<1>11. Scanned(f) = scanned /\ g # 0 /\ ~(g < numbers[1] + 4) /\ ~(g < first + Len(turns))
  <2> HIDE DEF scanned, first, turns
  <2> QED
    BY <1>10
<1>12. numbers[1] = l /\ g >= l + 4
  <2>1. g \in Nat /\ 1 \in 1..g
    BY <1>6, <1>11
  <2>2. numbers[1] = l
    BY <1>6, <1>9, <2>1
  <2> QED
    BY <1>11, <2>1, <2>2
<1>13. part = size
  <2>1. 1 + l <= Len(numbers) /\ 2 = 1 + 1 /\ numbers[1] + 1 = 1 + l /\ 1 \in Nat
    BY <1>9, <1>12
  <2>2. /\ part \in Seq(U) /\ Len(part) = l
        /\ \A k \in 1..l : part[k] = numbers[1 + k]
    <3>1. part = SubSeq(numbers, 1 + 1, 1 + l)
      BY <2>1
    <3> HIDE DEF part
    <3> QED
      BY <1>9, <2>1, <3>1, PartLaws
  <2>3. \A k \in 1..l : 1 + k \in 1..g
    BY <1>12
  <2>4. \A k \in 1..l : part[k] = size[k]
    <3> HIDE DEF part
    <3> QED
      BY <1>6, <1>9, <2>2, <2>3
  <2> HIDE DEF part
  <2> QED
    BY <1>2, <1>4, <2>2, <2>4, SameSequence
<1>14. turns = order /\ first = l + 4 /\ Connections(part) = S
  BY <1>1, <1>4, <1>13
<1>15. g = l + 4 + n
  <2>1. g \in Nat /\ g <= l + 4 + n
    BY <1>6
  <2>2. first + Len(turns) = l + 4 + n
    <3> HIDE DEF turns, first
    <3> QED
      BY <1>4, <1>14
  <2> HIDE DEF turns, first
  <2>3. ~(g < l + 4 + n)
    BY <1>11, <2>2
  <2> QED
    BY <2>1, <2>3
<1> DEFINE Got(k) == IF f.torn /\ l + 4 + k = g
                     THEN [numbers[l + 4 + k] EXCEPT !.digits = "some"]
                     ELSE numbers[l + 4 + k]
           pl == [c \in S |-> CHOOSE k \in DOMAIN order : order[k] = c]
<1>16. Scanned(f) = [size   |-> size,
                     weight |-> [c \in S |-> Got(pl[c])],
                     delta  |-> [c \in S |-> Zero]]
  <2>1. place = pl
    BY <1>14
  <2>2. \A k : Read(k) = Got(k)
    BY <1>14
  <2> HIDE DEF Read, Got, pl, part, place, first, turns, S
  <2> QED
    BY <1>11, <1>13, <1>14, <2>1, <2>2
<1> HIDE DEF part, turns, place, first, scanned
<1>17. WellFormed(Scanned(f)) /\ Scanned(f).size = net.size
  <2> HIDE DEF Got, pl
  <2> QED
    BY <1>1, <1>2, <1>16 DEF WellFormed
<1>18. ASSUME NEW c \in S
       PROVE  \/ Scanned(f).weight[c] = Printed(net.weight[c])
              \/ c = order[n] /\ f.torn
  <2>1. pl[c] \in 1..n /\ order[pl[c]] = c
    BY <1>3, <1>4
  <2>2. Scanned(f).weight[c] = Got(pl[c])
    <3> HIDE DEF Got, pl
    <3> QED
      BY <1>16
  <2>3. PICK k \in 1..n : k = pl[c] /\ order[k] = c
    BY <2>1
  <2>4. numbers[l + 4 + k] = Printed(net.weight[c])
    <3>1. l + 4 + k \in 1..g
      BY <1>15
    <3> QED
      BY <1>6, <1>9, <2>3, <3>1
  <2>5. l + 4 + k = g => k = n
    BY <1>15
  <2> HIDE DEF pl
  <2> QED
    BY <2>2, <2>3, <2>4, <2>5
<1> QED
  BY <1>1, <1>3, <1>4, <1>17, <1>18

-----------------------------------------------------------------------------
(* Growing and shrinking, and how many deltas are left.                    *)
LEMMA AddedWellFormed ==
  ASSUME NEW net, WellFormed(net), NEW n,
         NEW layer, NEW neuron, NEW number, Place(net.size, layer, neuron, number)
  PROVE  /\ WellFormed(Added(net, layer, neuron, number, n))
         /\ Added(net, layer, neuron, number, n).size = Grown(net.size, layer, number)
<1> DEFINE big == Grown(net.size, layer, number)
           From(c) == {b \in Connections(net.size) : Shift(b, layer, neuron, number) = c}
<1>1. PICK added : added = Added(net, layer, neuron, number, n)
  OBVIOUS
<1>2. big \in Seq(Nat)
  BY DEF WellFormed, Place, Grown
<1>3. added = [size   |-> big,
               weight |-> [c \in Connections(big) |->
                             IF From(c) = {} THEN Weight(n, c)
                             ELSE [d \in Connections(net.size) |-> Weight(n + 1, d)]
                                    [CHOOSE b \in From(c) : TRUE]],
               delta  |-> [c \in Connections(big) |->
                             IF From(c) = {} THEN Zero
                             ELSE net.delta[CHOOSE b \in From(c) : TRUE]]]
  <2>1. added = Filled(net, layer, neuron, number, n)
    BY <1>1, AddedIs
  <2> QED
    BY <2>1 DEF Filled
<1>4. WellFormed(added) /\ added.size = big
  <2> HIDE DEF big, From
  <2> QED
    BY <1>2, <1>3 DEF WellFormed
<1> QED
  BY <1>1, <1>4

LEMMA RemovedWellFormed ==
  ASSUME NEW net, WellFormed(net), NEW layer \in DOMAIN net.size,
         NEW neuron, NEW number \in Nat, number <= net.size[layer]
  PROVE  WellFormed(Removed(net, layer, neuron, number))
<1> DEFINE size == [net.size EXCEPT ![layer] = @ - number]
<1>1. size \in Seq(Nat)
  BY DEF WellFormed
<1>2. PICK small : small = Removed(net, layer, neuron, number)
  OBVIOUS
<1>3. small = [size |-> size,
               weight |-> [c \in Connections(size) |-> net.weight[Shift(c, layer, neuron, number)]],
               delta  |-> [c \in Connections(size) |-> net.delta[Shift(c, layer, neuron, number)]]]
  BY <1>2 DEF Removed
<1>4. WellFormed(small)
  <2> HIDE DEF size
  <2> QED
    BY <1>1, <1>3 DEF WellFormed
<1> QED
  BY <1>2, <1>4

(* As many connections have a delta as before, since each of them has      *)
(* moved to a place of its own.                                            *)
LEMMA DeltasCounted ==
  ASSUME NEW net, WellFormed(net), NEW n,
         NEW layer, NEW neuron, NEW number, Place(net.size, layer, neuron, number)
  PROVE  LET added == Added(net, layer, neuron, number, n)
         IN  Cardinality({c \in DOMAIN added.delta : added.delta[c] # Zero})
               = Cardinality({c \in DOMAIN net.delta : net.delta[c] # Zero})
<1>1. PICK added : added = Added(net, layer, neuron, number, n)
  OBVIOUS
<1> DEFINE S == Connections(net.size)
           To(b) == Shift(b, layer, neuron, number)
           A == {c \in S : net.delta[c] # Zero}
           B == {c \in Connections(added.size) : added.delta[c] # Zero}
           move == [b \in A |-> To(b)]
<1>2. WellFormed(added) /\ added.size = Grown(net.size, layer, number) /\ net.size \in Seq(Nat)
  <2>1. WellFormed(added) /\ added.size = Grown(net.size, layer, number)
    BY <1>1, AddedWellFormed
  <2> QED
    BY <2>1 DEF WellFormed
<1>3. DOMAIN net.delta = S /\ DOMAIN added.delta = Connections(added.size)
  BY <1>2 DEF WellFormed
<1>4. /\ \A b \in S : added.delta[To(b)] = net.delta[b]
      /\ \A c \in Connections(added.size) : (\A b \in S : To(b) # c) => added.delta[c] = Zero
  BY <1>1, GrowthMovesConnections
<1>5. \A b \in S : To(b) \in Connections(added.size) /\ \A d \in S : To(d) = To(b) => d = b
  BY <1>2, ShiftEmbeds
<1> HIDE DEF S, To
<1>6. move \in Bijection(A, B)
  <2>1. move \in [A -> B]
    BY <1>4, <1>5
  <2>2. \A b, d \in A : move[b] = move[d] => b = d
    BY <1>5
  <2>3. \A c \in B : \E b \in A : move[b] = c
    BY <1>4
  <2> HIDE DEF move, A, B
  <2> QED
    BY <2>1, <2>2, <2>3 DEF Bijection, Injection, Surjection, IsInjective
<1>7. IsFiniteSet(A)
  <2>1. IsFiniteSet(S)
    BY <1>2, ConnectionsFinite DEF S
  <2> QED
    BY <2>1, FS_Subset
<1>8. Cardinality(B) = Cardinality(A)
  <2> HIDE DEF move, A, B
  <2> QED
    BY <1>6, <1>7, FS_Bijection DEF ExistsBijection
<1> QED
  BY <1>1, <1>3, <1>8

-----------------------------------------------------------------------------
(* What is in memory is a network, and what is on the disk the text of     *)
(* one, as far as it got.                                                  *)
NetInv ==
  /\ Memory
  /\ events \in Nat
  /\ \A h \in Handles : ptr[h] # 0 => WellFormed(Of(h))
  /\ file = NoFile \/ (WellFormed(saved) /\ file \in Cuts(Text(saved)))

LEMMA AllocatedWellFormed ==
  ASSUME NEW size \in Seq(Nat), NEW n
  PROVE  WellFormed(Allocated(size, n))
BY DEF WellFormed, Allocated

LEMMA FileIsRead ==
  ASSUME NetInv, Scanned(file) # NoNet
  PROVE  /\ WellFormed(Scanned(file)) /\ Scanned(file).size = saved.size
         /\ \A c \in Connections(saved.size) :
              \/ Scanned(file).weight[c] = Printed(saved.weight[c])
              \/ c = LoopOrder(saved.size)[Cardinality(Connections(saved.size))] /\ file.torn
<1>1. file # NoFile
  <2> SUFFICES ASSUME file = NoFile PROVE FALSE
    OBVIOUS
  <2>1. Len(file.numbers) = 0
    <3>1. file.numbers = << >>
      BY DEF NoFile
    <3> QED
      BY <3>1, EmptyLaws
  <2>2. Scanned(file) = NoNet
    BY <2>1 DEF Scanned
  <2> QED
    BY <2>2
<1>2. WellFormed(saved) /\ file \in Cuts(Text(saved))
  BY <1>1 DEF NetInv
<1> QED
  BY <1>2, CutIsRead

(* A step that gives h a network and leaves the other handle alone.        *)
LEMMA GivesWellFormed ==
  ASSUME NetInv, NEW h \in Handles, NEW net, WellFormed(net),
         (ptr[h] = 0 /\ New(h, net)) \/ (ptr[h] # 0 /\ Switch(h, net)),
         h = "best" => ptr[h] # 0 \/ lost = 0,
         UNCHANGED Rest, events' \in Nat
  PROVE  NetInv'
<1>1. Memory /\ ptr \in [Handles -> 0..3]
  BY DEF NetInv, Memory
<1>2. Memory' /\ Of(h)' = net /\ \A g \in Handles \ {h} : Of(g)' = Of(g)
  BY <1>1, NewBlock, SwitchBlock DEF Rest
<1>3. \A g \in Handles \ {h} : ptr'[g] = ptr[g]
  BY <1>1 DEF New, Switch
<1>4. \A g \in Handles : ptr'[g] # 0 => WellFormed(Of(g))'
  <2> SUFFICES ASSUME NEW g \in Handles, ptr'[g] # 0 PROVE WellFormed(Of(g)')
    BY DEF WellFormed
  <2> QED
    BY <1>2, <1>3 DEF NetInv
<1>5. file' = file /\ saved' = saved
  BY DEF Rest
<1>6. (file = NoFile \/ (WellFormed(saved) /\ file \in Cuts(Text(saved))))'
  BY <1>5 DEF NetInv
<1> QED
  BY <1>2, <1>4, <1>6 DEF NetInv

LEMMA AddPlacesArePlaces ==
  ASSUME NEW net, WellFormed(net), NEW at \in AddPlaces(net.size)
  PROVE  Place(net.size, at[1], at[2], at[3])
<1>1. /\ at[1] \in DOMAIN net.size /\ at[2] \in Nat /\ at[3] \in Nat
      /\ at[2] <= net.size[at[1]]
  BY NetworkAssumption DEF AddPlaces
<1>2. net.size[at[1]] \in Nat
  BY <1>1 DEF WellFormed
<1> QED
  BY <1>1, <1>2 DEF Place

LEMMA NetStep ==
  ASSUME NetInv, [Next]_vars
  PROVE  NetInv'
<1>0. /\ Memory /\ Memory' /\ ptr \in [Handles -> 0..3] /\ "net" \in Handles /\ "best" \in Handles
      /\ events \in Nat
      /\ \A h \in Handles : ptr[h] # 0 => WellFormed(Of(h)) /\ Of(h) = heap[ptr[h]]
  BY MemoryStep DEF NetInv, Memory, Handles, Of
<1>d. ASSUME UNCHANGED <<file, saved>>
      PROVE  (file = NoFile \/ (WellFormed(saved) /\ file \in Cuts(Text(saved))))'
  <2>1. file' = file /\ saved' = saved
    BY <1>d
  <2> QED
    BY <2>1 DEF NetInv
<1>1. CASE Allocate
  <2>1. PICK size \in Sizes : New("net", Allocated(size, events + 1))
    BY <1>1 DEF Allocate
  <2>2. size \in Seq(Nat)
    BY NetworkAssumption
  <2>3. WellFormed(Allocated(size, events + 1))
    BY <2>2, AllocatedWellFormed
  <2>4. ptr["net"] = 0 /\ UNCHANGED Rest /\ events' \in Nat
    BY <1>0, <1>1 DEF Allocate, Happens
  <2> QED
    BY <1>0, <2>1, <2>3, <2>4, GivesWellFormed
<1>2. CASE Load
  <2>1. ptr["net"] = 0 /\ New("net", Scanned(file)) /\ UNCHANGED Rest /\ events' \in Nat
        /\ Scanned(file) # NoNet
    BY <1>0, <1>2 DEF Load
  <2>2. WellFormed(Scanned(file))
    BY <2>1, FileIsRead
  <2> QED
    BY <1>0, <2>1, <2>2, GivesWellFormed
<1>3. CASE Train
  <2> DEFINE Changed(what) == [c \in DOMAIN what |-> Weight(events + 1, c)]
             b == ptr["net"]
             net == heap[b]
             trained == [net EXCEPT !.weight = Changed(@), !.delta = Changed(@)]
  <2>1. /\ b # 0 /\ UNCHANGED Rest /\ events' \in Nat /\ ptr' = ptr
        /\ heap' = [heap EXCEPT ![b].weight = Changed(@), ![b].delta = Changed(@)]
    BY <1>0, <1>3 DEF Train, Happens
  <2>2. WellFormed(net) /\ b \in DOMAIN heap /\ (ptr["best"] # 0 => ptr["best"] # b)
    BY <1>0, <2>1 DEF Memory, BlocksOwned, Handles
  <2>3. heap' = [heap EXCEPT ![b] = trained]
    <3> HIDE DEF Changed, b
    <3> QED
      BY <2>1, <2>2 DEF WellFormed
  <2>4. WellFormed(trained)
    <3>1. PICK z : z = net
      OBVIOUS
    <3>2. /\ z = [size |-> z.size, weight |-> z.weight, delta |-> z.delta]
          /\ z.size \in Seq(Nat)
          /\ DOMAIN z.weight = Connections(z.size) /\ DOMAIN z.delta = Connections(z.size)
      BY <2>2, <3>1 DEF WellFormed
    <3>3. PICK u : u = trained
      OBVIOUS
    <3>4. u = [size |-> z.size, weight |-> Changed(z.weight), delta |-> Changed(z.delta)]
      <4> HIDE DEF Changed
      <4> QED
        BY <3>1, <3>2, <3>3
    <3>5. WellFormed(u)
      BY <3>2, <3>4 DEF WellFormed
    <3> QED
      BY <3>3, <3>5
  <2>5. heap'[b] = trained /\ \A a \in DOMAIN heap : a # b => heap'[a] = heap[a]
    <3> HIDE DEF trained
    <3> QED
      BY <1>0, <2>2, <2>3 DEF Memory
  <2>6. ASSUME NEW h \in Handles, ptr'[h] # 0 PROVE WellFormed(Of(h)')
    <3>1. Of(h)' = heap'[ptr[h]] /\ ptr[h] # 0 /\ ptr[h] \in DOMAIN heap
      BY <1>0, <2>1, <2>6 DEF Of, Memory, BlocksOwned
    <3>2. CASE ptr[h] = b
      BY <2>4, <2>5, <3>1, <3>2
    <3>3. CASE ptr[h] # b
      BY <1>0, <2>5, <3>1, <3>3
    <3> QED
      BY <3>2, <3>3
  <2> QED
    BY <1>0, <1>d, <2>1, <2>6 DEF NetInv, Rest
<1>4. CASE Copy
  <2>1. ptr["net"] # 0 /\ ptr["best"] = 0 /\ lost = 0 /\ New("best", Of("net"))
        /\ UNCHANGED Rest /\ events' \in Nat
    BY <1>0, <1>4 DEF Copy
  <2> QED
    BY <1>0, <2>1, GivesWellFormed
<1>5. CASE Free
  <2>1. /\ UNCHANGED Rest /\ events' = events /\ ptr["best"] # 0
        /\ heap' = [b \in DOMAIN heap \ {ptr["best"]} |-> heap[b]]
        /\ ptr' = [ptr EXCEPT !["best"] = 0]
    BY <1>5 DEF Free
  <2>2. ASSUME NEW h \in Handles, ptr'[h] # 0 PROVE WellFormed(Of(h)')
    <3>1. h = "net" /\ ptr'[h] = ptr[h]
      BY <1>0, <2>1, <2>2 DEF Handles
    <3>2. ptr[h] \in DOMAIN heap \ {ptr["best"]}
      BY <1>0, <2>2, <3>1 DEF Memory, BlocksOwned
    <3>3. Of(h)' = heap[ptr[h]]
      BY <2>1, <2>2, <3>1, <3>2 DEF Of
    <3> QED
      BY <1>0, <2>2, <3>1, <3>3
  <2> QED
    BY <1>0, <1>d, <2>1, <2>2 DEF NetInv, Rest
<1>11. CASE StopAtSmallError
  <2>1. /\ heap' = heap /\ ptr' = [ptr EXCEPT !["best"] = 0]
        /\ file' = file /\ saved' = saved /\ events' = events
    BY <1>11 DEF StopAtSmallError
  <2>2. ASSUME NEW h \in Handles, ptr'[h] # 0 PROVE WellFormed(Of(h)')
    <3>1. ptr'[h] = ptr[h]
      BY <1>0, <2>1, <2>2 DEF Handles
    <3>2. Of(h)' = Of(h)
      BY <2>1, <3>1 DEF Of
    <3> QED
      BY <1>0, <2>2, <3>1, <3>2
  <2> QED
    BY <1>0, <1>d, <2>1, <2>2 DEF NetInv
<1>6. ASSUME NEW dest \in Handles, NEW src \in Handles, Overwrite(dest, src)
      PROVE  NetInv'
  <2>1. ptr[dest] # 0 /\ ptr[src] # 0 /\ Switch(dest, Of(src)) /\ UNCHANGED Rest
        /\ events' \in Nat
    BY <1>0, <1>6 DEF Overwrite
  <2> QED
    BY <1>0, <2>1, GivesWellFormed
<1>7. CASE AddNeurons
  <2>1. PICK at \in AddPlaces(Of("net").size) :
          Switch("net", Added(Of("net"), at[1], at[2], at[3], events + 1))
    BY <1>7 DEF AddNeurons
  <2>2. ptr["net"] # 0 /\ UNCHANGED Rest /\ events' \in Nat
    BY <1>0, <1>7 DEF AddNeurons, Happens
  <2>3. WellFormed(Of("net")) /\ Place(Of("net").size, at[1], at[2], at[3])
    BY <1>0, <2>1, <2>2, AddPlacesArePlaces
  <2>4. WellFormed(Added(Of("net"), at[1], at[2], at[3], events + 1))
    BY <2>3, AddedWellFormed
  <2> QED
    BY <1>0, <2>1, <2>2, <2>4, GivesWellFormed
<1>8. CASE RemoveNeurons
  <2>1. PICK at \in RemovePlaces(Of("net").size) :
          Switch("net", Removed(Of("net"), at[1], at[2], at[3]))
    BY <1>8 DEF RemoveNeurons
  <2>2. ptr["net"] # 0 /\ UNCHANGED Rest /\ events' \in Nat
    BY <1>0, <1>8 DEF RemoveNeurons
  <2>3. WellFormed(Of("net"))
    BY <1>0, <2>2
  <2>4. at[1] \in DOMAIN Of("net").size /\ at[3] \in Nat /\ at[3] <= Of("net").size[at[1]]
    <3>1. at[3] \in Nat /\ at[3] < Of("net").size[at[1]] /\ at[1] \in DOMAIN Of("net").size
      BY <2>1, NetworkAssumption DEF RemovePlaces
    <3>2. Of("net").size[at[1]] \in Nat
      BY <2>3, <3>1 DEF WellFormed
    <3> QED
      BY <3>1, <3>2
  <2>5. WellFormed(Removed(Of("net"), at[1], at[2], at[3]))
    BY <2>3, <2>4, RemovedWellFormed
  <2> QED
    BY <1>0, <2>1, <2>2, <2>5, GivesWellFormed
<1>9. CASE Save \/ Exit
  <2>1. \A h \in Handles : ptr'[h] = 0
    BY <1>9 DEF Save, Exit, Gone
  <2>2. events' = events
    BY <1>9 DEF Save, Exit
  <2>3. (file = NoFile \/ (WellFormed(saved) /\ file \in Cuts(Text(saved))))'
    <3>1. CASE Exit
      BY <1>d, <3>1 DEF Exit
    <3>2. CASE Save
      <4>1. WellFormed(Of("net")) /\ saved' = Of("net") /\ file' \in Cuts(Text(Of("net")))
        BY <1>0, <3>2 DEF Save
      <4> QED
        BY <4>1
    <3> QED
      BY <1>9, <3>1, <3>2
  <2> QED
    BY <1>0, <2>1, <2>2, <2>3 DEF NetInv
<1>10. CASE UNCHANGED vars
  <2>1. UNCHANGED <<heap, ptr, events>> /\ UNCHANGED Rest
    BY <1>10 DEF vars, Rest
  <2>2. \A h \in Handles : Of(h)' = Of(h) /\ ptr'[h] = ptr[h]
    BY <2>1 DEF Of
  <2> QED
    BY <1>0, <1>d, <2>1, <2>2 DEF NetInv, Rest
<1> QED
  BY <1>1, <1>2, <1>3, <1>4, <1>5, <1>6, <1>7, <1>8, <1>9, <1>10, <1>11
  DEF Next

LEMMA NetInvariant == Spec => []NetInv
<1>1. Init => NetInv
  <2> SUFFICES ASSUME Init PROVE NetInv
    OBVIOUS
  <2>1. \A h \in Handles : ptr[h] = 0
    BY DEF Init
  <2> QED
    BY <2>1, InitMemory DEF Init, NetInv
<1>2. NetInv /\ [Next]_vars => NetInv'
  BY NetStep
<1> QED
  BY <1>1, <1>2, PTL DEF Spec

(* A file that net_save did not finish is refused, or was only short of    *)
(* the digits of its last weight; a network that is read is the one that   *)
(* was saved, each weight at its own connection, whatever its size         *)
(* (network.c:488-602).                                                    *)
THEOREM CutFilesRefused == Spec => []ReadAsSaved
<1>1. NetInv => ReadAsSaved
  <2> SUFFICES ASSUME NetInv, Scanned(file) # NoNet PROVE ReadAsSaved
    BY DEF ReadAsSaved
  <2>1. PICK net : net = Scanned(file)
    OBVIOUS
  <2>2. /\ net.size = saved.size
        /\ \A c \in Connections(net.size) :
             \/ net.weight[c] = Printed(saved.weight[c])
             \/ c = LoopOrder(net.size)[Cardinality(Connections(net.size))] /\ file.torn
    BY <2>1, FileIsRead
  <2> QED
    BY <2>1, <2>2 DEF ReadAsSaved
<1> QED
  BY <1>1, NetInvariant, PTL

(* The two networks a program can have in memory have weights and deltas   *)
(* at their connections and nowhere else, and neurons can be added to them *)
(* at every place without a delta getting lost, doubled or moved to the    *)
(* neighbour (network.c:1222-1284, 1287-1334).                             *)
THEOREM NeuronsAreKept == Spec => []NeuronsKept
<1>1. NetInv => NeuronsKept
  <2> SUFFICES ASSUME NetInv, NEW h \in Handles, NEW net, net = Of(h)
               PROVE  /\ DOMAIN net.weight = Connections(net.size)
                      /\ DOMAIN net.delta = Connections(net.size)
                      /\ \A at \in AddPlaces(net.size) :
                           LET added == Added(net, at[1], at[2], at[3], events + 1)
                           IN /\ Removed(added, at[1], at[2], at[3])
                                   = Randomized(net, events + 2)
                              /\ at[1] < Len(net.size) =>
                                   \A nu \in 0..net.size[at[1] + 1] - 1 :
                                     added.delta[<<at[1] + 1, nu, added.size[at[1]]>>]
                                       = net.delta[<<at[1] + 1, nu, net.size[at[1]]>>]
                              /\ Cardinality({c \in DOMAIN added.delta : added.delta[c] # Zero})
                                   = Cardinality({c \in DOMAIN net.delta : net.delta[c] # Zero})
    BY DEF NeuronsKept
  <2>0. CASE ptr[h] = 0
    <3>1. net = NoNet
      BY <2>0 DEF Of
    <3>2. net.size = << >> /\ net.weight = << >> /\ net.delta = << >>
      BY <3>1 DEF NoNet
    <3>3. Len(net.size) = 0 /\ DOMAIN net.size = {}
      BY <3>2, EmptyLaws
    <3>4. Connections(net.size) = {}
      BY <3>3 DEF Connections
    <3>5. AddPlaces(net.size) = {}
      BY <3>3 DEF AddPlaces
    <3> QED
      BY <3>2, <3>4, <3>5
  <2>1. ASSUME ptr[h] # 0, NEW at \in AddPlaces(net.size)
        PROVE  LET added == Added(net, at[1], at[2], at[3], events + 1)
               IN /\ Removed(added, at[1], at[2], at[3]) = Randomized(net, events + 2)
                  /\ at[1] < Len(net.size) =>
                       \A nu \in 0..net.size[at[1] + 1] - 1 :
                         added.delta[<<at[1] + 1, nu, added.size[at[1]]>>]
                           = net.delta[<<at[1] + 1, nu, net.size[at[1]]>>]
                  /\ Cardinality({c \in DOMAIN added.delta : added.delta[c] # Zero})
                       = Cardinality({c \in DOMAIN net.delta : net.delta[c] # Zero})
    <3>2. WellFormed(net)
      BY <2>1 DEF NetInv
    <3>3. Place(net.size, at[1], at[2], at[3])
      BY <2>1, <3>2, AddPlacesArePlaces
    <3>4. PICK layer, neuron, number : layer = at[1] /\ neuron = at[2] /\ number = at[3]
      OBVIOUS
    <3>5. PICK added : added = Added(net, layer, neuron, number, events + 1)
      OBVIOUS
    <3>6. /\ Removed(added, layer, neuron, number) = Randomized(net, events + 1 + 1)
          /\ \A nu \in 0..net.size[layer + 1] - 1 : layer < Len(net.size) =>
               added.delta[<<layer + 1, nu, added.size[layer]>>]
                 = net.delta[<<layer + 1, nu, net.size[layer]>>]
      BY <3>2, <3>3, <3>4, <3>5, GrowthMovesConnections
    <3>7. Cardinality({c \in DOMAIN added.delta : added.delta[c] # Zero})
            = Cardinality({c \in DOMAIN net.delta : net.delta[c] # Zero})
      BY <3>2, <3>3, <3>4, <3>5, DeltasCounted
    <3>8. events + 1 + 1 = events + 2
      BY DEF NetInv
    <3> QED
      BY <3>4, <3>5, <3>6, <3>7, <3>8
  <2>2. CASE ptr[h] # 0
    <3>1. WellFormed(net)
      BY <2>2 DEF NetInv
    <3>2. DOMAIN net.weight = Connections(net.size) /\ DOMAIN net.delta = Connections(net.size)
      BY <3>1 DEF WellFormed
    <3> QED
      BY <2>1, <2>2, <3>2
  <2> QED
    BY <2>0, <2>2
<1> QED
  BY <1>1, NetInvariant, PTL
=============================================================================
