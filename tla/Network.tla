------------------------------- MODULE Network -------------------------------
(***************************************************************************)
(* The network library of ocrlib: the memory of networks, copying, adding  *)
(* and removing neurons, and the text file of a network.                   *)
(*                                                                         *)
(* Nothing here computes with a weight, it is only moved from place to     *)
(* place; so a weight is known by where it came from: the event that gave  *)
(* it its value (a random number or a round of training) and the           *)
(* connection that had it then.                                            *)
(***************************************************************************)
EXTENDS Integers, Sequences, FiniteSets

CONSTANTS
  Sizes,      \* numbers of neurons of the networks that are created, by layer
  MaxSize,    \* bound: neurons of a layer
  MaxEvents   \* bound: how often weights get new values

ASSUME NetworkAssumption ==
  /\ Sizes \subseteq Seq(Nat \ {0}) /\ \A s \in Sizes : Len(s) >= 2
  /\ MaxSize \in Nat /\ MaxEvents \in Nat

(* layer[0] of the code is layer 1 here.  <<l, nu, nl>> is the connection  *)
(* to neuron nu of layer l from neuron nl of the layer below, whose last   *)
(* "neuron" is the bias.                                                   *)
Connections(size) ==
  UNION {{l} \X (0..size[l] - 1) \X (0..size[l - 1]) : l \in 2..Len(size)}

(* The order of the three nested loops of net_fprint and net_fscan.        *)
Earlier(c, d) ==
  \/ c[1] < d[1]
  \/ c[1] = d[1] /\ c[2] < d[2]
  \/ c[1] = d[1] /\ c[2] = d[2] /\ c[3] < d[3]
LoopOrder(size) ==
  LET all     == Connections(size)
      Turn(c) == Cardinality({d \in all : Earlier(d, c)}) + 1
  IN [i \in 1..Cardinality(all) |-> CHOOSE c \in all : Turn(c) = i]

Weight(n, c) == [from |-> n, at |-> c, digits |-> "all"]
Zero == Weight(0, << >>)

NoNet  == [size |-> << >>, weight |-> << >>, delta |-> << >>]
NoFile == [numbers |-> << >>, torn |-> FALSE]

VARIABLES
  heap,    \* the networks in memory, by block
  ptr,     \* the blocks of the caller's net and of best_net, or 0
  lost,    \* history: the block of a best_net that nobody freed, or 0
  file,    \* the network file
  saved,   \* history: the network the file was written from
  events   \* how often weights were given new values

vars == <<heap, ptr, lost, file, saved, events>>
Handles == {"net", "best"}

-----------------------------------------------------------------------------
(* Wrong versions, used by no specification.                               *)

(* The bias of the layer below is not moved behind the new neurons.        *)
ShiftNeuronsOnly(c, layer, neuron, number) ==
  <<c[1],
    IF c[1] = layer /\ c[2] >= neuron THEN c[2] + number ELSE c[2],
    IF c[1] = layer + 1 /\ c[3] > neuron THEN c[3] + number ELSE c[3]>>

(* Like net_fbscan, which does not test whether a weight was read: one     *)
(* that was not keeps the random value of the allocation.                  *)
ScannedUntested(f) ==
  LET given == Len(f.numbers)
      size  == SubSeq(f.numbers, 2, f.numbers[1] + 1)
      order == LoopOrder(size)
      first == Len(size) + 4
      place == [c \in Connections(size) |-> CHOOSE i \in DOMAIN order : order[i] = c]
  IN IF given = 0 \/ given < f.numbers[1] + 4 THEN NoNet
     ELSE [size   |-> size,
           weight |-> [c \in Connections(size) |->
                        IF first + place[c] <= given THEN f.numbers[first + place[c]]
                        ELSE Weight(0, c)],
           delta  |-> [c \in Connections(size) |-> Zero]]

-----------------------------------------------------------------------------
(* net_allocate_l, without its memory: random weights, deltas 0.           *)
Allocated(size, n) ==
  [size   |-> size,
   weight |-> [c \in Connections(size) |-> Weight(n, c)],
   delta  |-> [c \in Connections(size) |-> Zero]]

(* net_randomize                                                           *)
Randomized(net, n) ==
  [net EXCEPT !.weight = [c \in Connections(net.size) |-> Weight(n, c)]]

(* Where a connection of the smaller network is in the one that has number *)
(* more neurons in layer, from the place neuron on.                        *)
Shift(c, layer, neuron, number) ==
  <<c[1],
    IF c[1] = layer /\ c[2] >= neuron THEN c[2] + number ELSE c[2],
    IF c[1] = layer + 1 /\ c[3] >= neuron THEN c[3] + number ELSE c[3]>>

(* net_add_neurons.  The new network has the random weights n of its       *)
(* allocation; those meant for it, n + 1, go to the old network before its *)
(* weights are copied.                                                     *)
Added(net, layer, neuron, number, n) ==
  LET new == Allocated([net.size EXCEPT ![layer] = @ + number], n)
      old == Randomized(net, n + 1)
      From(c) == {b \in Connections(net.size) : Shift(b, layer, neuron, number) = c}
      Fill(to, what) == [c \in DOMAIN to |->
                          IF From(c) = {} THEN to[c] ELSE what[CHOOSE b \in From(c) : TRUE]]
  IN [new EXCEPT !.weight = Fill(@, old.weight), !.delta = Fill(@, old.delta)]

(* net_remove_neurons                                                      *)
Removed(net, layer, neuron, number) ==
  LET size == [net.size EXCEPT ![layer] = @ - number]
      Kept(what) == [c \in Connections(size) |-> what[Shift(c, layer, neuron, number)]]
  IN [size |-> size, weight |-> Kept(net.weight), delta |-> Kept(net.delta)]

(* net_fprint: dimensions, three constants, weights, these with six digits *)
(* after the point.                                                        *)
Printed(w) == [w EXCEPT !.digits = IF @ = "all" THEN "six" ELSE @]
Text(net) ==
  LET order == LoopOrder(net.size) IN
  <<Len(net.size)>> \o net.size \o <<"momentum", "learning_rate", "global_error">>
    \o [i \in DOMAIN order |-> Printed(net.weight[order[i]])]

(* What is on the disk when the writing stops: some of the numbers, and    *)
(* perhaps not every digit of the last one.                                *)
Cuts(text) == [numbers : {SubSeq(text, 1, i) : i \in 0..Len(text)}, torn : BOOLEAN]

(* net_fscan: NoNet for its NULL.  A last number that lacks digits is one. *)
Scanned(f) ==
  LET given == Len(f.numbers)
      size  == SubSeq(f.numbers, 2, f.numbers[1] + 1)
      order == LoopOrder(size)
      place == [c \in Connections(size) |-> CHOOSE i \in DOMAIN order : order[i] = c]
      first == Len(size) + 4
      Read(i) == IF f.torn /\ first + i = given
                 THEN [f.numbers[first + i] EXCEPT !.digits = "some"]
                 ELSE f.numbers[first + i]
  IN IF given = 0 \/ given < f.numbers[1] + 4 \/ given < first + Len(order) THEN NoNet
     ELSE [size   |-> size,
           weight |-> [c \in Connections(size) |-> Read(place[c])],
           delta  |-> [c \in Connections(size) |-> Zero]]

-----------------------------------------------------------------------------
(* Memory.  A block that malloc hands out is one that is not in use.       *)
Of(h) == IF ptr[h] = 0 THEN NoNet ELSE heap[ptr[h]]
Unused == CHOOSE b \in 1..3 : b \notin DOMAIN heap

(* h gets a network of its own.                                            *)
New(h, net) ==
  /\ heap' = [b \in DOMAIN heap \cup {Unused} |-> IF b = Unused THEN net ELSE heap[b]]
  /\ ptr' = [ptr EXCEPT ![h] = Unused]

(* Wrong versions of Switch: the old contents are not freed; the structure *)
(* of the other network is copied, and with it the pointer to its layers.  *)
SwitchLeaking(h, net) == New(h, net)

SwitchShared(h, net) ==
  \E g \in Handles \ {h} :
    IF ptr[g] # 0 /\ Of(g) = net
    THEN /\ heap' = [b \in DOMAIN heap \ {ptr[h]} |-> heap[b]]
         /\ ptr' = [ptr EXCEPT ![h] = ptr[g]]
    ELSE heap' = [heap EXCEPT ![ptr[h]] = net] /\ UNCHANGED ptr

(* The contents of h and of a new network are swapped, the old are freed.  *)
Switch(h, net) ==
  /\ heap' = [b \in (DOMAIN heap \ {ptr[h]}) \cup {Unused} |->
                IF b = Unused THEN net ELSE heap[b]]
  /\ ptr' = [ptr EXCEPT ![h] = Unused]

Init ==
  /\ heap = << >> /\ ptr = [h \in Handles |-> 0] /\ lost = 0
  /\ file = NoFile /\ saved = NoNet /\ events = 0

Happens(n) == events + n <= MaxEvents /\ events' = events + n
Rest == <<file, saved, lost>>

Allocate ==
  /\ ptr["net"] = 0 /\ Happens(1)
  /\ \E size \in Sizes : New("net", Allocated(size, events + 1))
  /\ UNCHANGED Rest

(* net_load; the program ends if it returns NULL.                          *)
Load ==
  /\ ptr["net"] = 0 /\ Scanned(file) # NoNet
  /\ New("net", Scanned(file))
  /\ UNCHANGED <<Rest, events>>

(* net_train for a pair, or a batch from net_begin_batch to net_end_batch: *)
(* every weight and every delta changes, in place.                         *)
Train ==
  /\ ptr["net"] # 0 /\ Happens(1)
  /\ LET Changed(what) == [c \in DOMAIN what |-> Weight(events + 1, c)]
     IN heap' = [heap EXCEPT ![ptr["net"]].weight = Changed(@), ![ptr["net"]].delta = Changed(@)]
  /\ UNCHANGED <<ptr, Rest>>

(* net_copy, at the beginning of a training.  A program that has stopped   *)
(* training at a small error does not begin again.                         *)
Copy ==
  /\ ptr["net"] # 0 /\ ptr["best"] = 0 /\ lost = 0
  /\ New("best", Of("net"))
  /\ UNCHANGED <<Rest, events>>

(* net_overwrite: the best network is remembered, or put back.             *)
Overwrite(dest, src) ==
  /\ dest # src /\ ptr[dest] # 0 /\ ptr[src] # 0
  /\ Switch(dest, Of(src))
  /\ UNCHANGED <<Rest, events>>

(* net_free of best_net, when the training stops for any other reason than *)
(* a small error.                                                          *)
Free ==
  /\ ptr["best"] # 0
  /\ heap' = [b \in DOMAIN heap \ {ptr["best"]} |-> heap[b]]
  /\ ptr' = [ptr EXCEPT !["best"] = 0]
  /\ UNCHANGED <<Rest, events>>

(* The error is small enough: minimize_with_train_* returns without a      *)
(* net_free, and best_net was a local variable.                            *)
StopAtSmallError ==
  /\ ptr["best"] # 0
  /\ ptr' = [ptr EXCEPT !["best"] = 0] /\ lost' = ptr["best"]
  /\ UNCHANGED <<heap, file, saved, events>>

(* The places in a network where number neurons can be added or removed:   *)
(* a call with neuron = -1, which would mean the end of the layer, does    *)
(* not get past the assertion.                                             *)
AddPlaces(size) ==
  {at \in (DOMAIN size) \X (0..MaxSize) \X (0..MaxSize) : at[2] <= size[at[1]]}
RemovePlaces(size) ==
  {at \in (DOMAIN size) \X (0..MaxSize) \X (0..MaxSize) :
     at[2] + at[3] <= size[at[1]] /\ at[3] < size[at[1]]}

AddNeurons ==
  /\ ptr["net"] # 0 /\ Happens(2)
  /\ \E at \in AddPlaces(Of("net").size) :
       /\ Of("net").size[at[1]] + at[3] <= MaxSize
       /\ Switch("net", Added(Of("net"), at[1], at[2], at[3], events + 1))
  /\ UNCHANGED Rest

RemoveNeurons ==
  /\ ptr["net"] # 0
  /\ \E at \in RemovePlaces(Of("net").size) :
       Switch("net", Removed(Of("net"), at[1], at[2], at[3]))
  /\ UNCHANGED <<Rest, events>>

(* The end of a program, without saving and with it: the disk may be full, *)
(* which nobody notices, or the program be killed before all is written.   *)
Gone == heap' = << >> /\ ptr' = [h \in Handles |-> 0] /\ lost' = 0

Exit == ptr["net"] # 0 /\ Gone /\ UNCHANGED <<file, saved, events>>

Save ==
  /\ ptr["net"] # 0 /\ Gone
  /\ file' \in Cuts(Text(Of("net"))) /\ saved' = Of("net")
  /\ UNCHANGED events

Next ==
  \/ Allocate \/ Load \/ Train \/ Copy \/ Free \/ StopAtSmallError
  \/ \E dest, src \in Handles : Overwrite(dest, src)
  \/ AddNeurons \/ RemoveNeurons \/ Save \/ Exit

Spec == Init /\ [][Next]_vars

-----------------------------------------------------------------------------
(* Properties.                                                             *)

(* Every block in use belongs to one network and to one only, in spite of  *)
(* the contents that are swapped between structures: nothing is shared or  *)
(* used after it was freed, and nothing is leaked but the best network of  *)
(* a training that stopped at a small error (train.c:125-129), once in the *)
(* life of a program.                                                      *)
BlocksOwned ==
  /\ DOMAIN heap = ({ptr[h] : h \in Handles} \cup {lost}) \ {0}
  /\ ptr["net"] # 0 => ptr["net"] \notin {ptr["best"], lost}
  /\ ptr["best"] # 0 => ptr["best"] # lost

(* best_net stays what it is while net is trained, grown or shrunk: all    *)
(* that ever happens to it is that it becomes what net is, or is let go.   *)
BestKept ==
  [][Of("best")' # Of("best") => Of("best")' \in {Of("net"), NoNet}]_vars

(* A file, cut anywhere, is either refused or read as the network that was *)
(* saved, each weight at its own connection.  Only the last weight may     *)
(* lack digits, which fscanf cannot notice.                                *)
ReadAsSaved ==
  LET net  == Scanned(file)
      last == LoopOrder(net.size)[Cardinality(Connections(net.size))]
  IN net # NoNet =>
       /\ net.size = saved.size
       /\ \A c \in Connections(net.size) :
            \/ net.weight[c] = Printed(saved.weight[c])
            \/ c = last /\ file.torn

(* Each of the two networks has a weight and a delta at every one of its   *)
(* connections and nowhere else.  Wherever neurons are added, every other  *)
(* connection keeps its delta with its two neurons, bias included, new     *)
(* ones begin with none, and taking the neurons away again gives what was  *)
(* copied.  The weights are another matter: what is copied is random, see  *)
(* net_randomize in Added.                                                 *)
NeuronsKept ==
  \A h \in Handles :
    LET net == Of(h) IN
    /\ DOMAIN net.weight = Connections(net.size)
    /\ DOMAIN net.delta = Connections(net.size)
    /\ \A at \in AddPlaces(net.size) :
         LET added == Added(net, at[1], at[2], at[3], events + 1)
         IN /\ Removed(added, at[1], at[2], at[3]) = Randomized(net, events + 2)
            /\ at[1] < Len(net.size) =>
                 \A nu \in 0..net.size[at[1] + 1] - 1 :
                   added.delta[<<at[1] + 1, nu, added.size[at[1]]>>]
                     = net.delta[<<at[1] + 1, nu, net.size[at[1]]>>]
            /\ Cardinality({c \in DOMAIN added.delta : added.delta[c] # Zero})
                 = Cardinality({c \in DOMAIN net.delta : net.delta[c] # Zero})

-----------------------------------------------------------------------------
(* What the library says of itself.                                        *)

(* "the new neuron will be connected with small, random weights" and "copy *)
(* the original network's weights and deltas into the new one"             *)
(* (network.c:1248, 1251): a network that grows keeps what it has learnt.  *)
GrowthKeepsWeights ==
  [][AddNeurons => \E at \in AddPlaces(Of("net").size) :
       LET old == Of("net")
           new == Of("net")'
       IN /\ new.size = [old.size EXCEPT ![at[1]] = @ + at[3]]
          /\ \A c \in Connections(old.size) :
               new.weight[Shift(c, at[1], at[2], at[3])] = old.weight[c]]_vars
=============================================================================
