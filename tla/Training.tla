------------------------------ MODULE Training ------------------------------
(***************************************************************************)
(* ocr_train: a network is trained in rounds, judged by its average error  *)
(* on a validation set after each of them, and the best one is saved.      *)
(*                                                                         *)
(* A network is its version: version 1 is the one loaded or created, each  *)
(* round of training makes a new one, and seen[v] is the average error of  *)
(* version v, which is anything in Errors.  Without a validation set it is *)
(* 0/0: NaN, for which every comparison is false.                          *)
(***************************************************************************)
EXTENDS Integers, Sequences

CONSTANTS
  Batches,       \* values of the switch -b; negative ones are undocumented
  MaxSet,        \* MAX_SET_SIZE: pairs that a set has room for
  Errors, NaN,   \* average errors
  MaxError,      \* switch -e
  MaxTrainings,  \* what max_trainings is initialised to; parse_options has
                 \* no case for the switch -t
  Huge           \* where best_error starts

ASSUME TrainingAssumption ==
  /\ Batches \subseteq Int /\ MaxSet \in Nat \ {0}
  /\ Errors \subseteq Nat /\ Huge \in Nat /\ \A e \in Errors : e < Huge
  /\ NaN \notin Int
  /\ MaxError \in Nat /\ MaxTrainings \in Nat

NoFile == 0     \* no file, or one that is not written to its end

(* What get_average_error may return.                                     *)
Outcomes == Errors \cup {NaN}

(* The operator < of C.                                                    *)
Below(d, e) == d # NaN /\ e # NaN /\ d < e

VARIABLES
  batch,       \* switch -b
  bump,        \* switch -f
  noTraining, noValidation,
  pc,          \* "training_file", "validation_file", "judge", "train",
               \* "stop" (minimize_... has returned), "saving", "done",
               \* "unsaved" or "killed"
  net,         \* version in the caller's network
  bestNet,     \* version in best_net
  bestError,   \* best_error
  trained,     \* n_trainings
  seen,        \* error of every version so far
  file         \* version in the file named on the command line

opts == <<batch, bump>>
sets == <<noTraining, noValidation>>
best == <<bestNet, bestError>>
vars == <<opts, sets, pc, net, best, trained, seen, file>>
Reading == pc \in {"training_file", "validation_file"}

TypeOK ==
  /\ batch \in Batches /\ bump \in BOOLEAN
  /\ noTraining \in 0..MaxSet /\ noValidation \in 0..MaxSet
  /\ pc \in {"training_file", "validation_file", "judge", "train", "stop", "saving",
             "done", "unsaved", "killed"}
  /\ net \in 1..Len(seen) + 1 /\ bestNet \in 1..Len(seen) + 1
  /\ bestError \in Errors \cup {Huge} /\ trained \in Nat
  /\ seen \in Seq(Outcomes) /\ file \in Nat

-----------------------------------------------------------------------------
(* Wrong versions of steps, used by no specification.                      *)

(* There is no copy of the network to begin with.                          *)
InitNoCopy ==
  /\ batch \in Batches /\ bump \in BOOLEAN
  /\ noTraining = 0 /\ noValidation = 0
  /\ pc = "training_file" /\ net = 1 /\ bestNet = 0 /\ bestError = Huge
  /\ trained = 0 /\ seen = << >> /\ file = 1

(* The network is not put back when its error has increased.               *)
BumpKeepsNet(e) ==
  /\ ~Below(e, MaxError) /\ bump /\ Below(bestError, e)
  /\ pc' = "stop"
  /\ UNCHANGED <<net, best>>

(* The best network is copied and its error is not.                        *)
RememberNetOnly(e) ==
  /\ IF Below(e, bestError) THEN bestNet' = net ELSE UNCHANGED bestNet
  /\ UNCHANGED bestError

(* What is not worse is remembered.                                        *)
RememberUnlessWorse(e) ==
  IF ~Below(bestError, e) THEN bestError' = e /\ bestNet' = net ELSE UNCHANGED best

(* The pairs of a loop are not counted.                                    *)
TrainedUncounted(pairs) ==
  /\ pc = "train" /\ pc' = "judge"
  /\ net' = net + 1
  /\ UNCHANGED <<opts, sets, trained, best, seen, file>>

-----------------------------------------------------------------------------
(* With -c the file may not be there yet.                                  *)
Init ==
  /\ batch \in Batches /\ bump \in BOOLEAN
  /\ noTraining = 0 /\ noValidation = 0
  /\ pc = "training_file" /\ net = 1 /\ bestNet = 1 /\ bestError = Huge
  /\ trained = 0 /\ seen = << >> /\ file \in {1, NoFile}

(* The two sets.  read_training_file never returns 0, but the name of the  *)
(* validation set may be empty.                                            *)
ReadTraining ==
  /\ pc = "training_file" /\ pc' = "validation_file"
  /\ noTraining' \in 1..MaxSet
  /\ UNCHANGED <<opts, noValidation, net, best, trained, seen, file>>

ReadValidation ==
  /\ pc = "validation_file" /\ pc' = "judge"
  /\ noValidation' \in 0..MaxSet
  /\ UNCHANGED <<opts, noTraining, net, best, trained, seen, file>>

(* One round: the three ways to train.  Each goes through the training set *)
(* as often as it is told and counts every pair.                           *)
Trained(pairs) ==
  /\ pc = "train" /\ pc' = "judge"
  /\ net' = net + 1
  /\ trained' = trained + pairs
  /\ UNCHANGED <<opts, sets, best, seen, file>>

TrainBatch    == batch > 0 /\ Trained(batch * noTraining)
TrainRandomly == batch = 0 /\ Trained(noTraining)
TrainAll      == batch < 0 /\ Trained((-batch) * noTraining)

(* The four ways minimize_with_train_... goes on after an error e.         *)
SmallEnough(e) ==
  /\ Below(e, MaxError)
  /\ pc' = "stop" /\ UNCHANGED <<net, best>>

Bump(e) ==
  /\ ~Below(e, MaxError) /\ bump /\ Below(bestError, e)
  /\ net' = bestNet /\ pc' = "stop"
  /\ UNCHANGED best

Remember(e) ==
  IF Below(e, bestError) THEN bestError' = e /\ bestNet' = net ELSE UNCHANGED best

GoOn(e) ==
  /\ ~Below(e, MaxError) /\ ~(bump /\ Below(bestError, e))
  /\ Remember(e)
  /\ \/ trained >= MaxTrainings /\ net' = bestNet' /\ pc' = "stop"
     \/ trained < MaxTrainings /\ pc' = "train" /\ UNCHANGED net

Judge ==
  /\ pc = "judge"
  /\ \E e \in IF noValidation = 0 THEN {NaN} ELSE Errors :
       /\ seen' = Append(seen, e)
       /\ SmallEnough(e) \/ Bump(e) \/ GoOn(e)
  /\ UNCHANGED <<opts, sets, trained, file>>

(* net_save empties the file before it writes it.                          *)
OpenFile ==
  /\ pc = "stop" /\ pc' = "saving" /\ file' = NoFile
  /\ UNCHANGED <<opts, sets, net, best, trained, seen>>

WriteFile ==
  /\ pc = "saving" /\ pc' = "done" /\ file' = net
  /\ UNCHANGED <<opts, sets, net, best, trained, seen>>

(* Neither failure is noticed: main ignores what net_save returns.         *)
CannotSave ==
  /\ pc \in {"stop", "saving"} /\ pc' = "unsaved"
  /\ UNCHANGED <<opts, sets, net, best, trained, seen, file>>

Kill ==
  /\ pc \notin {"done", "unsaved", "killed"} /\ pc' = "killed"
  /\ UNCHANGED <<opts, sets, net, best, trained, seen, file>>

Train == TrainBatch \/ TrainRandomly \/ TrainAll
Next == ReadTraining \/ ReadValidation \/ Train \/ Judge \/ OpenFile \/ WriteFile \/ CannotSave \/ Kill

Spec == Init /\ [][Next]_vars

-----------------------------------------------------------------------------
(* Properties.                                                             *)

(* "In all cases, the best network encountered is written" (train.c): what *)
(* ends up in the file, and in net once training has stopped, has no       *)
(* greater error than any version before or after it.                      *)
BestWritten ==
  /\ pc \in {"stop", "saving", "done"} => \A v \in 1..Len(seen) : ~Below(seen[v], seen[net])
  /\ pc = "done" => file = net

(* With -f nothing is trained after the error has gone up.                 *)
StopsAtBump ==
  bump /\ pc \in {"judge", "train"} =>
    \A v, w \in 1..Len(seen) : v < w => ~Below(seen[v], seen[w])

(* Without a validation set nothing is ever found better than the network  *)
(* of the beginning: however long it is trained, that one is saved.        *)
UnjudgedUnlearnt ==
  noValidation = 0 /\ pc \in {"stop", "saving", "done"} => net = 1

(* Training ends, whatever becomes of the error: it goes no further than   *)
(* the round that reaches max_trainings, and every round counts.           *)
Bounded ==
  /\ pc = "train" => trained < MaxTrainings
  /\ Len(seen) <= MaxTrainings + 1

(* What the proofs need besides the types: best_error is the least error   *)
(* of the versions before this one, and best_net has it.                   *)
BestSoFar ==
  LET judged == 1..Len(seen) IN
  /\ Reading => judged = {} /\ net = 1
  /\ pc = "judge" => net = Len(seen) + 1
  /\ pc \in {"train", "stop", "saving", "done"} => net \in judged
  /\ pc = "train" => net = Len(seen)
  /\ Reading \/ pc \in {"judge", "train"} =>
       /\ judged = {} \/ noValidation = 0 => bestNet = 1 /\ bestError = Huge
       /\ judged # {} => bestNet \in judged
       /\ judged # {} /\ noValidation > 0 => bestError = seen[bestNet]
       /\ \A v \in judged :
            IF noValidation = 0 THEN seen[v] = NaN
            ELSE seen[v] \in Errors /\ bestError <= seen[v] /\ MaxError <= seen[v]
=============================================================================
