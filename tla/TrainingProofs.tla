--------------------------- MODULE TrainingProofs ---------------------------
(***************************************************************************)
(* Proofs about the training of the network: first about Training, for any *)
(* sets, errors and switches; then about OcrTrain, the program that reads  *)
(* its files, whatever is in them, and trains as Training says; last about *)
(* the files, for pictures of any size and files cut off anywhere.         *)
(***************************************************************************)
EXTENDS OcrTrain, DataLemmas, SequenceTheorems, TLAPS

(* There is something to train with: train_randomly divides by its number. *)
SomeTraining == pc \notin {"training_file", "killed"} => noTraining # 0

TrainInv == TypeOK /\ SomeTraining /\ BestSoFar /\ BestWritten /\ UnjudgedUnlearnt

(* What the operator < of C is on numbers and on NaN.                      *)
LEMMA BelowIs ==
  /\ \A d, e \in Int : Below(d, e) <=> d < e
  /\ \A d : ~Below(d, NaN) /\ ~Below(NaN, d)
  BY TrainingAssumption DEF Below

(* The error of one more version leaves those of the others alone.         *)
LEMMA OneMore ==
  ASSUME TypeOK, NEW e \in Outcomes, seen' = Append(seen, e)
  PROVE  /\ seen' \in Seq(Outcomes) /\ Len(seen') = Len(seen) + 1
         /\ Len(seen) \in Nat /\ 1..Len(seen') = (1..Len(seen)) \cup {Len(seen) + 1}
         /\ seen'[Len(seen) + 1] = e
         /\ \A v \in 1..Len(seen) : seen'[v] = seen[v]
  BY DEF TypeOK

LEMMA InitTrain == Init => TrainInv
  BY TrainingAssumption
  DEF Init, NoFile, Reading, TrainInv, TypeOK, SomeTraining, BestSoFar, BestWritten,
      UnjudgedUnlearnt

(* Judging with a validation set: the cases are small enough, gone up      *)
(* again, and neither, the last with and without more rounds to come.      *)
LEMMA JudgeStep ==
  ASSUME TrainInv, Judge, noValidation # 0
  PROVE  TrainInv'
<1> DEFINE judged == 1..Len(seen)
<1>1. PICK e \in Errors : /\ seen' = Append(seen, e)
                          /\ SmallEnough(e) \/ Bump(e) \/ GoOn(e)
  BY DEF Judge
<1>2. /\ TypeOK /\ pc = "judge" /\ trained' = trained /\ file' = file
      /\ batch' = batch /\ bump' = bump
      /\ noTraining' = noTraining /\ noValidation' = noValidation
      /\ noValidation \in Nat \ {0} /\ noTraining # 0
  BY TrainingAssumption DEF Judge, TrainInv, SomeTraining, TypeOK, opts, sets
<1>3. /\ seen' \in Seq(Outcomes) /\ Len(seen') = Len(seen) + 1
      /\ 1..Len(seen') = judged \cup {Len(seen) + 1}
      /\ seen'[Len(seen) + 1] = e
      /\ \A v \in judged : seen'[v] = seen[v]
  BY <1>1, <1>2, OneMore DEF Outcomes
<1>4. /\ net = Len(seen) + 1 /\ Len(seen) \in Nat
      /\ \A v \in judged : seen[v] \in Errors /\ bestError <= seen[v] /\ MaxError <= seen[v]
      /\ judged # {} => bestNet \in judged /\ bestError = seen[bestNet]
      /\ judged = {} => bestError = Huge /\ bestNet = 1
  BY <1>2 DEF TrainInv, BestSoFar, TypeOK
<1>5. /\ Errors \subseteq Nat /\ e \in Nat /\ e < Huge /\ Huge \in Nat
      /\ MaxError \in Nat /\ bestError \in Nat
      /\ \A v \in judged : seen[v] \in Nat
  <2>1. bestError \in Errors \cup {Huge}
    BY <1>2 DEF TypeOK
  <2> QED
    BY <1>4, <2>1, TrainingAssumption
<1>6. /\ Below(e, MaxError) <=> e < MaxError
      /\ Below(bestError, e) <=> bestError < e
      /\ Below(e, bestError) <=> e < bestError
  BY <1>5, BelowIs
<1>7. \A v, w \in 1..Len(seen') : seen'[v] <= seen'[w] => ~Below(seen'[w], seen'[v])
  <2>1. \A v \in 1..Len(seen') : seen'[v] \in Nat
    BY <1>3, <1>5
  <2> QED
    BY <2>1, BelowIs
<1>8. CASE SmallEnough(e)
  <2>1. /\ pc' = "stop" /\ net' = net /\ bestNet' = bestNet
        /\ bestError' = bestError /\ e < MaxError
    BY <1>6, <1>8 DEF SmallEnough, best
  <2>2. net' \in 1..Len(seen') /\ \A v \in 1..Len(seen') : seen'[net'] <= seen'[v]
    BY <2>1, <1>3, <1>4, <1>5
  <2>3. TypeOK'
    BY <1>2, <1>3, <2>1 DEF TypeOK
  <2>4. BestSoFar'
    BY <1>3, <1>4, <2>1 DEF BestSoFar, Reading
  <2>5. BestWritten' /\ UnjudgedUnlearnt'
    BY <1>2, <1>7, <2>1, <2>2 DEF BestWritten, UnjudgedUnlearnt
  <2> QED
    BY <1>2, <2>3, <2>4, <2>5 DEF TrainInv, SomeTraining
<1>9. CASE Bump(e)
  <2>1. /\ pc' = "stop" /\ net' = bestNet /\ bestNet' = bestNet
        /\ bestError' = bestError /\ e > bestError
    BY <1>5, <1>6, <1>9 DEF Bump, best
  <2>2. judged # {}
    BY <1>4, <1>5, <2>1
  <2>3. net' \in 1..Len(seen') /\ \A v \in 1..Len(seen') : seen'[net'] <= seen'[v]
    BY <1>3, <1>4, <1>5, <2>1, <2>2
  <2>4. TypeOK'
    BY <1>2, <1>3, <2>1 DEF TypeOK
  <2>5. BestSoFar'
    BY <1>3, <1>4, <2>1, <2>2 DEF BestSoFar, Reading
  <2>6. BestWritten' /\ UnjudgedUnlearnt'
    BY <1>2, <1>7, <2>1, <2>3 DEF BestWritten, UnjudgedUnlearnt
  <2> QED
    BY <1>2, <2>4, <2>5, <2>6 DEF TrainInv, SomeTraining
<1>10. CASE GoOn(e)
  <2>1. /\ e >= MaxError
        /\ IF e < bestError THEN bestError' = e /\ bestNet' = net
                            ELSE bestError' = bestError /\ bestNet' = bestNet
    BY <1>5, <1>6, <1>10 DEF GoOn, Remember, best
  <2>2. judged = {} => e < bestError
    BY <1>4, <1>5
  <2>3. /\ bestNet' \in 1..Len(seen') /\ bestError' = seen'[bestNet']
        /\ \A v \in 1..Len(seen') :
             seen'[v] \in Errors /\ bestError' <= seen'[v] /\ MaxError <= seen'[v]
    <3>1. CASE e < bestError
      BY <2>1, <3>1, <1>3, <1>4, <1>5
    <3>2. CASE ~(e < bestError)
      <4>1. judged # {}
        BY <2>2, <3>2
      <4> QED
        BY <2>1, <3>2, <4>1, <1>3, <1>4, <1>5
    <3> QED
      BY <3>1, <3>2
  <2>4. \/ net' = bestNet' /\ pc' = "stop"
        \/ net' = net /\ pc' = "train"
    BY <1>10 DEF GoOn
  <2>5. TypeOK'
    BY <1>2, <1>3, <1>4, <2>1, <2>3, <2>4 DEF TypeOK
  <2>6. BestSoFar'
    BY <1>2, <1>3, <1>4, <2>3, <2>4 DEF BestSoFar, Reading
  <2>7. BestWritten' /\ UnjudgedUnlearnt'
    BY <1>2, <1>7, <2>3, <2>4 DEF BestWritten, UnjudgedUnlearnt
  <2> QED
    BY <1>2, <2>5, <2>6, <2>7 DEF TrainInv, SomeTraining
<1> QED
  BY <1>1, <1>8, <1>9, <1>10

(* Judging without one: no comparison is true, so training goes on or ends *)
(* by its number.                                                          *)
LEMMA JudgeNothing ==
  ASSUME TrainInv, Judge, noValidation = 0
  PROVE  TrainInv'
<1>1. seen' = Append(seen, NaN) /\ GoOn(NaN)
  <2>1. PICK e \in {NaN} : seen' = Append(seen, e) /\ (SmallEnough(e) \/ Bump(e) \/ GoOn(e))
    BY DEF Judge
  <2> QED
    BY <2>1, BelowIs DEF SmallEnough, Bump
<1>2. /\ TypeOK /\ pc = "judge" /\ trained' = trained /\ file' = file
      /\ batch' = batch /\ bump' = bump
      /\ noTraining' = noTraining /\ noValidation' = 0 /\ noTraining # 0
  BY DEF Judge, TrainInv, SomeTraining, opts, sets
<1>3. /\ seen' \in Seq(Outcomes) /\ Len(seen') = Len(seen) + 1 /\ Len(seen) \in Nat
      /\ 1..Len(seen') = (1..Len(seen)) \cup {Len(seen) + 1}
      /\ seen'[Len(seen) + 1] = NaN
      /\ \A v \in 1..Len(seen) : seen'[v] = seen[v]
  BY <1>1, <1>2, OneMore DEF Outcomes
<1>4. /\ net = Len(seen) + 1 /\ bestNet = 1 /\ bestError = Huge
      /\ \A v \in 1..Len(seen) : seen[v] = NaN
  BY <1>2 DEF TrainInv, BestSoFar
<1>5. /\ bestNet' = 1 /\ bestError' = Huge
      /\ \/ net' = 1 /\ pc' = "stop"
         \/ net' = net /\ pc' = "train"
  BY <1>1, <1>4, BelowIs DEF GoOn, Remember, best
<1>6. \A v \in 1..Len(seen') : seen'[v] = NaN
  BY <1>3, <1>4
<1>7. TypeOK'
  BY <1>2, <1>3, <1>4, <1>5 DEF TypeOK
<1>8. BestSoFar'
  BY <1>2, <1>3, <1>4, <1>5, <1>6 DEF BestSoFar, Reading
<1>9. BestWritten' /\ UnjudgedUnlearnt'
  BY <1>2, <1>5, <1>6, BelowIs DEF BestWritten, UnjudgedUnlearnt
<1> QED
  BY <1>2, <1>7, <1>8, <1>9 DEF TrainInv, SomeTraining

(* Every round counts at least one pair.                                   *)
LEMMA RoundCounts ==
  ASSUME Train, TypeOK, noTraining # 0
  PROVE  /\ pc = "train" /\ pc' = "judge" /\ seen' = seen
         /\ trained' >= trained + 1 /\ trained' \in Nat
<1>0. noTraining \in Nat \ {0}
  BY TrainingAssumption DEF TypeOK
<1>1. \A n \in Nat \ {0} : n * noTraining \in Nat \ {0}
  BY <1>0
<1>2. batch \in Int
  BY TrainingAssumption DEF TypeOK
<1> QED
  BY <1>0, <1>1, <1>2
  DEF Train, TrainBatch, TrainRandomly, TrainAll, Trained, TypeOK

LEMMA OtherSteps ==
  ASSUME TrainInv,
         [ReadTraining \/ ReadValidation \/ Train \/ OpenFile \/ WriteFile \/ CannotSave \/ Kill]_vars
  PROVE  TrainInv'
<1> USE DEF TrainInv, TypeOK, SomeTraining, BestSoFar, BestWritten, UnjudgedUnlearnt, Reading,
            opts, sets, best
<1>1. CASE Train
  <2>1. /\ pc = "train" /\ pc' = "judge" /\ net' = net + 1 /\ trained' \in Nat
        /\ UNCHANGED <<batch, bump, noTraining, noValidation, bestNet, bestError, seen, file>>
    BY <1>1, RoundCounts DEF Train, TrainBatch, TrainRandomly, TrainAll, Trained
  <2> QED
    BY <2>1
<1>2. CASE OpenFile
  BY <1>2 DEF OpenFile, NoFile
<1>3. CASE WriteFile
  BY <1>3 DEF WriteFile
<1>4. CASE Kill
  BY <1>4 DEF Kill
<1>5. CASE CannotSave
  BY <1>5 DEF CannotSave
<1>6. CASE UNCHANGED vars
  BY <1>6 DEF vars
<1>7. CASE ReadTraining
  BY <1>7, TrainingAssumption DEF ReadTraining
<1>8. CASE ReadValidation
  BY <1>8, TrainingAssumption DEF ReadValidation
<1> QED
  BY <1>1, <1>2, <1>3, <1>4, <1>5, <1>6, <1>7, <1>8

LEMMA Invariant == Spec => []TrainInv
<1>1. TrainInv /\ [Next]_vars => TrainInv'
  BY JudgeStep, JudgeNothing, OtherSteps DEF Next, Train
<1> QED
  BY InitTrain, <1>1, PTL DEF Spec

(* "In all cases, the best network encountered is written": whatever the   *)
(* errors, the switches and the sizes of the two sets.                     *)
THEOREM BestIsWritten == Spec => []BestWritten
<1>1. TrainInv => BestWritten
  BY DEF TrainInv
<1> QED
  BY Invariant, <1>1, PTL

(* Trained without a validation set, the network is saved as it was.       *)
THEOREM UnjudgedIsUnlearnt == Spec => []UnjudgedUnlearnt
<1>1. TrainInv => UnjudgedUnlearnt
  BY DEF TrainInv
<1> QED
  BY Invariant, <1>1, PTL

(* The networks, errors and numbers of samples stay what they are.         *)
THEOREM TrainingTyped == Spec => []TypeOK
<1>1. TrainInv => TypeOK
  BY DEF TrainInv
<1> QED
  BY Invariant, <1>1, PTL

(* The best error and the best network belong together after every step.   *)
THEOREM BestIsKnown == Spec => [](TypeOK /\ BestSoFar)
<1>1. TrainInv => TypeOK /\ BestSoFar
  BY DEF TrainInv
<1> QED
  BY Invariant, <1>1, PTL

(* With -f the error never went up while training goes on.                 *)
THEOREM BumpStops == Spec => []StopsAtBump
<1>1. Init => StopsAtBump
  BY DEF Init, StopsAtBump
<1>2. TrainInv /\ StopsAtBump /\ [Next]_vars => StopsAtBump'
  <2> SUFFICES ASSUME TrainInv, StopsAtBump, [Next]_vars, bump', pc' \in {"judge", "train"},
                      NEW v \in 1..Len(seen'), NEW w \in 1..Len(seen'), v < w
               PROVE  ~Below(seen'[v], seen'[w])
    BY DEF StopsAtBump
  <2>1. TypeOK /\ BestSoFar
    BY DEF TrainInv
  <2>2. CASE Judge
    <3>1. PICK e \in Outcomes : /\ seen' = Append(seen, e)
                                /\ SmallEnough(e) \/ Bump(e) \/ GoOn(e)
                                /\ noValidation = 0 => e = NaN
                                /\ noValidation # 0 => e \in Errors
      BY <2>2 DEF Judge, Outcomes
    <3>2. /\ Len(seen') = Len(seen) + 1 /\ Len(seen) \in Nat
          /\ seen'[Len(seen) + 1] = e
          /\ \A u \in 1..Len(seen) : seen'[u] = seen[u]
      BY <2>1, <3>1 DEF TypeOK
    <3>3. bump /\ pc = "judge"
      BY <2>2 DEF Judge, opts
    <3>4. CASE w # Len(seen) + 1
      BY <3>2, <3>3, <3>4 DEF StopsAtBump
    <3>5. CASE w = Len(seen) + 1 /\ noValidation = 0
      BY <3>1, <3>2, <3>5, BelowIs
    <3>6. CASE w = Len(seen) + 1 /\ noValidation # 0
      <4>1. ~Below(bestError, e)
        BY <3>1, <3>3 DEF SmallEnough, Bump, GoOn
      <4>2. noValidation > 0 /\ v \in 1..Len(seen)
        BY <2>1, <3>2, <3>6 DEF TypeOK
      <4>3. seen[v] \in Errors /\ bestError <= seen[v]
        BY <2>1, <3>3, <4>2 DEF BestSoFar
      <4>4. bestError \in Int /\ e \in Int /\ seen[v] \in Int
        <5>1. bestError \in Errors \cup {Huge}
          BY <2>1 DEF TypeOK
        <5>2. e \in Errors
          BY <3>1, <3>6
        <5>3. Errors \subseteq Int /\ Huge \in Int
          BY TrainingAssumption
        <5>4. seen[v] \in Errors
          BY <4>3
        <5> HIDE DEF TypeOK
        <5> QED
          BY <5>1, <5>2, <5>3, <5>4
      <4>5. e <= bestError
        BY <4>1, <4>4, BelowIs
      <4>6. ~Below(seen[v], e)
        BY <4>3, <4>4, <4>5, BelowIs
      <4> QED
        BY <3>2, <3>6, <4>2, <4>6
    <3> QED
      BY <3>4, <3>5, <3>6
  <2>3. CASE ReadTraining \/ ReadValidation
    <3>1. seen' = seen /\ seen = << >>
      BY <2>1, <2>3 DEF ReadTraining, ReadValidation, BestSoFar, Reading, TypeOK
    <3> QED
      BY <3>1
  <2>4. CASE ~Judge /\ ~(ReadTraining \/ ReadValidation)
    <3>1. seen' = seen /\ bump' = bump
      BY <2>4 DEF Next, Train, TrainBatch, TrainRandomly, TrainAll, Trained, OpenFile, WriteFile,
                  CannotSave, Kill, vars, opts
    <3>2. pc \in {"judge", "train"}
      BY <2>4 DEF Next, Train, TrainBatch, TrainRandomly, TrainAll, Trained, OpenFile, WriteFile,
                  CannotSave, Kill, vars
    <3> QED
      BY <3>1, <3>2 DEF StopsAtBump
  <2> QED
    BY <2>2, <2>3, <2>4
<1> QED
  BY <1>1, <1>2, Invariant, PTL DEF Spec

-----------------------------------------------------------------------------
(* The rounds are no more than the pairs.                                  *)
Counted ==
  /\ Reading => Len(seen) = 0
  /\ pc = "judge" => Len(seen) <= trained /\ Len(seen) <= MaxTrainings
  /\ pc = "train" => Len(seen) <= trained + 1 /\ trained < MaxTrainings
  /\ Len(seen) <= MaxTrainings + 1

LEMMA RoundsCounted == Spec => []Counted
<1>1. Init => Counted
  BY TrainingAssumption DEF Init, Counted, Reading
<1>2. TrainInv /\ Counted /\ [Next]_vars => Counted'
  <2> SUFFICES ASSUME TypeOK, SomeTraining, Counted, [Next]_vars
               PROVE  Counted'
    BY DEF TrainInv
  <2> USE TrainingAssumption DEF Reading
  <2>1. Len(seen) \in Nat /\ trained \in Nat
    BY DEF TypeOK
  <2>2. CASE Train
    <3>1. noTraining # 0
      BY <2>2, RoundCounts DEF SomeTraining, Train, TrainBatch, TrainRandomly, TrainAll, Trained
    <3> QED
      BY <2>1, <2>2, <3>1, RoundCounts DEF Counted
  <2>3. CASE Judge
    <3>1. PICK e \in Outcomes : /\ seen' = Append(seen, e)
                                /\ SmallEnough(e) \/ Bump(e) \/ GoOn(e)
      BY <2>3 DEF Judge, Outcomes
    <3>2. Len(seen') = Len(seen) + 1
      BY <3>1 DEF TypeOK
    <3>3. pc = "judge" /\ trained' = trained
      BY <2>3 DEF Judge
    <3>4. pc' = "stop" \/ (pc' = "train" /\ trained < MaxTrainings)
      BY <3>1 DEF SmallEnough, Bump, GoOn
    <3> QED
      BY <2>1, <3>2, <3>3, <3>4 DEF Counted
  <2>4. CASE OpenFile \/ WriteFile \/ CannotSave \/ Kill \/ UNCHANGED vars
    <3>1. seen' = seen /\ trained' = trained
      BY <2>4 DEF OpenFile, WriteFile, CannotSave, Kill, vars
    <3>2. pc' = pc \/ ~(Reading' \/ pc' \in {"judge", "train"})
      BY <2>4 DEF OpenFile, WriteFile, CannotSave, Kill, vars
    <3> QED
      BY <2>1, <3>1, <3>2 DEF Counted
  <2>5. CASE ReadTraining \/ ReadValidation
    BY <2>1, <2>5 DEF ReadTraining, ReadValidation, Counted
  <2> QED
    BY <2>2, <2>3, <2>4, <2>5 DEF Next
<1> QED
  BY <1>1, <1>2, Invariant, PTL DEF Spec

(* However the error moves, training ends: no more rounds are run than     *)
(* max_trainings.                                                          *)
THEOREM TrainingIsBounded == Spec => []Bounded
<1>1. Counted => Bounded
  BY DEF Counted, Bounded
<1> QED
  BY <1>1, RoundsCounted, PTL

(* What is left to do after reading: the rounds, and saving.               *)
Rounds == MaxTrainings + 1 - Len(seen)
TrainLeft ==
  CASE pc = "train"  -> 2 * Rounds + 4
    [] pc = "judge"  -> 2 * Rounds + 3
    [] pc = "stop"   -> 2
    [] pc = "saving" -> 1
    [] OTHER         -> 0

(* Whatever becomes of the error, each step of training and saving leaves  *)
(* less to do, and what is left is a number: the part of TrainEnds that    *)
(* needs no fairness, once the files are read.                             *)
THEOREM TrainingShrinks ==
  Spec => [][~Reading => TrainLeft \in Nat /\ TrainLeft' \in Nat /\ TrainLeft' < TrainLeft]_vars
<1>1. ASSUME TrainInv, Counted, Counted', Next, ~Reading
      PROVE  TrainLeft \in Nat /\ TrainLeft' \in Nat /\ TrainLeft' < TrainLeft
  <2>1. PICK n, m : n = Len(seen) /\ m = Len(seen')
    OBVIOUS
  <2>2. TypeOK /\ SomeTraining /\ n \in Nat
    BY <1>1, <2>1 DEF TrainInv, TypeOK
  <2>3. /\ n <= MaxTrainings + 1 /\ m <= MaxTrainings + 1 /\ MaxTrainings \in Nat
    BY <1>1, <2>1, TrainingAssumption DEF Counted
  <2>4. CASE Train
    <3>1. noTraining # 0
      BY <2>2, <2>4 DEF SomeTraining, Train, TrainBatch, TrainRandomly, TrainAll, Trained
    <3>2. pc = "train" /\ pc' = "judge" /\ m = n
      BY <2>1, <2>2, <2>4, <3>1, RoundCounts
    <3> QED
      BY <2>1, <2>2, <2>3, <3>2 DEF TrainLeft, Rounds
  <2>5. CASE Judge
    <3>1. pc = "judge" /\ pc' \in {"stop", "train"}
      BY <2>5 DEF Judge, SmallEnough, Bump, GoOn
    <3>2. m = n + 1
      BY <2>1, <2>2, <2>5 DEF Judge, TypeOK
    <3> QED
      BY <2>1, <2>2, <2>3, <3>1, <3>2 DEF TrainLeft, Rounds
  <2>6. CASE OpenFile \/ WriteFile \/ CannotSave \/ Kill
    <3>1. /\ pc \in {"train", "judge", "stop", "saving"}
          /\ pc' \in {"saving", "done", "unsaved", "killed"}
          /\ pc' = "saving" => pc = "stop"
      BY <1>1, <2>2, <2>6 DEF OpenFile, WriteFile, CannotSave, Kill, Reading, TypeOK
    <3> QED
      BY <2>1, <2>2, <2>3, <3>1 DEF TrainLeft, Rounds
  <2>7. CASE ReadTraining \/ ReadValidation
    BY <1>1, <2>7 DEF ReadTraining, ReadValidation, Reading
  <2> QED
    BY <1>1, <2>4, <2>5, <2>6, <2>7 DEF Next
<1> QED
  BY <1>1, Invariant, RoundsCounted, PTL DEF Spec

-----------------------------------------------------------------------------
(* OcrTrain: the sets that are read are what Training says.                *)

(* A sequence of anything.                                                 *)
IsSequence(s) == \E S : s \in Seq(S)

(* gzeof is looked at after a digit has been read, and a digit is read     *)
(* only if there is room for it.                                           *)
ReadInv ==
  /\ IsSequence(samples) /\ Len(samples) <= Room
  /\ doing = "file" /\ samples = << >> => past = FALSE
  /\ doing # "file" => Len(samples) < Room

(* A sample more, at the end of the array.                                 *)
LEMMA OneMoreSample ==
  ASSUME NEW a, IsSequence(a), NEW x
  PROVE  /\ IsSequence(Append(a, x)) /\ Len(Append(a, x)) = Len(a) + 1
         /\ Append(a, x) # << >> /\ Len(a) \in Nat
         /\ Append(a, x)[Len(a) + 1] = x
         /\ \A k \in 1..Len(a) : Append(a, x)[k] = a[k]
<1>1. PICK S : a \in Seq(S)
  BY DEF IsSequence
<1>2. PICK U : U = S \cup {x}
  OBVIOUS
<1>3. a \in Seq(U) /\ x \in U
  BY <1>1, <1>2
<1>4. /\ Append(a, x) \in Seq(U) /\ Len(Append(a, x)) = Len(a) + 1 /\ Len(a) \in Nat
      /\ Append(a, x)[Len(a) + 1] = x
      /\ \A k \in 1..Len(a) : Append(a, x)[k] = a[k]
  BY <1>3, AppendLaws
<1>5. Append(a, x) # << >>
  BY <1>4, EmptyLaws
<1> QED
  BY <1>4, <1>5 DEF IsSequence

(* A file that has just been opened, any file.                             *)
LEMMA Opening ==
  ASSUME NEW t, Open(t)
  PROVE  ReadInv'
<1>1. samples' = << >> /\ doing' = "file" /\ past' = FALSE
  BY DEF Open
<1>2. << >> \in Seq({}) /\ Len(<< >>) = 0
  OBVIOUS
<1> QED
  BY <1>1, <1>2, ArrayAssumption, FileAssumption DEF ReadInv, IsSequence

(* The array has room for what is read, and the end of a file is known     *)
(* only after something was read.                                          *)
LEMMA ReadInvariant == SpecOcr => []ReadInv
<1>1. InitOcr => ReadInv
  <2>1. << >> \in Seq({}) /\ Len(<< >>) = 0
    OBVIOUS
  <2> QED
    BY <2>1, FileAssumption DEF InitOcr, Opened, ReadInv, IsSequence
<1>2. ReadInv /\ [NextOcr]_ocrVars => ReadInv'
  <2> SUFFICES ASSUME ReadInv, [NextOcr]_ocrVars PROVE ReadInv'
    OBVIOUS
  <2>1. CASE UNCHANGED readerVars
    BY <2>1 DEF ReadInv, readerVars
  <2>2. CASE Digit
    BY <2>2, FileAssumption, OneMoreSample DEF Digit, ReadInv
  <2>3. CASE Row
    <3>1. doing = "row" /\ doing' \in {"row", "value"} /\ samples' = samples
      BY <2>3 DEF Row
    <3> QED
      BY <3>1 DEF ReadInv
  <2>4. CASE Value
    <3>1. /\ doing = "value" /\ doing' = "file"
          /\ samples' = Append(samples, [rows |-> rows, value |-> line'])
      BY <2>4 DEF Value
    <3>2. /\ IsSequence(samples') /\ Len(samples') = Len(samples) + 1
          /\ samples' # << >> /\ Len(samples) \in Nat
      BY <3>1, OneMoreSample DEF ReadInv
    <3> QED
      BY <3>1, <3>2, FileAssumption DEF ReadInv
  <2>5. CASE \E t : Open(t)
    BY <2>5, Opening
  <2> QED
    BY <2>1, <2>2, <2>3, <2>4, <2>5
    DEF NextOcr, Work, Fail, Read, NextRead, EndTraining, EndValidation, NoValidation, Validated,
        Overflow, ocrVars
<1> QED
  BY <1>1, <1>2, PTL DEF SpecOcr

(* Every step of the program is one of Training or leaves all that         *)
(* Training knows of as it was: the training set it trains with is never   *)
(* empty, and both sets fit into their arrays.                             *)
THEOREM ProgramTrains == SpecOcr => ImplementsTraining
<1>1. InitOcr => Init
  BY DEF InitOcr
<1>2. ReadInv /\ [NextOcr]_ocrVars => [Next]_vars
  <2> SUFFICES ASSUME ReadInv, NextOcr PROVE [Next]_vars
    BY DEF ocrVars
  <2>1. Len(samples) \in Nat /\ Len(samples) <= MaxSet
    BY OneMoreSample, ArrayAssumption DEF ReadInv
  <2>2. CASE EndTraining
    <3>1. samples # << >>
      BY <2>2 DEF EndTraining, AtEnd, ReadInv
    <3>2. Len(samples) # 0
      BY <3>1 DEF ReadInv, IsSequence
    <3>3. ReadTraining
      BY <2>1, <2>2, <3>2 DEF EndTraining, ReadTraining
    <3> QED
      BY <3>3 DEF Next
  <2>3. CASE EndValidation \/ NoValidation
    <3>1. ReadValidation
      BY <2>1, <2>3, TrainingAssumption
      DEF EndValidation, NoValidation, Validated, ReadValidation
    <3> QED
      BY <3>1 DEF Next
  <2>4. CASE Read
    BY <2>4 DEF Read
  <2>5. CASE Overflow \/ Fail \/ Train \/ Judge \/ OpenFile \/ WriteFile
    BY <2>5 DEF Overflow, Fail, Next
  <2> QED
    BY <2>2, <2>3, <2>4, <2>5 DEF NextOcr, Work
<1> QED
  BY <1>1, <1>2, ReadInvariant, PTL DEF SpecOcr, ImplementsTraining, Spec

(* "In all cases, the best network encountered is written" (train.c), of   *)
(* the program that reads its files.                                       *)
THEOREM ProgramWritesBest == SpecOcr => []BestWritten
  BY ProgramTrains, BestIsWritten DEF ImplementsTraining

(* The rest of what training promises, of the program as well: -f stops at *)
(* the first increase, nothing is learnt without a validation set, and no  *)
(* more rounds are run than max_trainings.                                 *)
THEOREM ProgramStops == SpecOcr => [](StopsAtBump /\ UnjudgedUnlearnt /\ Bounded)
  BY ProgramTrains, BumpStops, UnjudgedIsUnlearnt, TrainingIsBounded, PTL DEF ImplementsTraining

-----------------------------------------------------------------------------
(* TrainingFile: what is read is what was written.                         *)

(* Line m of the sample after n samples, in a file without a header: how   *)
(* many lines are before it, and how these numbers are ordered.            *)
At(n, m) == n * (Rows + 1) + m

LEMMA AtOrders ==
  ASSUME NEW n \in Nat, NEW q \in Nat, NEW m \in 0..Rows, NEW r \in 0..Rows
  PROVE  /\ At(n, m) \in Nat /\ At(q, r) \in Nat /\ At(0, m) = m
         /\ At(n, m) < At(q, r) <=> n < q \/ (n = q /\ m < r)
         /\ At(n, m) = At(q, r) <=> n = q /\ m = r
         /\ m < Rows => At(n, m) + 1 = At(n, m + 1)
         /\ m = Rows => At(n, m) + 1 = At(n + 1, 0)
<1>1. PICK w \in Nat \ {0} : w = Rows + 1
  BY FileAssumption
<1>2. \A a \in Nat, b \in 0..w - 1 : At(a, b) = a * w + b /\ a * w + b \in Nat
  BY <1>1 DEF At
<1>3. m \in 0..w - 1 /\ r \in 0..w - 1 /\ Rows \in Nat
  BY <1>1, FileAssumption
<1>4. ASSUME NEW a \in Nat, NEW b \in Nat, NEW c \in 0..w - 1, NEW d \in 0..w - 1, a < b
      PROVE  a * w + c < b * w + d
  <2>1. PICK e \in Nat : b = a + e + 1
    <3>1. b - a - 1 \in Nat /\ b = a + (b - a - 1) + 1
      BY <1>4
    <3> QED
      BY <3>1
  <2>2. b * w = a * w + e * w + w /\ e * w \in Nat /\ a * w \in Nat
    BY <2>1
  <2> QED
    BY <2>2
<1>5. /\ n < q => n * w + m < q * w + r
      /\ q < n => q * w + r < n * w + m
  BY <1>3, <1>4
<1>6. n * w \in Nat /\ q * w \in Nat /\ (n = q => n * w = q * w)
  OBVIOUS
<1>7. /\ n * w + m < q * w + r <=> n < q \/ (n = q /\ m < r)
      /\ n * w + m = q * w + r <=> n = q /\ m = r
  <2>1. n < q \/ n = q \/ q < n
    OBVIOUS
  <2> QED
    BY <1>5, <1>6, <2>1
<1>8. At(n, m) = n * w + m /\ At(q, r) = q * w + r
  BY <1>2, <1>3
<1>9. m < Rows => At(n, m) + 1 = At(n, m + 1)
  <2>1. m < Rows => m + 1 \in 0..w - 1
    BY <1>1, <1>3
  <2> QED
    BY <1>2, <1>6, <1>8, <2>1
<1>10. m = Rows => At(n, m) + 1 = At(n + 1, 0)
  <2>1. At(n + 1, 0) = (n + 1) * w + 0
    BY <1>2
  <2>2. (n + 1) * w = n * w + w
    OBVIOUS
  <2> QED
    BY <1>1, <1>3, <1>6, <1>8, <2>1, <2>2
<1>11. At(0, m) = m
  <2>1. At(0, m) = 0 * w + m
    BY <1>2, <1>3
  <2> QED
    BY <2>1
<1> QED
  BY <1>2, <1>3, <1>7, <1>8, <1>9, <1>10, <1>11

(* What is in a text: the lines of q samples and r of the next one, after  *)
(* a heading or none.  The last line may be torn.                          *)
BodyLine(n, m, torn) == [of |-> n + 1, row |-> IF m = Rows THEN 0 ELSE m + 1, torn |-> torn]

Holds(lines, head, q, r, torn) ==
  /\ IsSequence(lines) /\ Len(lines) = head + At(q, r)
  /\ head = 1 => lines[1] = Heading
  /\ \A n \in Nat, m \in 0..Rows :
       At(n, m) < At(q, r) =>
         lines[head + At(n, m) + 1] = BodyLine(n, m, torn /\ At(n, m) + 1 = At(q, r))

Shape(t, head, q, r, torn) ==
  /\ head \in {0, 1} /\ q \in Nat /\ r \in 0..Rows /\ torn \in BOOLEAN
  /\ t.there /\ t.ended \in BOOLEAN
  /\ ~t.ended => q > 0 \/ r > 0
  /\ torn => ~t.ended
  /\ Holds(t.lines, head, q, r, torn)

(* Every number is that of a line, and the line is what Text says.         *)
LEMMA AtIs ==
  ASSUME NEW n \in Nat, NEW m \in 0..Rows
  PROVE  Line(At(n, m) \div (Rows + 1) + 1, (At(n, m) + 1) % (Rows + 1)) = BodyLine(n, m, FALSE)
<1>1. PICK w \in Nat \ {0} : w = Rows + 1
  BY FileAssumption
<1>2. m \in 0..w - 1 /\ Rows \in Nat
  BY <1>1, FileAssumption
<1>3. (n * w + m) \div w = n
  BY <1>2, DivUnique
<1>4. CASE m = Rows
  <2>1. n * w + m + 1 = (n + 1) * w + 0
    BY <1>1, <1>2, <1>4
  <2>2. ((n + 1) * w + 0) % w = 0
    <3>1. n + 1 \in Nat /\ 0 \in 0..w - 1
      OBVIOUS
    <3> QED
      BY <3>1, DivUnique
  <2> QED
    BY <1>1, <1>3, <1>4, <2>1, <2>2 DEF At, Line, BodyLine
<1>5. CASE m # Rows
  <2>1. m + 1 \in 0..w - 1
    BY <1>1, <1>2, <1>5
  <2>2. (n * w + (m + 1)) % w = m + 1
    BY <2>1, DivUnique
  <2>3. n * w + m + 1 = n * w + (m + 1)
    BY <1>2
  <2> QED
    BY <1>1, <1>3, <1>5, <2>2, <2>3 DEF At, Line, BodyLine
<1> QED
  BY <1>4, <1>5

(* Every number of lines is that before some line of some sample.          *)
LEMMA AtExists ==
  ASSUME NEW l \in Nat
  PROVE  \E q \in Nat, r \in 0..Rows : l = At(q, r)
<1>1. PICK w \in Nat \ {0} : w = Rows + 1
  BY FileAssumption
<1>2. l \div w \in Nat /\ l % w \in 0..w - 1 /\ l = (l \div w) * w + (l % w)
  BY DivMod
<1>3. 0..w - 1 = 0..Rows
  BY <1>1, FileAssumption
<1> QED
  BY <1>1, <1>2, <1>3 DEF At

(* A run that was killed between two lines leaves the first of them.       *)
LEMMA PrefixHolds ==
  ASSUME NEW number \in Nat, NEW body \in Prefixes(Text(number))
  PROVE  \E q \in Nat, r \in 0..Rows : Holds(body, 0, q, r, FALSE)
<1>1. PICK w \in Nat \ {0} : w = Rows + 1
  BY FileAssumption
<1>2. PICK all : all = Text(number)
  OBVIOUS
<1>3. PICK size \in Nat : size = number * w
  OBVIOUS
<1>4. all = [k \in 1..size |-> Line((k - 1) \div w + 1, k % w)]
  BY <1>1, <1>2, <1>3 DEF Text
<1> DEFINE S == {Line((k - 1) \div w + 1, k % w) : k \in 1..size}
<1>5. all \in Seq(S) /\ Len(all) = size
  <2>1. \A k \in 1..size : Line((k - 1) \div w + 1, k % w) \in S
    OBVIOUS
  <2> HIDE DEF S
  <2>2. all \in [1..size -> S]
    BY <1>4, <2>1
  <2> QED
    BY <2>2
<1>6. PICK l \in 0..size : body = SubSeq(all, 1, l)
  BY <1>2, <1>5 DEF Prefixes
<1>7. /\ body \in Seq(S) /\ Len(body) = l
      /\ \A k \in 1..l : body[k] = all[k]
  <2> HIDE DEF S
  <2>1. l \in Nat /\ 0 + l <= Len(all) /\ 0 + 1 = 1 /\ 0 + l = l
    BY <1>5
  <2>2. \A k \in 1..l : 0 + k = k
    BY <2>1
  <2>3. /\ SubSeq(all, 0 + 1, 0 + l) \in Seq(S)
        /\ Len(SubSeq(all, 0 + 1, 0 + l)) = l
        /\ \A k \in 1..l : SubSeq(all, 0 + 1, 0 + l)[k] = all[0 + k]
    BY <1>5, <2>1, PartLaws
  <2> QED
    BY <1>6, <2>1, <2>2, <2>3
<1>8. PICK q \in Nat, r \in 0..Rows : l = At(q, r)
  BY AtExists
<1>9. ASSUME NEW n \in Nat, NEW m \in 0..Rows, At(n, m) < At(q, r)
      PROVE  body[0 + At(n, m) + 1] = BodyLine(n, m, FALSE /\ At(n, m) + 1 = At(q, r))
  <2>1. PICK k \in Nat : k = At(n, m)
    BY AtOrders
  <2>2. k + 1 \in 1..l /\ k + 1 \in 1..size /\ 0 + k + 1 = k + 1 /\ (k + 1) - 1 = k
    BY <1>8, <1>9, <2>1
  <2>3. body[k + 1] = all[k + 1]
    BY <1>7, <2>2
  <2>4. all[k + 1] = Line(k \div w + 1, (k + 1) % w)
    BY <1>4, <2>2
  <2>5. Line(k \div w + 1, (k + 1) % w) = BodyLine(n, m, FALSE)
    BY <1>1, <2>1, AtIs
  <2>6. (FALSE /\ At(n, m) + 1 = At(q, r)) = FALSE
    OBVIOUS
  <2> QED
    BY <2>1, <2>2, <2>3, <2>4, <2>5, <2>6
<1>10. Holds(body, 0, q, r, FALSE)
  <2> HIDE DEF S
  <2> QED
    BY <1>7, <1>8, <1>9 DEF Holds, IsSequence
<1> QED
  BY <1>10

(* A kill may tear the last line.                                          *)
LEMMA TornHolds ==
  ASSUME NEW body, NEW q \in Nat, NEW r \in 0..Rows, Holds(body, 0, q, r, FALSE), body # << >>
  PROVE  Holds(Torn(body), 0, q, r, TRUE) /\ (q > 0 \/ r > 0)
<1>1. PICK S : body \in Seq(S)
  BY DEF Holds, IsSequence
<1>2. PICK l \in Nat : l = Len(body) /\ l = At(q, r) /\ l > 0
  <2>1. Len(body) \in Nat /\ Len(body) # 0
    BY <1>1, EmptySeq
  <2>2. Len(body) = 0 + At(q, r) /\ At(q, r) \in Nat
    BY AtOrders DEF Holds
  <2> QED
    BY <2>1, <2>2
<1>3. q > 0 \/ r > 0
  <2>1. q = 0 /\ r = 0 => At(q, r) = 0
    BY AtOrders
  <2> QED
    BY <1>2, <2>1
<1>4. PICK torn : torn = Torn(body)
  OBVIOUS
<1>x. PICK x : x = [body[l] EXCEPT !.torn = TRUE]
  OBVIOUS
<1>5. torn = [body EXCEPT ![l] = x]
  BY <1>2, <1>4, <1>x DEF Torn
<1>b. body \in [1..l -> S]
  <2>1. body \in [1..Len(body) -> S]
    BY <1>1
  <2> QED
    BY <1>2, <2>1
<1>6. IsSequence(torn) /\ Len(torn) = l
  <2>1. torn \in [1..l -> S \cup {x}]
    BY <1>5, <1>b
  <2>2. torn \in Seq(S \cup {x}) /\ Len(torn) = l
    BY <2>1
  <2> QED
    BY <2>2 DEF IsSequence
<1>7. ASSUME NEW n \in Nat, NEW m \in 0..Rows, At(n, m) < At(q, r)
      PROVE  torn[0 + At(n, m) + 1] = BodyLine(n, m, TRUE /\ At(n, m) + 1 = At(q, r))
  <2>1. PICK k \in 1..l : k = At(n, m) + 1 /\ k = 0 + At(n, m) + 1
    <3>1. At(n, m) \in Nat
      BY AtOrders
    <3> QED
      BY <1>2, <1>7, <3>1
  <2>2. body[k] = BodyLine(n, m, FALSE)
    <3>1. (FALSE /\ At(n, m) + 1 = At(q, r)) = FALSE
      OBVIOUS
    <3> QED
      BY <1>7, <2>1, <3>1 DEF Holds
  <2>3. torn[k] = IF k = l THEN [body[k] EXCEPT !.torn = TRUE] ELSE body[k]
    <3>1. torn[k] = IF k = l THEN x ELSE body[k]
      BY <1>5, <1>b
    <3> QED
      BY <1>x, <3>1
  <2>4. [BodyLine(n, m, FALSE) EXCEPT !.torn = TRUE] = BodyLine(n, m, TRUE)
    <3>1. PICK v : v = IF m = Rows THEN 0 ELSE m + 1
      OBVIOUS
    <3>2. PICK a, b, no, yes :
            /\ no = FALSE /\ yes = TRUE
            /\ a = BodyLine(n, m, no) /\ b = BodyLine(n, m, yes)
      OBVIOUS
    <3>3. a = [of |-> n + 1, row |-> v, torn |-> no] /\ b = [of |-> n + 1, row |-> v, torn |-> yes]
      BY <3>1, <3>2 DEF BodyLine
    <3>4. [a EXCEPT !.torn = yes] = b
      BY <3>3
    <3> QED
      BY <3>2, <3>4
  <2>5. CASE k = l
    <3>1. (TRUE /\ At(n, m) + 1 = At(q, r)) = TRUE
      BY <1>2, <2>1, <2>5
    <3>2. torn[k] = BodyLine(n, m, TRUE)
      BY <2>2, <2>3, <2>4, <2>5
    <3> QED
      BY <2>1, <3>1, <3>2
  <2>6. CASE k # l
    <3>1. (TRUE /\ At(n, m) + 1 = At(q, r)) = FALSE
      BY <1>2, <2>1, <2>6
    <3>2. torn[k] = BodyLine(n, m, FALSE)
      BY <2>2, <2>3, <2>6
    <3> QED
      BY <2>1, <3>1, <3>2
  <2> QED
    BY <2>5, <2>6
<1> QED
  BY <1>2, <1>3, <1>4, <1>6, <1>7 DEF Holds

(* A heading may come before.                                              *)
LEMMA HeadedHolds ==
  ASSUME NEW body, NEW q \in Nat, NEW r \in 0..Rows, NEW torn, Holds(body, 0, q, r, torn)
  PROVE  /\ Holds(<< >> \o body, 0, q, r, torn)
         /\ Holds(<<Heading>> \o body, 1, q, r, torn)
<1>1. PICK S : body \in Seq(S)
  BY DEF Holds, IsSequence
<1>2. << >> \o body = body
  BY <1>1, ConcatEmptySeq
<1>3. PICK lines : lines = <<Heading>> \o body
  OBVIOUS
<1>4. PICK U : U = S \cup {Heading}
  OBVIOUS
<1>5. body \in Seq(U) /\ <<Heading>> \in Seq(U) /\ Len(body) \in Nat
  <2>1. Heading \in U /\ S \subseteq U
    BY <1>4
  <2> QED
    BY <1>1, <2>1
<1>6. /\ lines \in Seq(U) /\ Len(lines) = 1 + Len(body)
      /\ lines[1] = Heading
      /\ \A k \in 1..Len(body) : lines[1 + k] = body[k]
  BY <1>3, <1>5
<1>7. Len(body) = At(q, r) /\ At(q, r) \in Nat
  <2>1. Len(body) = 0 + At(q, r) /\ At(q, r) \in Nat
    BY AtOrders DEF Holds
  <2> QED
    BY <2>1
<1>8. ASSUME NEW n \in Nat, NEW m \in 0..Rows, At(n, m) < At(q, r)
      PROVE  lines[1 + At(n, m) + 1] = BodyLine(n, m, torn /\ At(n, m) + 1 = At(q, r))
  <2>1. PICK k \in 1..Len(body) : k = 0 + At(n, m) + 1 /\ 1 + At(n, m) + 1 = 1 + k
    <3>1. At(n, m) \in Nat
      BY AtOrders
    <3> QED
      BY <1>7, <1>8, <3>1
  <2>2. body[k] = BodyLine(n, m, torn /\ At(n, m) + 1 = At(q, r))
    BY <1>8, <2>1 DEF Holds
  <2> QED
    BY <1>6, <2>1, <2>2
<1>9. Holds(lines, 1, q, r, torn)
  BY <1>6, <1>7, <1>8 DEF Holds, IsSequence
<1> QED
  BY <1>2, <1>3, <1>9

(* Joining sequences of members of S gives another one.                   *)
LEMMA FlattenTyped ==
  ASSUME NEW S, NEW seqs \in Seq(Seq(S))
  PROVE  FlattenSeq(seqs) \in Seq(S)
<1>c. /\ << >> \in Seq(S)
      /\ \A s, t \in Seq(S) : s \o t \in Seq(S)
      /\ \A s \in Seq(S) : << >> \o s = s
  BY EmptySeq, ConcatProperties, ConcatEmptySeq
<1>n. PICK n \in Nat : n = Len(seqs) /\ \A i \in 1..n : seqs[i] \in Seq(S)
  OBVIOUS
<1> DEFINE Is(f) == f = [i \in 1..n |-> IF i = 1 THEN seqs[i] ELSE f[i - 1] \o seqs[i]]
           add == [x \in (1..n) \X Seq(S) |-> x[2] \o seqs[x[1]]]
<1>0. CASE n = 0
  <2>1. Len(seqs) = 0 /\ seqs \in Seq(Seq(S))
    BY <1>n, <1>0
  <2>2. seqs = << >>
    BY <2>1, EmptySeq
  <2> QED
    BY <2>1, <2>2, EmptySeq DEF FlattenSeq
<1>1. CASE n # 0
  <2>1. /\ add \in [(1..n) \X Seq(S) -> Seq(S)]
        /\ \A i \in 1..n, s \in Seq(S) : add[<<i, s>>] = s \o seqs[i]
    <3>1. \A x \in (1..n) \X Seq(S) : x[2] \o seqs[x[1]] \in Seq(S)
      BY <1>c, <1>n
    <3> QED
      BY <3>1
  <2>2. PICK g \in [0..n -> Seq(S)] :
          g[0] = << >> /\ \A k \in 1..n : g[k] = add[<<k, g[k - 1]>>]
    <3>1. PICK U, e : U = Seq(S) /\ e = << >>
      OBVIOUS
    <3>2. e \in U /\ Steps(add, n, U)
      BY <1>c, <2>1, <3>1 DEF Steps
    <3> HIDE DEF add
    <3>3. \E g \in [0..n -> U] : Iterates(g, e, add, n)
      BY <3>2, Recursion
    <3> QED
      BY <3>1, <3>3 DEF Iterates
  <2> HIDE DEF add
  <2>3. g[0] = << >> /\ \A i \in 1..n : g[i] = g[i - 1] \o seqs[i]
    <3>1. \A i \in 1..n : g[i - 1] \in Seq(S)
      OBVIOUS
    <3> QED
      BY <2>1, <2>2, <3>1
  <2> DEFINE f == [i \in 1..n |-> g[i]]
  <2>4. ASSUME NEW i \in 1..n
        PROVE  f[i] = IF i = 1 THEN seqs[i] ELSE f[i - 1] \o seqs[i]
    <3>1. CASE i = 1
      <4>1. seqs[i] \in Seq(S)
        BY <1>n
      <4>2. g[i] = g[i - 1] \o seqs[i]
        BY <2>3
      <4>3. g[i - 1] = << >>
        BY <2>3, <3>1
      <4> QED
        BY <1>c, <3>1, <4>1, <4>2, <4>3
    <3>2. CASE i # 1
      <4>1. i - 1 \in 1..n
        BY <3>2
      <4> QED
        BY <2>3, <3>2, <4>1
    <3> QED
      BY <3>1, <3>2
  <2>5. Is(CHOOSE h : Is(h))
    <3>1. f = [i \in 1..n |-> f[i]]
      OBVIOUS
    <3>2. Is(f)
      <4> HIDE DEF f
      <4> QED
        BY <2>4, <3>1
    <3> HIDE DEF f, Is
    <3> QED
      BY <3>2
  <2> DEFINE h == CHOOSE x : Is(x)
             T == {i \in Nat : i + 1 <= n => h[i + 1] \in Seq(S)}
  <2>6. h = [i \in 1..n |-> IF i = 1 THEN seqs[i] ELSE h[i - 1] \o seqs[i]]
    BY <2>5
  <2> HIDE DEF h
  <2>7. 0 \in T
    BY <1>n, <2>6
  <2>8. ASSUME NEW i \in Nat, i \in T PROVE i + 1 \in T
    <3> SUFFICES ASSUME i + 1 + 1 <= n PROVE h[i + 1 + 1] \in Seq(S)
      OBVIOUS
    <3>1. i + 2 \in 1..n /\ i + 2 # 1 /\ i + 1 + 1 = i + 2 /\ (i + 2) - 1 = i + 1
      OBVIOUS
    <3>2. h[i + 2] = h[i + 1] \o seqs[i + 2]
      BY <2>6, <3>1
    <3>3. seqs[i + 2] \in Seq(S) /\ h[i + 1] \in Seq(S)
      BY <1>n, <2>8, <3>1
    <3> QED
      BY <1>c, <3>1, <3>2, <3>3
  <2>9. n - 1 \in T
    <3>1. Nat \subseteq T
      <4> HIDE DEF T
      <4> QED
        BY <2>7, <2>8, Induction
    <3> HIDE DEF T
    <3> QED
      BY <1>1, <3>1
  <2>10. h[n] \in Seq(S)
    BY <1>1, <2>9
  <2> QED
    BY <1>n, <1>1, <2>10 DEF FlattenSeq, h
<1> QED
  BY <1>0, <1>1

(* The number of pictures that ochi_prepare_train_file gets to.            *)
LEMMA WrittenTyped ==
  ASSUME NEW files \in Numerals
  PROVE  Written(files) \in Nat
<1>1. PICK seqs : seqs = [n \in DOMAIN files |-> IF files[n] = << >> THEN <<FALSE>> ELSE files[n]]
  OBVIOUS
<1>2. seqs \in Seq(Seq(BOOLEAN))
  <2>1. files \in Seq(Seq(BOOLEAN))
    BY FileAssumption
  <2>2. <<FALSE>> \in Seq(BOOLEAN)
    OBVIOUS
  <2>3. PICK U, e, f : U = Seq(BOOLEAN) /\ e = << >> /\ f = <<FALSE>>
    OBVIOUS
  <2>4. seqs = [n \in DOMAIN files |-> IF files[n] = e THEN f ELSE files[n]]
    BY <1>1, <2>3
  <2>5. files \in Seq(U) /\ f \in U
    BY <2>1, <2>2, <2>3
  <2>6. seqs \in Seq(U)
    BY <2>4, <2>5
  <2> QED
    BY <2>3, <2>6
<1>3. PICK all : all = FlattenSeq(seqs)
  OBVIOUS
<1>4. all \in Seq(BOOLEAN) /\ Len(all) \in Nat
  <2>1. all \in Seq(BOOLEAN)
    BY <1>2, <1>3, FlattenTyped
  <2> QED
    BY <2>1
<1> DEFINE I == {k \in 1..Len(all) : ~all[k]}
           end == IF I # {} THEN Min(I) ELSE 0
<1>5. Written(files) = IF end = 0 THEN Len(all) ELSE end - 1
  BY <1>1, <1>3 DEF Written, SelectInSeq
<1>6. I # {} => Min(I) \in I
  <2>1. I \subseteq Nat
    OBVIOUS
  <2> HIDE DEF I
  <2> SUFFICES ASSUME I # {} PROVE Min(I) \in I
    OBVIOUS
  <2>2. \E x \in I : \A y \in I : x <= y
    BY <2>1, LeastNumber
  <2> QED
    BY <2>2 DEF Min
<1>7. end \in Nat
  BY <1>4, <1>6
<1> HIDE DEF end
<1> QED
  BY <1>4, <1>5, <1>7

(* Every file that may be there is of this shape.                          *)
LEMMA LeftShaped ==
  ASSUME NEW t \in Left, t # NoText
  PROVE  \E head, q, r, torn : Shape(t, head, q, r, torn)
<1> DEFINE bodies == UNION {Prefixes(Text(Written(files))) : files \in Numerals}
           File(lines, ended) == [there |-> TRUE, lines |-> lines, ended |-> ended]
<1>1. PICK h \in {<< >>, <<Heading>>}, b \in bodies :
        \/ t = File(h \o b, TRUE)
        \/ b # << >> /\ t = File(h \o b, FALSE)
        \/ b # << >> /\ t = File(h \o Torn(b), FALSE)
  <2> HIDE DEF File, bodies
  <2>1. t \in UNION {{File(h \o b, TRUE) : b \in bodies}
                     \cup {File(h \o b, FALSE) : b \in bodies \ {<< >>}}
                     \cup {File(h \o Torn(b), FALSE) : b \in bodies \ {<< >>}} :
                     h \in {<< >>, <<Heading>>}}
    BY DEF Left, File, bodies
  <2> QED
    BY <2>1
<1>2. PICK files \in Numerals : b \in Prefixes(Text(Written(files)))
  OBVIOUS
<1>3. PICK q \in Nat, r \in 0..Rows : Holds(b, 0, q, r, FALSE)
  BY <1>2, WrittenTyped, PrefixHolds
<1>4. b # << >> => Holds(Torn(b), 0, q, r, TRUE) /\ (q > 0 \/ r > 0)
  BY <1>3, TornHolds
<1>5. PICK head \in {0, 1} :
        /\ Holds(h \o b, head, q, r, FALSE)
        /\ b # << >> => Holds(h \o Torn(b), head, q, r, TRUE)
  <2>1. CASE h = << >>
    BY <1>3, <1>4, <2>1, HeadedHolds
  <2>2. CASE h = <<Heading>>
    BY <1>3, <1>4, <2>2, HeadedHolds
  <2> QED
    BY <2>1, <2>2
<1>6. CASE t = File(h \o b, TRUE)
  <2>1. Shape(t, head, q, r, FALSE)
    <3>1. PICK w : w = h \o b
      OBVIOUS
    <3>2. t = [there |-> TRUE, lines |-> w, ended |-> TRUE]
      BY <1>6, <3>1
    <3>3. t.there = TRUE /\ t.lines = w /\ t.ended = TRUE
      BY <3>2
    <3>4. Holds(t.lines, head, q, r, FALSE)
      <4>1. Holds(w, head, q, r, FALSE)
        BY <1>5, <3>1
      <4> QED
        BY <3>3, <4>1
    <3>5. t.ended \/ q > 0 \/ r > 0
      BY <1>6, <3>3
    <3> QED
      BY <3>3, <3>4, <3>5 DEF Shape
  <2> QED
    BY <2>1
<1>7. CASE b # << >> /\ t = File(h \o b, FALSE)
  <2>1. Shape(t, head, q, r, FALSE)
    <3>1. PICK w : w = h \o b
      OBVIOUS
    <3>2. t = [there |-> TRUE, lines |-> w, ended |-> FALSE]
      BY <1>7, <3>1
    <3>3. t.there = TRUE /\ t.lines = w /\ t.ended = FALSE
      BY <3>2
    <3>4. Holds(t.lines, head, q, r, FALSE)
      <4>1. Holds(w, head, q, r, FALSE)
        BY <1>5, <1>7, <3>1
      <4> QED
        BY <3>3, <4>1
    <3>5. t.ended \/ q > 0 \/ r > 0
      BY <1>4, <1>5, <1>7, <3>3
    <3> QED
      BY <3>3, <3>4, <3>5 DEF Shape
  <2> QED
    BY <2>1
<1>8. CASE b # << >> /\ t = File(h \o Torn(b), FALSE)
  <2>1. Shape(t, head, q, r, TRUE)
    <3>1. PICK w : w = h \o Torn(b)
      OBVIOUS
    <3>2. t = [there |-> TRUE, lines |-> w, ended |-> FALSE]
      BY <1>8, <3>1
    <3>3. t.there = TRUE /\ t.lines = w /\ t.ended = FALSE
      BY <3>2
    <3>4. Holds(t.lines, head, q, r, TRUE)
      <4>1. Holds(w, head, q, r, TRUE)
        BY <1>5, <1>8, <3>1
      <4> QED
        BY <3>3, <4>1
    <3>5. t.ended \/ q > 0 \/ r > 0
      BY <1>4, <1>5, <1>8, <3>3
    <3> QED
      BY <3>3, <3>4, <3>5 DEF Shape
  <2> QED
    BY <2>1
<1> QED
  BY <1>1, <1>6, <1>7, <1>8

-----------------------------------------------------------------------------
(* How many samples are whole, and files that do not end with the value of *)
(* their last sample.                                                      *)
WholeOf(q, r, torn) == IF torn /\ r = 0 THEN q - 1 ELSE q
CutShort(t, r, torn) == t.ended \/ r # 0 \/ torn

(* The samples that are whole are no more than those that are there.       *)
LEMMA WholeTyped ==
  ASSUME NEW t, NEW head, NEW q, NEW r, NEW torn, Shape(t, head, q, r, torn)
  PROVE  WholeOf(q, r, torn) \in Nat /\ WholeOf(q, r, torn) <= q
BY FileAssumption DEF Shape, WholeOf

(* As many lines with a value as samples.                                  *)
LEMMA LinesOfSamples ==
  ASSUME NEW w \in Nat
  PROVE  Cardinality({Line(n, 0) : n \in 1..w}) = w
<1> DEFINE f == [n \in 1..w |-> Line(n, 0)]
           S == {Line(n, 0) : n \in 1..w}
<1>1. f \in Bijection(1..w, S)
  <2>1. \A m, n : Line(m, 0) = Line(n, 0) => m = n
    BY DEF Line
  <2> QED
    BY <2>1 DEF Bijection, Injection, Surjection, IsInjective
<1>2. IsFiniteSet(1..w) /\ Cardinality(1..w) = w
  BY FS_Interval
<1> HIDE DEF f, S
<1>3. Cardinality(S) = w
  BY <1>1, <1>2, FS_Bijection DEF ExistsBijection
<1> QED
  BY <1>3 DEF S

(* The number of whole samples, counted by their values, is what the shape *)
(* of the file says.                                                       *)
LEMMA WholeIs ==
  ASSUME NEW head, NEW q, NEW r, NEW torn, Shape(text, head, q, r, torn)
  PROVE  Whole = WholeOf(q, r, torn)
<1>1. PICK w \in Nat : w = WholeOf(q, r, torn)
  BY WholeTyped
<1>2. /\ head \in {0, 1} /\ q \in Nat /\ r \in 0..Rows /\ torn \in BOOLEAN
      /\ Holds(text.lines, head, q, r, torn)
  BY DEF Shape
<1>3. PICK lines, S : lines = text.lines /\ lines \in Seq(S)
  BY <1>2 DEF Holds, IsSequence
<1>4. /\ Len(lines) = head + At(q, r) /\ At(q, r) \in Nat /\ DOMAIN lines = 1..Len(lines)
      /\ head = 1 => lines[1] = Heading
      /\ \A n \in Nat, m \in 0..Rows :
           At(n, m) < At(q, r) =>
             lines[head + At(n, m) + 1] = BodyLine(n, m, torn /\ At(n, m) + 1 = At(q, r))
  BY <1>2, <1>3, AtOrders DEF Holds
<1>r. Rows \in 0..Rows /\ 0 \in 0..Rows /\ Rows > 0
  BY FileAssumption
<1> DEFINE All == {l \in ToSet(text.lines) : l.of > 0 /\ l.row = 0 /\ ~l.torn}
<1>5. ASSUME NEW n \in 1..w
      PROVE  Line(n, 0) \in All
  <2>1. PICK p \in Nat : n = p + 1 /\ p < q
    <3>1. n - 1 \in Nat /\ n = (n - 1) + 1 /\ n - 1 < q
      BY <1>1, <1>2 DEF WholeOf
    <3> QED
      BY <3>1
  <2>2. At(p, Rows) \in Nat /\ At(p, Rows) < At(q, r) /\ At(p, Rows) + 1 = At(p + 1, 0)
    BY <1>2, <1>r, <2>1, AtOrders
  <2>3. ~(torn /\ At(p, Rows) + 1 = At(q, r))
    <3>1. p + 1 \in Nat
      OBVIOUS
    <3>2. At(p + 1, 0) = At(q, r) => p + 1 = q /\ r = 0
      BY <1>2, <1>r, <3>1, AtOrders
    <3> QED
      BY <1>1, <1>2, <2>1, <2>2, <3>2 DEF WholeOf
  <2>4. lines[head + At(p, Rows) + 1] = BodyLine(p, Rows, FALSE)
    <3>1. (torn /\ At(p, Rows) + 1 = At(q, r)) = FALSE
      BY <2>3
    <3> QED
      BY <1>4, <1>r, <2>1, <2>2, <3>1
  <2>5. head + At(p, Rows) + 1 \in DOMAIN lines
    BY <1>2, <1>4, <2>2
  <2>6. BodyLine(p, Rows, FALSE) = Line(n, 0)
    BY <2>1 DEF BodyLine, Line
  <2>7. Line(n, 0) \in ToSet(text.lines)
    BY <1>3, <2>4, <2>5, <2>6 DEF ToSet
  <2>8. Line(n, 0).of > 0 /\ Line(n, 0).row = 0 /\ ~Line(n, 0).torn
    BY DEF Line
  <2> QED
    BY <2>7, <2>8
<1>6. ASSUME NEW l \in All
      PROVE  \E n \in 1..w : l = Line(n, 0)
  <2>1. PICK i \in 1..Len(lines) : l = lines[i]
    BY <1>3, <1>4 DEF ToSet
  <2>2. l.of > 0 /\ l.row = 0 /\ ~l.torn
    OBVIOUS
  <2>3. i > head
    <3>1. CASE i <= head
      <4>1. i = 1 /\ head = 1
        BY <1>2, <3>1
      <4> QED
        BY <1>4, <2>1, <2>2, <4>1 DEF Heading, Line
    <3> QED
      BY <1>2, <3>1
  <2>4. PICK p \in Nat : i = head + p + 1 /\ p < At(q, r)
    <3>1. i - head - 1 \in Nat /\ i = head + (i - head - 1) + 1 /\ i - head - 1 < At(q, r)
      BY <1>2, <1>4, <2>3
    <3> QED
      BY <3>1
  <2>5. PICK n \in Nat, m \in 0..Rows : p = At(n, m)
    BY AtExists
  <2>6. PICK tear : tear = (torn /\ At(n, m) + 1 = At(q, r)) /\ tear \in BOOLEAN
    OBVIOUS
  <2>7. l = [of |-> n + 1, row |-> IF m = Rows THEN 0 ELSE m + 1, torn |-> tear]
    BY <1>4, <2>1, <2>4, <2>5, <2>6 DEF BodyLine
  <2>8. m = Rows /\ ~tear
    BY <1>r, <2>2, <2>7
  <2>9. n < q /\ At(n, m) + 1 = At(n + 1, 0)
    BY <1>2, <1>r, <2>4, <2>5, <2>8, AtOrders
  <2>10. n + 1 \in 1..w
    <3>1. torn /\ r = 0 => n + 1 # q
      BY <2>6, <2>8, <2>9
    <3> QED
      BY <1>1, <1>2, <2>9, <3>1 DEF WholeOf
  <2>11. l = Line(n + 1, 0)
    <3>1. tear = FALSE
      BY <2>6, <2>8
    <3> QED
      BY <2>7, <2>8, <3>1 DEF Line
  <2> QED
    BY <2>10, <2>11
<1>7. All = {Line(n, 0) : n \in 1..w}
  <2> HIDE DEF All
  <2> QED
    BY <1>5, <1>6
<1> HIDE DEF All
<1> QED
  BY <1>1, <1>7, LinesOfSamples DEF Whole, All

(* How far the reader has got.  Before each call of fscan_training_digit   *)
(* every sample is whole and read to its end, or the one that is not was   *)
(* the last.  Within a call it is at a line of the next sample, or at the  *)
(* end of a file that has no more whole samples.                           *)
RowsOf(n, m) == [k \in 1..m |-> Line(n, k)]

WithinFile(t, head, q, r) ==
  /\ got < head + At(q, r) /\ ~past
  /\ \E m \in 0..Rows :
       /\ rows = RowsOf(Len(samples) + 1, m) /\ (doing = "value" <=> m = Rows)
       /\ \/ got = head + At(Len(samples), m)
          \/ Len(samples) = 0 /\ m = 0 /\ got = 0

Reached(t, head, q, r, torn) ==
  LET n == Len(samples)
      w == WholeOf(q, r, torn)
      size == head + At(q, r)
  IN /\ \A k \in 1..n : k <= w => samples[k] = Sample(k)
     /\ n <= w + 1 /\ got \in 0..size /\ doing \in {"file", "row", "value"}
     /\ doing = "file" /\ n <= w =>
          /\ got = IF n = 0 THEN 0 ELSE head + At(n, 0)
          /\ past <=> n > 0 /\ got = size /\ ~t.ended
     /\ doing = "file" /\ n > w => past /\ CutShort(t, r, torn)
     /\ doing # "file" =>
          /\ n <= w
          /\ \/ got = size /\ n = w /\ CutShort(t, r, torn)
             \/ WithinFile(t, head, q, r)

FileInv ==
  /\ IsSequence(samples)
  /\ \/ text = NoText /\ past = FALSE
     \/ \E head, q, r, torn : Shape(text, head, q, r, torn) /\ Reached(text, head, q, r, torn)

(* A line more of the picture that is being read.                          *)
LEMMA OneMoreRow ==
  ASSUME NEW n \in Nat, NEW m \in Nat
  PROVE  /\ Append(RowsOf(n, m), Line(n, m + 1)) = RowsOf(n, m + 1)
         /\ Len(RowsOf(n, m)) = m
<1> DEFINE S == {Line(n, k) : k \in Nat}
           longer == Append(RowsOf(n, m), Line(n, m + 1))
<1>1. \A l \in Nat : RowsOf(n, l) \in [1..l -> S]
  BY DEF RowsOf
<1>2. \A l \in Nat : RowsOf(n, l) \in Seq(S) /\ Len(RowsOf(n, l)) = l
  <2> HIDE DEF S
  <2> QED
    BY <1>1
<1>3. /\ longer \in Seq(S) /\ Len(longer) = m + 1 /\ longer[m + 1] = Line(n, m + 1)
      /\ \A k \in 1..m : longer[k] = RowsOf(n, m)[k]
  <2>1. Line(n, m + 1) \in S
    OBVIOUS
  <2> HIDE DEF S
  <2>2. PICK a, x : a = RowsOf(n, m) /\ x = Line(n, m + 1)
    OBVIOUS
  <2>3. a \in Seq(S) /\ x \in S /\ Len(a) = m
    BY <1>2, <2>1, <2>2
  <2> QED
    BY <2>2, <2>3, AppendLaws
<1>4. \A k \in 1..m + 1 : longer[k] = RowsOf(n, m + 1)[k]
  <2>1. \A k \in 1..m + 1 : k = m + 1 \/ k \in 1..m
    OBVIOUS
  <2> HIDE DEF longer
  <2> QED
    BY <1>3, <2>1 DEF RowsOf
<1> HIDE DEF longer, S
<1>5. longer = RowsOf(n, m + 1)
  BY <1>2, <1>3, <1>4, SameSequence
<1> QED
  BY <1>2, <1>5 DEF longer

(* The parts of a shape, and the length of the file.                       *)
LEMMA ShapeTyped ==
  ASSUME NEW t, NEW head, NEW q, NEW r, NEW torn, Shape(t, head, q, r, torn)
  PROVE  /\ head \in {0, 1} /\ q \in Nat /\ r \in 0..Rows /\ torn \in BOOLEAN
         /\ At(q, r) \in Nat /\ head + At(q, r) \in Nat
         /\ Len(t.lines) = head + At(q, r)
<1>1. /\ head \in {0, 1} /\ q \in Nat /\ r \in 0..Rows /\ torn \in BOOLEAN
      /\ Len(t.lines) = head + At(q, r)
  BY DEF Shape, Holds
<1>2. At(q, r) \in Nat
  BY <1>1, AtOrders
<1> QED
  BY <1>1, <1>2

(* Of a file that has just been opened nothing was read.                   *)
LEMMA OpenReached ==
  ASSUME NEW t \in Left, Open(t) \/ (text' = t /\ Opened(t)')
  PROVE  FileInv'
<1>1. /\ text' = t /\ got' = 0 /\ past' = FALSE /\ doing' = "file" /\ samples' = << >>
  BY DEF Open, Opened
<1>2. IsSequence(samples') /\ Len(samples') = 0
  BY <1>1, EmptyLaws DEF IsSequence
<1>3. ASSUME t # NoText
      PROVE  \E head, q, r, torn :
               Shape(t, head, q, r, torn) /\ Reached(t, head, q, r, torn)'
  <2>1. PICK head, q, r, torn : Shape(t, head, q, r, torn)
    BY <1>3, LeftShaped
  <2>2. WholeOf(q, r, torn) \in Nat /\ head + At(q, r) \in Nat
    BY <2>1, WholeTyped, ShapeTyped
  <2>3. Reached(t, head, q, r, torn)'
    BY <1>1, <1>2, <2>2 DEF Reached
  <2> QED
    BY <2>1, <2>3
<1> QED
  BY <1>1, <1>2, <1>3 DEF FileInv

(* The three steps of the reader: a sample is begun ...                    *)
LEMMA DigitReached ==
  ASSUME NEW head, NEW q, NEW r, NEW torn, Shape(text, head, q, r, torn),
         Reached(text, head, q, r, torn), IsSequence(samples), Digit
  PROVE  Reached(text, head, q, r, torn)'
<1>1. PICK n, w, size : n = Len(samples) /\ w = WholeOf(q, r, torn) /\ size = head + At(q, r)
  OBVIOUS
<1>2. /\ n \in Nat /\ w \in Nat /\ size \in Nat
      /\ head \in {0, 1} /\ q \in Nat /\ r \in 0..Rows /\ torn \in BOOLEAN
  <2>1. n \in Nat
    BY <1>1, OneMoreSample
  <2>2. w \in Nat
    BY <1>1, WholeTyped
  <2> QED
    BY <1>1, <2>1, <2>2, ShapeTyped
<1>3. /\ doing = "file" /\ ~past /\ doing' = "row" /\ rows' = << >>
      /\ UNCHANGED <<text, got, past, samples>>
  BY DEF Digit
<1>4. /\ \A k \in 1..n : k <= w => samples[k] = Sample(k)
      /\ n <= w + 1 /\ got \in 0..size
      /\ n <= w => (got = IF n = 0 THEN 0 ELSE head + At(n, 0))
      /\ n <= w => (past <=> n > 0 /\ got = size /\ ~text.ended)
      /\ n > w => past /\ CutShort(text, r, torn)
  BY <1>1, <1>3 DEF Reached
<1>5. n <= w
  BY <1>2, <1>3, <1>4
<1>6. Rows \in Nat \ {0} /\ 0 \in 0..Rows /\ At(0, 0) = 0
  BY FileAssumption, AtOrders
<1>7. CASE got = size
  <2>1. n = w /\ CutShort(text, r, torn)
    <3>1. CASE n = 0
      <4>1. At(q, r) = At(0, 0)
        BY <1>1, <1>2, <1>4, <1>5, <1>6, <1>7, <3>1, ShapeTyped
      <4>2. q = 0 /\ r = 0
        BY <1>2, <1>6, <4>1, AtOrders
      <4>3. text.ended /\ ~torn
        BY <4>2 DEF Shape
      <4> QED
        BY <1>1, <3>1, <4>2, <4>3 DEF WholeOf, CutShort
    <3>2. CASE n # 0
      <4>1. At(n, 0) \in Nat /\ At(q, r) \in Nat
        BY <1>2, <1>6, AtOrders
      <4>2. head + At(n, 0) = head + At(q, r)
        BY <1>1, <1>4, <1>5, <1>7, <3>2
      <4>3. At(n, 0) = At(q, r)
        BY <1>2, <4>1, <4>2
      <4>4. n = q /\ r = 0
        BY <1>2, <1>6, <4>3, AtOrders
      <4>5. text.ended
        BY <1>2, <1>3, <1>4, <1>5, <1>7, <3>2
      <4>6. ~torn
        BY <4>5 DEF Shape
      <4> QED
        BY <1>1, <4>4, <4>5, <4>6 DEF WholeOf, CutShort
    <3> QED
      BY <3>1, <3>2
  <2> QED
    BY <1>1, <1>3, <1>4, <1>5, <1>7, <2>1 DEF Reached, CutShort
<1>8. CASE got # size
  <2>1. WithinFile(text, head, q, r)'
    <3>1. got' < size /\ ~past'
      BY <1>2, <1>3, <1>4, <1>8
    <3>2. rows' = RowsOf(n + 1, 0)
      <4>1. 1..0 = {}
        OBVIOUS
      <4> QED
        BY <1>3, <4>1 DEF RowsOf
    <3>3. doing' # "value" /\ 0 # Rows
      BY <1>3, <1>6
    <3>4. got' = head + At(n, 0) \/ (n = 0 /\ got' = 0)
      BY <1>3, <1>4, <1>5
    <3>5. Len(samples') = n
      BY <1>1, <1>3
    <3> QED
      BY <1>1, <1>6, <3>1, <3>2, <3>3, <3>4, <3>5 DEF WithinFile
  <2> QED
    BY <1>1, <1>3, <1>4, <1>5, <2>1 DEF Reached
<1> QED
  BY <1>7, <1>8

(* ... a line is taken, skipped, or taken again at the end of the file ... *)
LEMMA RowReached ==
  ASSUME NEW head, NEW q, NEW r, NEW torn, Shape(text, head, q, r, torn),
         Reached(text, head, q, r, torn), IsSequence(samples), Row
  PROVE  Reached(text, head, q, r, torn)'
<1>1. PICK n, w, size : n = Len(samples) /\ w = WholeOf(q, r, torn) /\ size = head + At(q, r)
  OBVIOUS
<1>2. /\ n \in Nat /\ w \in Nat /\ size \in Nat /\ Len(text.lines) = size
      /\ head \in {0, 1} /\ q \in Nat /\ r \in 0..Rows /\ torn \in BOOLEAN
      /\ At(q, r) \in Nat
  <2>1. n \in Nat
    BY <1>1, OneMoreSample
  <2>2. w \in Nat
    BY <1>1, WholeTyped
  <2> QED
    BY <1>1, <2>1, <2>2, ShapeTyped
<1>3. /\ doing = "row" /\ Gets /\ UNCHANGED <<text, samples>>
      /\ rows' = IF IsRow(line') THEN Append(rows, line') ELSE rows
      /\ doing' = IF Len(rows') = Rows THEN "value" ELSE "row"
  BY DEF Row
<1>4. /\ \A k \in 1..n : k <= w => samples[k] = Sample(k)
      /\ n <= w + 1 /\ got \in 0..size /\ n <= w
      /\ \/ got = size /\ n = w /\ CutShort(text, r, torn)
         \/ WithinFile(text, head, q, r)
  BY <1>1, <1>3 DEF Reached
<1>5. Rows \in Nat \ {0} /\ 0 \in 0..Rows /\ At(0, 0) = 0
  BY FileAssumption, AtOrders
<1>e. ASSUME got' = size, n = w, CutShort(text, r, torn)
      PROVE  Reached(text, head, q, r, torn)'
  <2>1. doing' \in {"row", "value"} /\ got' \in 0..size
    BY <1>2, <1>3, <1>e
  <2> QED
    BY <1>1, <1>3, <1>4, <1>e, <2>1 DEF Reached, CutShort
<1>6. CASE got = size
  <2>1. got' = got
    BY <1>2, <1>3, <1>6 DEF Gets
  <2>2. n = w /\ CutShort(text, r, torn)
    BY <1>1, <1>4, <1>6, <1>2 DEF WithinFile
  <2> QED
    BY <1>6, <1>e, <2>1, <2>2
<1>7. CASE got # size
  <2>1. WithinFile(text, head, q, r)
    BY <1>4, <1>7
  <2>2. PICK m \in 0..Rows :
          /\ rows = RowsOf(n + 1, m) /\ m # Rows
          /\ \/ got = head + At(n, m)
             \/ n = 0 /\ m = 0 /\ got = 0
    BY <1>1, <1>3, <2>1 DEF WithinFile
  <2>3. /\ got < size /\ ~past /\ got' = got + 1 /\ line' = text.lines[got + 1]
        /\ got' # size => ~past'
        /\ got' \in 0..size
    <3>1. got < size /\ ~past
      BY <1>1, <2>1 DEF WithinFile
    <3>2. got' = got + 1 /\ line' = text.lines[got + 1]
      BY <1>2, <1>3, <3>1 DEF Gets
    <3>3. past' <=> text.there /\ (past \/ got = size \/ (got + 1 = size /\ ~text.ended))
      BY <1>2, <1>3 DEF Gets
    <3>4. got' # size => ~past'
      BY <3>1, <3>2, <3>3, <1>7
    <3> QED
      BY <1>2, <1>4, <3>1, <3>2, <3>4
  <2>w. ASSUME NEW l \in 0..Rows, got' # size, rows' = RowsOf(n + 1, l),
               got' = head + At(n, l), doing' = "value" <=> l = Rows
        PROVE  Reached(text, head, q, r, torn)'
    <3>1. doing' \in {"row", "value"} /\ got' < size
      BY <1>2, <1>3, <2>3, <2>w
    <3>2. Len(samples') = n /\ text' = text /\ samples' = samples
      BY <1>1, <1>3
    <3>3. WithinFile(text, head, q, r)'
      BY <1>1, <2>3, <2>w, <3>1, <3>2 DEF WithinFile
    <3> QED
      BY <1>1, <1>4, <2>3, <3>1, <3>2, <3>3 DEF Reached
  <2>4. CASE got = 0 /\ head = 1
    <3>1. n = 0 /\ m = 0
      <4>1. At(n, m) \in Nat
        BY <1>2, AtOrders
      <4> QED
        BY <2>2, <2>4, <4>1
    <3>2. line' = Heading
      BY <2>3, <2>4 DEF Shape, Holds
    <3>3. rows' = rows /\ rows = RowsOf(n + 1, 0) /\ Len(rows) = 0
      <4>1. ~IsRow(line')
        BY <3>2 DEF IsRow, Heading, Line
      <4>2. Len(RowsOf(n + 1, 0)) = 0
        BY <1>2, OneMoreRow
      <4> QED
        BY <1>3, <2>2, <3>1, <4>1, <4>2
    <3>4. doing' = "row"
      BY <1>3, <1>5, <3>3
    <3>5. CASE got' = size
      <4>1. At(q, r) = At(0, 0)
        BY <1>1, <1>2, <1>5, <2>3, <2>4, <3>5
      <4>2. q = 0 /\ r = 0
        BY <1>2, <1>5, <4>1, AtOrders
      <4>3. text.ended /\ ~torn
        BY <4>2 DEF Shape
      <4>4. n = w /\ CutShort(text, r, torn)
        BY <1>1, <3>1, <4>2, <4>3 DEF WholeOf, CutShort
      <4> QED
        BY <1>e, <3>5, <4>4
    <3>6. CASE got' # size
      <4>1. got' = head + At(n, 0)
        BY <1>5, <2>3, <2>4, <3>1
      <4>2. doing' = "value" <=> 0 = Rows
        BY <1>5, <3>4
      <4> QED
        BY <1>5, <2>w, <3>3, <3>6, <4>1, <4>2
    <3> QED
      BY <3>5, <3>6
  <2>5. CASE ~(got = 0 /\ head = 1)
    <3>1. got = head + At(n, m)
      BY <1>2, <1>5, <2>2, <2>5
    <3>2. m < Rows /\ m + 1 \in 0..Rows /\ m \in Nat
      BY <1>5, <2>2
    <3>3. At(n, m) \in Nat /\ At(n, m) < At(q, r) /\ At(n, m) + 1 = At(n, m + 1)
      <4>1. At(n, m) \in Nat /\ At(n, m) + 1 = At(n, m + 1)
        <5>1. n \in Nat /\ m \in 0..Rows /\ m < Rows
          BY <1>2, <3>2
        <5>2. At(n, m) \in Nat
          BY <5>1, AtOrders
        <5>3. At(n, m) + 1 = At(n, m + 1)
          BY <5>1, AtOrders
        <5> QED
          BY <5>2, <5>3
      <4>2. head + At(n, m) < head + At(q, r)
        BY <1>1, <2>3, <3>1
      <4>3. At(n, m) < At(q, r)
        BY <1>2, <4>1, <4>2
      <4> QED
        BY <4>1, <4>3
    <3>4. PICK tear : tear = (torn /\ At(n, m) + 1 = At(q, r)) /\ tear \in BOOLEAN
      OBVIOUS
    <3>5. line' = [of |-> n + 1, row |-> m + 1, torn |-> tear]
      <4>1. line' = BodyLine(n, m, tear)
        BY <1>2, <2>3, <3>1, <3>3, <3>4 DEF Shape, Holds
      <4> QED
        BY <2>2, <4>1 DEF BodyLine
    <3>6. rows' = Append(rows, line')
      <4>1. IsRow(line')
        BY <3>2, <3>5 DEF IsRow
      <4> QED
        BY <1>3, <4>1
    <3>7. got' = head + At(n, m + 1)
      BY <1>2, <2>3, <3>1, <3>3
    <3>8. CASE got' = size
      <4>1. At(n, m + 1) = At(q, r)
        BY <1>1, <1>2, <3>3, <3>7, <3>8
      <4>2. n = q /\ m + 1 = r
        BY <1>2, <3>2, <4>1, AtOrders
      <4>3. n = w /\ CutShort(text, r, torn)
        BY <1>1, <3>2, <4>2 DEF WholeOf, CutShort
      <4> QED
        BY <1>e, <3>8, <4>3
    <3>9. CASE got' # size
      <4>1. At(n, m) + 1 # At(q, r)
        BY <1>1, <1>2, <3>3, <3>7, <3>9
      <4>2. line' = Line(n + 1, m + 1)
        <5>1. tear = FALSE
          BY <3>4, <4>1
        <5> QED
          BY <3>5, <5>1 DEF Line
      <4>3. rows' = RowsOf(n + 1, m + 1) /\ Len(rows') = m + 1
        <5>1. /\ Append(RowsOf(n + 1, m), Line(n + 1, m + 1)) = RowsOf(n + 1, m + 1)
              /\ Len(RowsOf(n + 1, m + 1)) = m + 1
          <6>1. PICK x \in Nat : x = n + 1
            BY <1>2
          <6>2. /\ Append(RowsOf(x, m), Line(x, m + 1)) = RowsOf(x, m + 1)
                /\ \A k \in Nat : Len(RowsOf(x, k)) = k
            BY <3>2, <6>1, OneMoreRow
          <6>3. Len(RowsOf(x, m + 1)) = m + 1
            BY <3>2, <6>2
          <6> QED
            BY <6>1, <6>2, <6>3
        <5> QED
          BY <2>2, <3>6, <4>2, <5>1
      <4>4. doing' = "value" <=> m + 1 = Rows
        BY <1>3, <4>3
      <4> QED
        BY <2>w, <3>2, <3>7, <3>9, <4>3, <4>4
    <3> QED
      BY <3>8, <3>9
  <2> QED
    BY <2>4, <2>5
<1> QED
  BY <1>6, <1>7

(* ... and the sample is put into the array, whole or as the last one.     *)
LEMMA ValueReached ==
  ASSUME NEW head, NEW q, NEW r, NEW torn, Shape(text, head, q, r, torn),
         Reached(text, head, q, r, torn), IsSequence(samples), Value
  PROVE  Reached(text, head, q, r, torn)'
<1>1. PICK n, w, size : n = Len(samples) /\ w = WholeOf(q, r, torn) /\ size = head + At(q, r)
  OBVIOUS
<1>2. /\ n \in Nat /\ w \in Nat /\ size \in Nat /\ Len(text.lines) = size
      /\ head \in {0, 1} /\ q \in Nat /\ r \in 0..Rows /\ torn \in BOOLEAN
      /\ At(q, r) \in Nat /\ text.there
      /\ torn => ~text.ended
  <2>1. n \in Nat
    BY <1>1, OneMoreSample
  <2>2. w \in Nat
    BY <1>1, WholeTyped
  <2>3. text.there /\ (torn => ~text.ended)
    BY DEF Shape
  <2> QED
    BY <1>1, <2>1, <2>2, <2>3, ShapeTyped
<1>3. /\ doing = "value" /\ Gets /\ doing' = "file" /\ text' = text
      /\ samples' = Append(samples, [rows |-> rows, value |-> line'])
  BY DEF Value
<1>4. /\ \A k \in 1..n : k <= w => samples[k] = Sample(k)
      /\ got \in 0..size /\ n <= w
      /\ \/ got = size /\ n = w /\ CutShort(text, r, torn)
         \/ WithinFile(text, head, q, r)
  BY <1>1, <1>3 DEF Reached
<1>5. Rows \in Nat \ {0} /\ 0 \in 0..Rows /\ Rows \in 0..Rows
  BY FileAssumption
<1>6. PICK s : s = [rows |-> rows, value |-> line']
  OBVIOUS
<1>7. /\ Len(samples') = n + 1 /\ samples'[n + 1] = s
      /\ \A k \in 1..n : samples'[k] = samples[k]
  BY <1>1, <1>3, <1>6, OneMoreSample
<1>8. \A k \in 1..n + 1 : k = n + 1 \/ k \in 1..n
  BY <1>2
<1>e. ASSUME n = w, got' \in 0..size, past', CutShort(text, r, torn)
      PROVE  Reached(text, head, q, r, torn)'
  <2>1. \A k \in 1..n + 1 : k <= w => samples'[k] = Sample(k)
    BY <1>2, <1>4, <1>7, <1>8, <1>e
  <2>2. n + 1 <= w + 1 /\ ~(n + 1 <= w)
    BY <1>2, <1>e
  <2>3. CutShort(text, r, torn)'
    BY <1>3, <1>e DEF CutShort
  <2> QED
    BY <1>1, <1>3, <1>7, <1>e, <2>1, <2>2, <2>3 DEF Reached
<1>9. CASE got = size
  <2>1. got' = got /\ past'
    <3>1. ~(got < Len(text.lines)) /\ got = Len(text.lines)
      BY <1>2, <1>9
    <3>2. got' = got
      BY <1>3, <3>1 DEF Gets
    <3>3. past' = (text.there /\ (past \/ got = Len(text.lines)
                                       \/ (got + 1 = Len(text.lines) /\ ~text.ended)))
      BY <1>3 DEF Gets
    <3>4. past'
      BY <1>2, <3>1, <3>3
    <3> QED
      BY <3>2, <3>4
  <2>2. n = w /\ CutShort(text, r, torn)
    BY <1>1, <1>4, <1>9, <1>2 DEF WithinFile
  <2> QED
    BY <1>4, <1>e, <2>1, <2>2
<1>10. CASE got # size
  <2>1. /\ rows = RowsOf(n + 1, Rows) /\ got = head + At(n, Rows)
        /\ got < size /\ ~past
    <3>1. WithinFile(text, head, q, r)
      BY <1>4, <1>10
    <3>2. PICK m \in 0..Rows :
            /\ rows = RowsOf(n + 1, m) /\ m = Rows
            /\ \/ got = head + At(n, m)
               \/ n = 0 /\ m = 0 /\ got = 0
      BY <1>1, <1>3, <3>1 DEF WithinFile
    <3>3. got < size /\ ~past
      BY <1>1, <3>1 DEF WithinFile
    <3> QED
      BY <1>5, <3>2, <3>3
  <2>2. At(n, Rows) \in Nat /\ At(n, Rows) + 1 = At(n + 1, 0) /\ At(n, Rows) < At(q, r) /\ n < q
    <3>1. At(n, Rows) \in Nat
      BY <1>2, <1>5, AtOrders
    <3>2. At(n, Rows) + 1 = At(n + 1, 0)
      BY <1>2, <1>5, AtOrders
    <3>3. head + At(n, Rows) < head + At(q, r)
      BY <1>1, <2>1
    <3>4. At(n, Rows) < At(q, r)
      BY <1>2, <3>1, <3>3
    <3>5. n < q \/ (n = q /\ Rows < r)
      BY <1>2, <1>5, <3>4, AtOrders
    <3> QED
      BY <1>2, <1>5, <3>1, <3>2, <3>4, <3>5
  <2>3. got' = got + 1 /\ line' = text.lines[got + 1]
    BY <1>2, <1>3, <2>1 DEF Gets
  <2>4. past' <=> got' = size /\ ~text.ended
    <3>1. past' <=> text.there /\ (past \/ got = size \/ (got + 1 = size /\ ~text.ended))
      BY <1>2, <1>3 DEF Gets
    <3> QED
      BY <1>2, <1>10, <2>1, <2>3, <3>1
  <2>5. got' = head + At(n + 1, 0) /\ got' \in 0..size
    BY <1>2, <1>4, <2>1, <2>2, <2>3
  <2>6. PICK tear : tear = (torn /\ At(n, Rows) + 1 = At(q, r)) /\ tear \in BOOLEAN
    OBVIOUS
  <2>7. line' = [of |-> n + 1, row |-> 0, torn |-> tear]
    <3>1. line' = BodyLine(n, Rows, tear)
      BY <1>2, <1>5, <2>1, <2>2, <2>3, <2>6 DEF Shape, Holds
    <3> QED
      BY <3>1 DEF BodyLine
  <2>8. At(n + 1, 0) = At(q, r) <=> n + 1 = q /\ r = 0
    <3>1. PICK x \in Nat : x = n + 1
      BY <1>2
    <3>2. At(x, 0) = At(q, r) => x = q /\ 0 = r
      BY <1>2, <1>5, AtOrders
    <3>3. x = q /\ 0 = r => At(x, 0) = At(q, r)
      OBVIOUS
    <3> QED
      BY <3>1, <3>2, <3>3
  <2>9. CASE tear
    <3>1. torn /\ n + 1 = q /\ r = 0
      BY <2>2, <2>6, <2>8, <2>9
    <3>2. n = w
      BY <1>1, <1>2, <3>1 DEF WholeOf
    <3>3. past'
      BY <1>1, <1>2, <2>2, <2>4, <2>5, <2>6, <2>9
    <3> QED
      BY <1>e, <2>5, <3>1, <3>2, <3>3 DEF CutShort
  <2>10. CASE ~tear
    <3>1. n + 1 <= w
      <4>1. CASE torn /\ r = 0
        <5>1. n + 1 # q
          BY <2>2, <2>6, <2>8, <2>10, <4>1
        <5> QED
          BY <1>1, <1>2, <2>2, <4>1, <5>1 DEF WholeOf
      <4>2. CASE ~(torn /\ r = 0)
        BY <1>1, <1>2, <2>2, <4>2 DEF WholeOf
      <4> QED
        BY <4>1, <4>2
    <3>2. s = Sample(n + 1)
      <4>1. line' = Line(n + 1, 0)
        <5>1. tear = FALSE
          BY <2>6, <2>10
        <5> QED
          BY <2>7, <5>1 DEF Line
      <4>2. rows = [k \in 1..Rows |-> Line(n + 1, k)]
        BY <2>1 DEF RowsOf
      <4> QED
        BY <1>6, <4>1, <4>2 DEF Sample
    <3>3. \A k \in 1..n + 1 : k <= w => samples'[k] = Sample(k)
      BY <1>4, <1>7, <1>8, <3>2
    <3>4. n + 1 > 0 /\ n + 1 # 0 /\ n + 1 <= w + 1 /\ ~(n + 1 > w)
      BY <1>2, <3>1
    <3> QED
      BY <1>1, <1>3, <1>7, <2>4, <2>5, <3>1, <3>3, <3>4 DEF Reached
  <2> QED
    BY <2>9, <2>10
<1> QED
  BY <1>9, <1>10

(* The reader is where FileInv says, in every file and at any time.        *)
LEMMA FileInvariant == SpecOcr => []FileInv
<1>1. InitOcr => FileInv
  <2>1. ASSUME NEW t \in Left, Opened(t)
        PROVE  FileInv
    <3>1. /\ text = t /\ got = 0 /\ past = FALSE /\ doing = "file" /\ samples = << >>
      BY <2>1 DEF Opened
    <3>2. IsSequence(samples) /\ Len(samples) = 0
      BY <3>1, EmptyLaws DEF IsSequence
    <3>3. ASSUME t # NoText
          PROVE  \E head, q, r, torn :
                   Shape(t, head, q, r, torn) /\ Reached(t, head, q, r, torn)
      <4>1. PICK head, q, r, torn : Shape(t, head, q, r, torn)
        BY <3>3, LeftShaped
      <4>2. WholeOf(q, r, torn) \in Nat /\ head + At(q, r) \in Nat
        BY <4>1, WholeTyped, ShapeTyped
      <4>3. Reached(t, head, q, r, torn)
        BY <3>1, <3>2, <4>2 DEF Reached
      <4> QED
        BY <4>1, <4>3
    <3> QED
      BY <3>1, <3>2, <3>3 DEF FileInv
  <2> QED
    BY <2>1 DEF InitOcr
<1>2. FileInv /\ [NextOcr]_ocrVars => FileInv'
  <2> SUFFICES ASSUME FileInv, [NextOcr]_ocrVars
               PROVE  FileInv'
    OBVIOUS
  <2>1. ASSUME UNCHANGED readerVars
        PROVE  FileInv'
    <3>1. UNCHANGED <<text, got, past, doing, line, rows, samples>>
      BY <2>1 DEF readerVars
    <3> QED
      BY <3>1 DEF FileInv, Reached, WithinFile
  <2>2. ASSUME NEW t \in Left, Open(t)
        PROVE  FileInv'
    BY <2>2, OpenReached
  <2>3. NoText \in Left
    BY DEF Left
  <2>4. ASSUME NextRead
        PROVE  FileInv'
    <3>1. IsSequence(samples')
      <4>1. CASE UNCHANGED samples
        BY <4>1 DEF FileInv
      <4>2. CASE Value
        <5>1. PICK s : samples' = Append(samples, s)
          BY <4>2 DEF Value
        <5> QED
          BY <5>1, OneMoreSample DEF FileInv
      <4> QED
        BY <2>4, <4>1, <4>2 DEF NextRead, Digit, Row
    <3>2. text' = text
      BY <2>4 DEF NextRead, Digit, Row, Value
    <3>3. CASE text = NoText /\ past = FALSE
      <4>1. past' = FALSE
        BY <2>4, <3>3 DEF NextRead, Digit, Row, Value, Gets, NoText
      <4> QED
        BY <3>1, <3>2, <3>3, <4>1 DEF FileInv
    <3>4. ASSUME NEW head, NEW q, NEW r, NEW torn,
                 Shape(text, head, q, r, torn), Reached(text, head, q, r, torn)
          PROVE  FileInv'
      <4>1. Reached(text, head, q, r, torn)'
        BY <2>4, <3>4, DigitReached, RowReached, ValueReached DEF NextRead, FileInv
      <4>2. Shape(text', head, q, r, torn)
        BY <3>2, <3>4
      <4> QED
        BY <3>1, <4>1, <4>2 DEF FileInv
    <3> QED
      BY <3>3, <3>4 DEF FileInv
  <2>5. CASE Read
    BY <2>4, <2>5 DEF Read
  <2>6. CASE EndTraining
    BY <2>2, <2>6 DEF EndTraining
  <2>7. CASE EndValidation \/ NoValidation
    BY <2>2, <2>3, <2>7 DEF EndValidation, NoValidation, Validated
  <2>8. CASE UNCHANGED ocrVars
    BY <2>1, <2>8 DEF ocrVars
  <2>9. CASE UNCHANGED readerVars
    BY <2>1, <2>9
  <2> QED
    BY <2>5, <2>6, <2>7, <2>8, <2>9 DEF NextOcr, Work, Fail, Overflow
<1> QED
  BY <1>1, <1>2, PTL DEF SpecOcr

(* A file that is missing has no samples.                                  *)
LEMMA NoSampleWithoutFile ==
  ASSUME text = NoText
  PROVE  Whole = 0
<1>1. {l \in ToSet(text.lines) : l.of > 0 /\ l.row = 0 /\ ~l.torn} = {}
  BY EmptyLaws DEF NoText, ToSet
<1> QED
  BY <1>1, FS_EmptySet DEF Whole

(* At the end of the file the reader has all of it, and whether it has a   *)
(* sample too many is seen from the last line.                             *)
LEMMA AsWritten ==
  ASSUME FileInv
  PROVE  SamplesAsWritten
<1>1. PICK n : n = Len(samples) /\ n \in Nat /\ DOMAIN samples = 1..n
  BY OneMoreSample DEF FileInv, IsSequence
<1>2. CASE text = NoText /\ past = FALSE
  <2>1. Whole = 0 /\ ~text.there /\ ~AtEnd
    BY <1>2, NoSampleWithoutFile DEF NoText, AtEnd
  <2>2. \A k \in 1..n : ~(k <= 0)
    BY <1>1
  <2> QED
    BY <1>1, <2>1, <2>2 DEF SamplesAsWritten
<1>3. ASSUME NEW head, NEW q, NEW r, NEW torn,
             Shape(text, head, q, r, torn), Reached(text, head, q, r, torn)
      PROVE  SamplesAsWritten
  <2>1. PICK w \in Nat : w = WholeOf(q, r, torn) /\ w = Whole
    BY <1>3, WholeTyped, WholeIs
  <2>2. PICK size : size = head + At(q, r)
    OBVIOUS
  <2>3. /\ size \in Nat /\ Len(text.lines) = size /\ At(q, r) \in Nat
        /\ head \in {0, 1} /\ q \in Nat /\ r \in 0..Rows /\ torn \in BOOLEAN
    BY <1>3, <2>2, ShapeTyped
  <2>4. /\ \A k \in 1..n : k <= w => samples[k] = Sample(k)
        /\ n <= w + 1
    BY <1>1, <1>3, <2>1 DEF Reached
  <2>5. ASSUME AtEnd
        PROVE  n = w <=> ~text.ended /\ Last(text.lines) = Line(w, 0)
    <3>1. doing = "file" /\ past
      BY <2>5 DEF AtEnd
    <3>2. Last(text.lines) = text.lines[size]
      BY <2>3 DEF Last
    <3>3. Rows \in Nat \ {0} /\ 0 \in 0..Rows /\ Rows \in 0..Rows
      BY FileAssumption
    <3>4. CASE n <= w
      <4>1. n # 0 /\ got = head + At(n, 0) /\ got = size /\ ~text.ended
        BY <1>1, <1>3, <2>1, <2>2, <3>1, <3>4 DEF Reached
      <4>2. n = q /\ r = 0
        <5>1. At(n, 0) \in Nat
          BY <1>1, <3>3, AtOrders
        <5>2. At(n, 0) = At(q, r)
          BY <2>2, <2>3, <4>1, <5>1
        <5> QED
          BY <1>1, <2>3, <3>3, <5>2, AtOrders
      <4>3. ~torn /\ n = w
        BY <1>1, <2>1, <3>4, <4>2 DEF WholeOf
      <4>4. PICK p \in Nat : n = p + 1
        <5>1. n - 1 \in Nat /\ n = (n - 1) + 1
          BY <1>1, <4>1
        <5> QED
          BY <5>1
      <4>5. /\ At(p, Rows) \in Nat /\ At(p, Rows) + 1 = At(n, 0)
        <5>1. At(p, Rows) \in Nat
          BY <3>3, AtOrders
        <5>2. At(p, Rows) + 1 = At(p + 1, 0)
          BY <3>3, AtOrders
        <5> QED
          BY <4>4, <5>1, <5>2
      <4>6. At(p, Rows) < At(q, r) /\ size = head + At(p, Rows) + 1
        BY <2>2, <2>3, <4>1, <4>2, <4>5
      <4>7. text.lines[head + At(p, Rows) + 1]
              = BodyLine(p, Rows, torn /\ At(p, Rows) + 1 = At(q, r))
        BY <1>3, <3>3, <4>6 DEF Shape, Holds
      <4>8. BodyLine(p, Rows, torn /\ At(p, Rows) + 1 = At(q, r)) = Line(w, 0)
        BY <4>3, <4>4 DEF BodyLine, Line
      <4> QED
        BY <3>2, <4>1, <4>3, <4>6, <4>7, <4>8
    <3>5. CASE ~(n <= w)
      <4>1. n # w /\ CutShort(text, r, torn)
        BY <1>1, <1>3, <2>1, <3>1, <3>5 DEF Reached
      <4>2. ASSUME ~text.ended, Last(text.lines) = Line(w, 0)
            PROVE  FALSE
        <5>1. r # 0 \/ torn
          BY <4>1, <4>2 DEF CutShort
        <5>2. PICK p \in Nat, m \in 0..Rows : At(p, m) \in Nat /\ At(p, m) + 1 = At(q, r)
          <6>1. At(0, 0) = 0 /\ (At(0, 0) = At(q, r) <=> 0 = q /\ 0 = r)
            BY <2>3, <3>3, AtOrders
          <6>2. q # 0 \/ r # 0
            BY <1>3, <2>3, <4>2 DEF Shape
          <6>3. At(q, r) - 1 \in Nat
            BY <2>3, <6>1, <6>2
          <6>4. PICK l \in Nat : l + 1 = At(q, r)
            <7>1. (At(q, r) - 1) + 1 = At(q, r)
              BY <2>3
            <7> QED
              BY <6>3, <7>1
          <6>5. PICK p \in Nat, m \in 0..Rows : l = At(p, m)
            BY AtExists
          <6> QED
            BY <6>4, <6>5
        <5>3. At(p, m) < At(q, r) /\ size = head + At(p, m) + 1
          BY <2>2, <2>3, <5>2
        <5>4. PICK tear : tear = (torn /\ At(p, m) + 1 = At(q, r))
          OBVIOUS
        <5>5. text.lines[size] = BodyLine(p, m, tear)
          BY <1>3, <5>3, <5>4 DEF Shape, Holds
        <5>6. Line(w, 0) = BodyLine(p, m, tear)
          BY <3>2, <4>2, <5>5
        <5>7. ~tear
          BY <5>6 DEF Line, BodyLine
        <5>8. m = Rows
          BY <5>6, <5>2 DEF Line, BodyLine
        <5>9. ~torn
          BY <5>2, <5>4, <5>7
        <5>10. At(p + 1, 0) = At(q, r)
          <6>1. At(p, m) + 1 = At(p + 1, 0)
            BY <5>8, AtOrders
          <6> QED
            BY <5>2, <6>1
        <5>11. r = 0
          <6>1. PICK x \in Nat : x = p + 1
            OBVIOUS
          <6>2. At(x, 0) = At(q, r)
            BY <5>10, <6>1
          <6> QED
            BY <2>3, <3>3, <6>2, AtOrders
        <5> QED
          BY <5>1, <5>9, <5>11
      <4> QED
        BY <4>1, <4>2
    <3> QED
      BY <3>4, <3>5
  <2> QED
    BY <1>1, <2>1, <2>4, <2>5 DEF SamplesAsWritten
<1> QED
  BY <1>2, <1>3 DEF FileInv

(* For pictures and arrays of any size and files that were finished, given *)
(* up or cut off anywhere: each whole sample is read as it was written, at *)
(* its place, and at most one that is none comes after them.               *)
THEOREM SamplesAreRead == SpecOcr => []SamplesAsWritten
BY FileInvariant, AsWritten, PTL

-----------------------------------------------------------------------------
(* Reading comes to an end, in a file that has one for it.                 *)

(* What is left to do: first the lines of the file; at its end, the lines  *)
(* that the picture lacks, and the rest of the calls.                      *)
Calls ==
  CASE doing = "file"  -> IF past THEN 0 ELSE Rows + 3
    [] doing = "row"   -> Rows + 2 - Len(rows)
    [] doing = "value" -> 1
ReadLeft == (Len(text.lines) - got) * (Rows + 4) + Calls

(* At the end of such a file what is in memory is a line of a picture.     *)
EndInv ==
  /\ IsSequence(rows)
  /\ doing = "row" => Len(rows) < Rows
  /\ doing = "row" /\ Ends /\ got = Len(text.lines) => IsRow(line)

(* A file whose last whole sample ends it.                                 *)
LEMMA EndsWithValue ==
  ASSUME NEW t, NEW head, NEW q, NEW r, NEW torn, Shape(t, head, q, r, torn),
         NEW n \in Nat, n # 0, At(n, 0) = At(q, r)
  PROVE  ~IsRow(Last(t.lines))
<1>1. /\ head \in {0, 1} /\ q \in Nat /\ r \in 0..Rows
      /\ At(q, r) \in Nat /\ Len(t.lines) = head + At(q, r)
  BY ShapeTyped
<1>2. PICK p \in Nat : n = p + 1
  <2>1. n - 1 \in Nat /\ n = (n - 1) + 1
    OBVIOUS
  <2> QED
    BY <2>1
<1>3. Rows \in 0..Rows /\ 0 \in 0..Rows
  BY FileAssumption
<1>4. At(p, Rows) \in Nat /\ At(p, Rows) + 1 = At(q, r)
  <2>1. At(p, Rows) \in Nat
    BY <1>3, AtOrders
  <2>2. At(p, Rows) + 1 = At(p + 1, 0)
    BY <1>3, AtOrders
  <2> QED
    BY <1>2, <2>1, <2>2
<1>5. PICK tear : tear = (torn /\ At(p, Rows) + 1 = At(q, r))
  OBVIOUS
<1>6. t.lines[head + At(p, Rows) + 1] = BodyLine(p, Rows, tear)
  <2>1. At(p, Rows) < At(q, r)
    BY <1>1, <1>4
  <2> QED
    BY <1>3, <1>5, <2>1 DEF Shape, Holds
<1>7. Last(t.lines) = BodyLine(p, Rows, tear)
  <2>1. head + At(p, Rows) + 1 = Len(t.lines)
    BY <1>1, <1>4
  <2> QED
    BY <1>6, <2>1 DEF Last
<1> QED
  BY <1>7, FileAssumption DEF BodyLine, IsRow

(* A file that is not empty has lines.                                     *)
LEMMA EndsThere ==
  ASSUME FileInv, Ends
  PROVE  /\ Len(text.lines) \in Nat \ {0} /\ got \in 0..Len(text.lines)
         /\ \E head, q, r, torn : Shape(text, head, q, r, torn) /\ Reached(text, head, q, r, torn)
<1>1. text # NoText
  BY DEF Ends, NoText
<1>2. PICK head, q, r, torn : Shape(text, head, q, r, torn) /\ Reached(text, head, q, r, torn)
  BY <1>1 DEF FileInv
<1>3. got \in 0..Len(text.lines) /\ Len(text.lines) \in Nat
  BY <1>2, ShapeTyped DEF Reached
<1>4. Len(text.lines) # 0
  <2>1. PICK S : text.lines \in Seq(S)
    BY <1>2 DEF Shape, Holds, IsSequence
  <2>2. PICK a : a = text.lines /\ a # << >> /\ a \in Seq(S)
    BY <2>1 DEF Ends
  <2>3. Len(a) # 0
    BY <2>2
  <2> QED
    BY <2>2, <2>3
<1> QED
  BY <1>2, <1>3, <1>4

(* The reader does not begin a picture behind the last line.               *)
LEMMA BegunWithin ==
  ASSUME FileInv, Ends, doing = "file", ~past
  PROVE  got < Len(text.lines)
<1> SUFFICES ASSUME got = Len(text.lines) PROVE FALSE
  BY EndsThere
<1>1. PICK head, q, r, torn : Shape(text, head, q, r, torn) /\ Reached(text, head, q, r, torn)
  BY EndsThere
<1>2. /\ Len(text.lines) = head + At(q, r) /\ At(q, r) \in Nat /\ head \in {0, 1}
      /\ Len(text.lines) # 0
  BY <1>1, EndsThere, ShapeTyped
<1>3. PICK n, w : n = Len(samples) /\ w = WholeOf(q, r, torn)
  OBVIOUS
<1>4. n \in Nat /\ w \in Nat
  BY <1>1, <1>3, OneMoreSample, WholeTyped DEF FileInv
<1>5. n <= w
  BY <1>1, <1>3, <1>4 DEF Reached
<1>6. /\ got = IF n = 0 THEN 0 ELSE head + At(n, 0)
      /\ n > 0 => text.ended
  BY <1>1, <1>2, <1>3, <1>5 DEF Reached
<1>7. n # 0 /\ text.ended
  BY <1>2, <1>4, <1>6
<1>8. At(n, 0) = At(q, r)
  <2>1. At(n, 0) \in Nat
    BY <1>4, FileAssumption, AtOrders
  <2> QED
    BY <1>2, <1>6, <1>7, <2>1
<1>9. ~IsRow(Last(text.lines))
  BY <1>1, <1>4, <1>7, <1>8, EndsWithValue
<1> QED
  BY <1>7, <1>9 DEF Ends

(* A last line that is looked at as one of a picture is one.               *)
LEMMA LastIsRow ==
  ASSUME FileInv, Ends, doing = "row", got < Len(text.lines), got + 1 = Len(text.lines)
  PROVE  IsRow(text.lines[got + 1])
<1>1. PICK head, q, r, torn : Shape(text, head, q, r, torn) /\ Reached(text, head, q, r, torn)
  BY EndsThere
<1>2. /\ Len(text.lines) = head + At(q, r) /\ At(q, r) \in Nat /\ head \in {0, 1}
      /\ q \in Nat /\ r \in 0..Rows /\ torn \in BOOLEAN
  BY <1>1, ShapeTyped
<1>3. WithinFile(text, head, q, r)
  BY <1>1, <1>2 DEF Reached
<1>4. PICK n : n = Len(samples) /\ n \in Nat
  BY OneMoreSample DEF FileInv
<1>5. PICK m \in 0..Rows :
        /\ m # Rows
        /\ \/ got = head + At(n, m)
           \/ n = 0 /\ m = 0 /\ got = 0
  BY <1>3, <1>4 DEF WithinFile
<1>6. CASE got = head + At(n, m)
  <2>1. At(n, m) \in Nat
    BY <1>4, AtOrders
  <2>2. At(n, m) < At(q, r)
    BY <1>2, <1>6, <2>1
  <2>3. PICK tear : tear = (torn /\ At(n, m) + 1 = At(q, r))
    OBVIOUS
  <2>4. text.lines[got + 1] = BodyLine(n, m, tear)
    BY <1>1, <1>4, <1>6, <2>2, <2>3 DEF Shape, Holds
  <2> QED
    BY <1>5, <2>4, FileAssumption DEF BodyLine, IsRow
<1>7. CASE got # head + At(n, m)
  <2>1. n = 0 /\ m = 0 /\ got = 0
    BY <1>5, <1>7
  <2>2. At(0, 0) = 0
    BY FileAssumption, AtOrders
  <2>3. head = 1 /\ At(q, r) = At(0, 0)
    BY <1>2, <1>7, <2>1, <2>2
  <2>4. q = 0 /\ r = 0
    BY <1>2, <2>3, FileAssumption, AtOrders
  <2>5. text.ended
    BY <1>1, <2>4 DEF Shape
  <2>6. Last(text.lines) = text.lines[got + 1]
    BY DEF Last
  <2> QED
    BY <2>5, <2>6 DEF Ends
<1> QED
  BY <1>6, <1>7

LEMMA EndInvariant == SpecOcr => []EndInv
<1>1. InitOcr => EndInv
  BY EmptyLaws DEF InitOcr, Opened, EndInv, IsSequence
<1>2. FileInv /\ EndInv /\ [NextOcr]_ocrVars => EndInv'
  <2> SUFFICES ASSUME FileInv, EndInv, [NextOcr]_ocrVars
               PROVE  EndInv'
    OBVIOUS
  <2>1. CASE UNCHANGED readerVars
    BY <2>1 DEF readerVars, EndInv, Ends
  <2>2. ASSUME NEW t, Open(t)
        PROVE  EndInv'
    BY <2>2, EmptyLaws DEF Open, EndInv, IsSequence
  <2>3. CASE Digit
    <3>1. /\ doing = "file" /\ ~past /\ rows' = << >> /\ text' = text /\ got' = got
      BY <2>3 DEF Digit
    <3>2. Ends => got < Len(text.lines) /\ got # Len(text.lines)
      BY <3>1, BegunWithin, EndsThere
    <3>3. IsSequence(rows') /\ Len(rows') < Rows
      BY <3>1, EmptyLaws, FileAssumption DEF IsSequence
    <3>4. Ends' <=> Ends
      BY <3>1 DEF Ends
    <3> QED
      BY <3>1, <3>2, <3>3, <3>4 DEF EndInv
  <2>4. CASE Row
    <3>1. /\ doing = "row" /\ Gets /\ text' = text
          /\ rows' = IF IsRow(line') THEN Append(rows, line') ELSE rows
          /\ doing' = IF Len(rows') = Rows THEN "value" ELSE "row"
      BY <2>4 DEF Row
    <3>2. IsSequence(rows') /\ Len(rows') \in Nat /\ Len(rows') <= Rows
      <4>1. IsSequence(rows) /\ Len(rows) \in Nat /\ Len(rows) < Rows
        BY <3>1, OneMoreSample DEF EndInv
      <4>2. IsSequence(Append(rows, line')) /\ Len(Append(rows, line')) = Len(rows) + 1
        BY <4>1, OneMoreSample
      <4> QED
        BY <3>1, <4>1, <4>2, FileAssumption
    <3>3. doing' = "row" => Len(rows') < Rows
      BY <3>1, <3>2, FileAssumption
    <3>4. ASSUME Ends', got' = Len(text.lines)
          PROVE  IsRow(line')
      <4>1. Ends
        BY <3>1, <3>4 DEF Ends
      <4>2. CASE got < Len(text.lines)
        <5>1. got' = got + 1 /\ line' = text.lines[got + 1]
          BY <3>1, <4>2 DEF Gets
        <5> QED
          BY <3>1, <3>4, <4>1, <4>2, <5>1, LastIsRow
      <4>3. CASE ~(got < Len(text.lines))
        <5>1. got' = got /\ line' = line
          BY <3>1, <4>3 DEF Gets
        <5> QED
          BY <3>1, <3>4, <4>1, <5>1 DEF EndInv
      <4> QED
        BY <4>2, <4>3
    <3> QED
      BY <3>1, <3>2, <3>3, <3>4 DEF EndInv
  <2>5. CASE Value
    BY <2>5 DEF Value, EndInv
  <2> QED
    BY <2>1, <2>2, <2>3, <2>4, <2>5
    DEF NextOcr, Work, Fail, Read, NextRead, EndTraining, EndValidation, NoValidation, Validated,
        Overflow, ocrVars
<1> QED
  BY <1>1, <1>2, FileInvariant, PTL DEF SpecOcr

(* How much is left, and that it is less when the calls have less to do    *)
(* and no line is taken back, or a line was taken.                         *)
LEMMA LeftIs ==
  ASSUME NEW d \in Nat, NEW c \in 0..Rows + 3
  PROVE  /\ d * (Rows + 4) + c \in Nat
         /\ \A e \in Nat, b \in 0..Rows + 3 :
              e < d \/ (e = d /\ b < c) => e * (Rows + 4) + b < d * (Rows + 4) + c
<1>1. PICK w \in Nat : w = Rows + 4 /\ Rows + 3 = w - 1
  BY FileAssumption
<1>2. d * w + c \in Nat
  BY <1>1
<1>3. ASSUME NEW e \in Nat, NEW b \in 0..w - 1, e < d
      PROVE  e * w + b < d * w + c
  <2>1. (e + 1) * w <= d * w
    BY <1>1, <1>3
  <2>2. e * w + w <= d * w
    BY <2>1
  <2> QED
    BY <1>1, <1>3, <2>2
<1>4. ASSUME NEW b \in 0..w - 1, b < c
      PROVE  d * w + b < d * w + c
  BY <1>1, <1>4
<1> QED
  BY <1>1, <1>2, <1>3, <1>4

(* A file whose last line is one of a picture, or lacks its newline, is    *)
(* read to its end: each step of reading leaves less to do, and what is    *)
(* left is a number.  This is the part of TrainEnds that needs no          *)
(* fairness: no file that Ends is read for ever.                           *)
THEOREM ReadingShrinks ==
  SpecOcr => [][Ends /\ Read => ReadLeft \in Nat /\ ReadLeft' \in Nat /\ ReadLeft' < ReadLeft]_ocrVars
<1> SUFFICES FileInv /\ EndInv /\ EndInv' /\ Ends /\ Read
               => ReadLeft \in Nat /\ ReadLeft' \in Nat /\ ReadLeft' < ReadLeft
  BY FileInvariant, EndInvariant, PTL DEF SpecOcr
<1> SUFFICES ASSUME FileInv, EndInv, EndInv', Ends, Read
             PROVE  ReadLeft \in Nat /\ ReadLeft' \in Nat /\ ReadLeft' < ReadLeft
  OBVIOUS
<1>1. NextRead /\ text' = text
  BY DEF Read, NextRead, Digit, Row, Value
<1>2. PICK size \in Nat : size = Len(text.lines) /\ got \in 0..size
  BY EndsThere
<1>3. /\ Len(rows) \in Nat /\ Len(rows') \in Nat
      /\ doing = "row" => Len(rows) < Rows
      /\ doing' = "row" => Len(rows') < Rows
  BY OneMoreSample DEF EndInv
<1>4. Rows \in Nat \ {0} /\ text.there
  BY FileAssumption DEF Ends
<1>5. PICK a, b : a = Calls /\ b = Calls'
  OBVIOUS
<1>6. /\ ReadLeft = (size - got) * (Rows + 4) + a
      /\ ReadLeft' = (size - got') * (Rows + 4) + b
  BY <1>1, <1>2, <1>5 DEF ReadLeft
<1>7. a \in 0..Rows + 3 /\ b \in 0..Rows + 3
  <2>1. doing \in {"file", "row", "value"} /\ doing' \in {"file", "row", "value"}
    BY <1>1 DEF NextRead, Digit, Row, Value
  <2>2. a \in 0..Rows + 3
    BY <1>3, <1>4, <1>5, <2>1 DEF Calls
  <2>3. b \in 0..Rows + 3
    BY <1>3, <1>4, <1>5, <2>1 DEF Calls
  <2> QED
    BY <2>2, <2>3
<1>8. got' \in 0..size /\ (got' > got \/ (got' = got /\ b < a))
  <2>1. CASE Digit
    <3>1. /\ doing = "file" /\ ~past /\ doing' = "row" /\ rows' = << >> /\ got' = got
      BY <2>1 DEF Digit
    <3>2. a = Rows + 3
      BY <1>5, <3>1 DEF Calls
    <3>3. b = Rows + 2
      BY <1>4, <1>5, <3>1, EmptyLaws DEF Calls
    <3> QED
      BY <1>2, <1>4, <3>1, <3>2, <3>3
  <2>2. ASSUME Gets, got < size
        PROVE  got' \in 0..size /\ got' > got
    <3>1. got' = got + 1
      BY <1>2, <2>2 DEF Gets
    <3> QED
      BY <1>2, <2>2, <3>1
  <2>3. ASSUME Gets, ~(got < size)
        PROVE  got = size /\ got' = got /\ line' = line /\ past'
    <3>1. got = size /\ got' = got /\ line' = line
      BY <1>2, <2>3 DEF Gets
    <3>2. past'
      BY <1>2, <1>4, <2>3, <3>1 DEF Gets
    <3> QED
      BY <3>1, <3>2
  <2>4. CASE Row
    <3>1. /\ doing = "row" /\ Gets
          /\ rows' = IF IsRow(line') THEN Append(rows, line') ELSE rows
          /\ doing' = IF Len(rows') = Rows THEN "value" ELSE "row"
      BY <2>4 DEF Row
    <3>2. CASE got < size
      BY <2>2, <3>1, <3>2
    <3>3. CASE ~(got < size)
      <4>1. got = size /\ got' = got /\ line' = line
        BY <2>3, <3>1, <3>3
      <4>2. IsRow(line')
        BY <1>2, <3>1, <4>1 DEF EndInv
      <4>3. Len(rows') = Len(rows) + 1
        BY <3>1, <4>2, OneMoreSample DEF EndInv
      <4>4. a = Rows + 2 - Len(rows)
        BY <1>5, <3>1 DEF Calls
      <4>5. b = IF Len(rows') = Rows THEN 1 ELSE Rows + 2 - Len(rows')
        BY <1>5, <3>1 DEF Calls
      <4> QED
        BY <1>2, <1>3, <1>4, <3>1, <4>1, <4>3, <4>4, <4>5
    <3> QED
      BY <3>2, <3>3
  <2>5. CASE Value
    <3>1. doing = "value" /\ Gets /\ doing' = "file"
      BY <2>5 DEF Value
    <3>2. CASE got < size
      BY <2>2, <3>1, <3>2
    <3>3. CASE ~(got < size)
      <4>1. got = size /\ got' = got /\ past'
        BY <2>3, <3>1, <3>3
      <4>2. a = 1 /\ b = 0
        BY <1>5, <3>1, <4>1 DEF Calls
      <4> QED
        BY <1>2, <4>1, <4>2
    <3> QED
      BY <3>2, <3>3
  <2> QED
    BY <1>1, <2>1, <2>4, <2>5 DEF NextRead
<1>9. /\ size - got \in Nat /\ size - got' \in Nat
      /\ size - got' < size - got \/ (size - got' = size - got /\ b < a)
  BY <1>2, <1>8
<1> QED
  BY <1>6, <1>7, <1>9, LeftIs
=============================================================================
