------------------------------- MODULE OcrTrain -------------------------------
(***************************************************************************)
(* ocr_train as a whole: it reads its two files as TrainingFile does and   *)
(* then trains the network as Training does.                               *)
(***************************************************************************)
EXTENDS Training, TrainingFile

ASSUME ArrayAssumption == Room = MaxSet

ocrVars == <<vars, readerVars>>

-----------------------------------------------------------------------------
InitOcr == Init /\ \E t \in Left : Opened(t)

Read == Reading /\ NextRead /\ UNCHANGED vars

(* After the training file comes the validation file, unless its name is   *)
(* empty.                                                                  *)
EndTraining ==
  /\ pc = "training_file" /\ AtEnd
  /\ pc' = "validation_file" /\ noTraining' = Len(samples)
  /\ \E t \in Left : Open(t)
  /\ UNCHANGED <<opts, noValidation, net, best, trained, seen, file>>

Validated(number) ==
  /\ pc = "validation_file"
  /\ pc' = "judge" /\ noValidation' = number
  /\ Open(NoText)
  /\ UNCHANGED <<opts, noTraining, net, best, trained, seen, file>>

EndValidation == AtEnd /\ Validated(Len(samples))
NoValidation  == got = 0 /\ doing = "file" /\ samples = << >> /\ Validated(0)

(* Beyond the array anything may happen: the model ends there.             *)
Overflow == Reading /\ Overrun /\ Kill /\ UNCHANGED readerVars

(* What the program does by itself, and what may befall it.                *)
Work ==
  \/ Read \/ EndTraining \/ EndValidation \/ NoValidation \/ Overflow
  \/ (Train \/ Judge \/ OpenFile \/ WriteFile) /\ UNCHANGED readerVars

Fail == (CannotSave \/ Kill) /\ UNCHANGED readerVars

NextOcr == Work \/ Fail

SpecOcr == InitOcr /\ [][NextOcr]_ocrVars /\ WF_ocrVars(Work)

-----------------------------------------------------------------------------
(* Properties.                                                             *)

(* The sets that training starts with are what Training says: never an     *)
(* empty training set, by whose size train_randomly divides.               *)
ImplementsTraining == Spec

(* The program ends, whatever becomes of the error, if its files come to   *)
(* an end.  One that ends with a value and a newline does not, and so a    *)
(* file as ochi_prepare_train_file finishes it may be read for ever.       *)
TrainEnds ==
  <>(pc \in {"done", "unsaved", "killed"}) \/ <>[](Reading /\ ~Ends)
=============================================================================
