----------------------------- MODULE TrainingFile -----------------------------
(***************************************************************************)
(* The file of digits a network is trained with: as the program            *)
(* ochi_prepare_train_file leaves it, with its header before it, and how   *)
(* read_training_file reads it.  The file is compressed; zlib's gzgets and *)
(* gzeof are modelled as of version 1.2.4.                                 *)
(*                                                                         *)
(* A line is known by where it was written: line r of the sample of        *)
(* picture n, where r = 0 is the line with the value.  All that the reader *)
(* sees of a line is whether it begins with 0 or 1, as those of a picture  *)
(* do and no other.                                                        *)
(***************************************************************************)
EXTENDS Integers, SequencesExt

CONSTANTS
  Rows,       \* lines of a picture: 32
  Room,       \* elements of the caller's array
  Numerals    \* possible contents of numerals/: for every digit the
              \* pictures, TRUE for those that can be read

ASSUME FileAssumption ==
  /\ Rows \in Nat \ {0} /\ Room \in Nat \ {0}
  /\ \A files \in Numerals : files \in Seq(Seq(BOOLEAN))

Line(n, r) == [of |-> n, row |-> r, torn |-> FALSE]
IsRow(l)   == l.row > 0
Heading    == Line(0, 0)    \* stands for all lines of the header

(* The two things that may lie in an array nobody has written to.          *)
Leftovers == {Line(0, 0), Line(0, 1)}

VARIABLES
  text,       \* the file: whether it is there, its lines, whether the last
              \* one ends with a newline
  got,        \* lines read
  past,       \* gzeof
  doing,      \* "file" (in fscan_training_file), "row" or "value"
  line,       \* line of fscan_training_digit
  rows,       \* digit of fscan_training_digit
  samples     \* array of fscan_training_file

readerVars == <<text, got, past, doing, line, rows, samples>>

-----------------------------------------------------------------------------
(* ochi_prepare_train_file: it exits at a digit without pictures and at a  *)
(* picture that cannot be read, and leaves what it has written so far.     *)
Written(files) ==
  LET all == FlattenSeq([n \in DOMAIN files |-> IF files[n] = << >> THEN <<FALSE>> ELSE files[n]])
      end == SelectInSeq(all, LAMBDA readable : ~readable)
  IN IF end = 0 THEN Len(all) ELSE end - 1

(* The lines of a picture and the one with its value, picture by picture.  *)
Text(number) ==
  [i \in 1..number * (Rows + 1) |-> Line((i - 1) \div (Rows + 1) + 1, i % (Rows + 1))]

(* A run that was killed leaves the first bytes of its file.  A last line  *)
(* without its newline may lack more than that.                            *)
Torn(lines) == [lines EXCEPT ![Len(lines)].torn = TRUE]

(* The header is a file of its own, written by a run that gets to its end. *)
(* It may be missing, or be of an earlier run.                             *)
NoText == [there |-> FALSE, lines |-> << >>, ended |-> TRUE]

Left ==
  LET bodies == UNION {Prefixes(Text(Written(files))) : files \in Numerals}
      File(lines, ended) == [there |-> TRUE, lines |-> lines, ended |-> ended]
  IN {NoText} \cup
     UNION {{File(h \o b, TRUE) : b \in bodies}
            \cup {File(h \o b, FALSE) : b \in bodies \ {<< >>}}
            \cup {File(h \o Torn(b), FALSE) : b \in bodies \ {<< >>}} :
            h \in {<< >>, <<Heading>>}}

-----------------------------------------------------------------------------
(* zlib.  A read at the end of the file leaves the buffer as it is and     *)
(* sets what gzeof returns; so does a read of a last line that has no      *)
(* newline, which it returns.  Nothing sets it if there is no file.        *)
Gets ==
  /\ IF got < Len(text.lines) THEN got' = got + 1 /\ line' = text.lines[got + 1]
                              ELSE UNCHANGED <<got, line>>
  /\ past' = (text.there /\ (past \/ got = Len(text.lines)
                                  \/ (got + 1 = Len(text.lines) /\ ~text.ended)))

(* Wrong versions of definitions, used by no specification.                *)

(* Lines that begin with something else are not skipped.                   *)
RowUnskipped ==
  /\ doing = "row" /\ Gets
  /\ rows' = Append(rows, line')
  /\ doing' = IF Len(rows') = Rows THEN "value" ELSE "row"
  /\ UNCHANGED <<text, samples>>

(* A read that finds nothing is tried again.                               *)
RowRetried ==
  /\ doing = "row" /\ Gets
  /\ rows' = IF got' # got /\ IsRow(line') THEN Append(rows, line') ELSE rows
  /\ doing' = IF Len(rows') = Rows THEN "value" ELSE "row"
  /\ UNCHANGED <<text, samples>>

(* A file that cannot be opened counts as one without samples.             *)
AtEndUnopened == doing = "file" /\ (past \/ ~text.there)

-----------------------------------------------------------------------------
(* read_training_file opens the file.                                      *)
Opened(t) ==
  /\ text = t /\ got = 0 /\ past = FALSE /\ doing = "file"
  /\ line = Heading /\ rows = << >> /\ samples = << >>

Open(t) ==
  /\ text' = t /\ got' = 0 /\ past' = FALSE /\ doing' = "file"
  /\ line' = Heading /\ rows' = << >> /\ samples' = << >>

(* fscan_training_digit is called.  Its array line lies where it was in    *)
(* the last call, and may have been written over since.                    *)
Digit ==
  /\ doing = "file" /\ ~past /\ Len(samples) < Room
  /\ doing' = "row" /\ rows' = << >> /\ line' \in Leftovers \cup {line}
  /\ UNCHANGED <<text, got, past, samples>>

Row ==
  /\ doing = "row" /\ Gets
  /\ rows' = IF IsRow(line') THEN Append(rows, line') ELSE rows
  /\ doing' = IF Len(rows') = Rows THEN "value" ELSE "row"
  /\ UNCHANGED <<text, samples>>

Value ==
  /\ doing = "value" /\ Gets
  /\ samples' = Append(samples, [rows |-> rows, value |-> line'])
  /\ doing' = "file"
  /\ UNCHANGED <<text, rows>>

NextRead == Digit \/ Row \/ Value

AtEnd == doing = "file" /\ past
Overrun == doing = "file" /\ ~past /\ Len(samples) = Room

-----------------------------------------------------------------------------
(* Properties.                                                             *)

Sample(n) == [rows |-> [r \in 1..Rows |-> Line(n, r)], value |-> Line(n, 0)]
Whole     == Cardinality({l \in ToSet(text.lines) : l.of > 0 /\ l.row = 0 /\ ~l.torn})

(* Wherever a file was cut, whether it has a header or not and whatever    *)
(* was in memory: each sample that is whole in the file is read as it was  *)
(* written, at its own place, and at most one that is none comes after.    *)
(* There is one unless the file ends with the value of its last sample and *)
(* without a newline.                                                      *)
SamplesAsWritten ==
  /\ \A n \in DOMAIN samples : n <= Whole => samples[n] = Sample(n)
  /\ text.there => Len(samples) <= Whole + 1
  /\ AtEnd => (Len(samples) = Whole <=> ~text.ended /\ Last(text.lines) = Line(Whole, 0))

(* A file that reading is sure to get to the end of: its last line is one  *)
(* of a picture, or has no newline.                                        *)
Ends == text.there /\ text.lines # << >> /\ (IsRow(Last(text.lines)) \/ ~text.ended)
=============================================================================
