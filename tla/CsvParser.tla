----------------------------- MODULE CsvParser ------------------------------
(***************************************************************************)
(* ParseCSV: what the server makes of an uploaded file, record by record,  *)
(* and what the upload card has shown of it before: the two read the same  *)
(* text by different rules, the card by lines, the server by records that  *)
(* may be quoted and then go on over several lines.                        *)
(*                                                                         *)
(* A line is known by what a reader can tell of it:                        *)
(*   "header"    the names of all columns                                  *)
(*   "row"       a whole record with nothing wrong                         *)
(*   "unpriced"  a whole record, its amount and its digits invalid         *)
(*   "unfilled"  a whole record, two required fields empty                 *)
(*   "short"     a whole record with fields missing                        *)
(*   "opens"     the beginning of a good record, up to a line feed in a    *)
(*               quoted field                                              *)
(*   "closes"    the rest of such a record, from within the quotes         *)
(*   "spaces", "blank"                                                     *)
(***************************************************************************)
EXTENDS Naturals, Sequences, FiniteSets, Functions

CONSTANT
  MaxLines \* bound on the lines of a file

ASSUME LinesAssumption == MaxLines \in Nat

Whole == {"header", "row", "unpriced", "unfilled", "short", "spaces", "blank"}
Quote == {"opens", "closes"}
Kinds == Whole \cup Quote

VARIABLES
  file,  \* the lines of the file
  pos,   \* how many of them have been read
  phase, \* "header", "rows" or "done"
  line,  \* line: the number the next errors are reported with
  rows,  \* for every row that was accepted, the line it began on
  errors \* the errors: line as reported, column, and the line the record began on

csvVars == <<file, pos, phase, line, rows, errors>>

Columns == {"header", "row", "id", "amount", "recipient", "payment_method", "last_4_digits"}

CsvInit ==
  /\ file \in UNION {[1..n -> Kinds] : n \in 0..MaxLines}
  /\ pos = 0
  /\ phase = "header"
  /\ line = 1
  /\ rows = <<>>
  /\ errors = <<>>

-----------------------------------------------------------------------------
(* The reader of encoding/csv *)

\* The first of the lines i in S; one behind the end if there is none.
FirstOf(S) == IF S = {} THEN Len(file) + 1 ELSE CHOOSE i \in S : \A j \in S : i <= j

\* Empty lines are skipped before a record.
BeginParse == FirstOf({i \in pos + 1..Len(file) : file[i] # "blank"})

\* Mutation: a quoted field ends with its line.
EndAtOnce(b) == b

\* Within quotes lines are swallowed up to the next quote, or to the end of the file.
EndParse(b) == IF file[b] # "opens" THEN b
          ELSE FirstOf({i \in b + 1..Len(file) : file[i] \in Quote})

\* A quote out of place, or the end of the file within quotes.
Unquoted(b) ==
  \/ file[b] = "closes"
  \/ /\ file[b] = "opens"
     /\ EndParse(b) > Len(file) \/ file[EndParse(b)] = "opens"

-----------------------------------------------------------------------------
(* ParseCSV *)

Report(b, columns) ==
  [i \in DOMAIN columns |-> [line |-> line', column |-> columns[i], begin |-> b]]

ReadHeader ==
  /\ phase = "header"
  /\ IF BeginParse <= Len(file) /\ file[BeginParse] = "header"
     THEN /\ pos' = BeginParse
          /\ phase' = "rows"
          /\ UNCHANGED <<line, errors>>
     ELSE /\ pos' = Len(file)
          /\ phase' = "done"
          /\ line' = line
          /\ errors' = Report(BeginParse, <<"header">>)
  /\ UNCHANGED <<file, rows>>

\* The errors of a record, in the orders they may come in: empty fields are looked for in
\* the order of a map.
Faults(b) ==
  CASE Unquoted(b) \/ file[b] \in {"short", "spaces"} -> {<<"row">>}
    [] file[b] \in {"unpriced", "header"} -> {<<"amount", "last_4_digits">>}
    [] file[b] = "unfilled" -> {<<"recipient", "payment_method">>, <<"payment_method", "recipient">>}
    [] OTHER -> {<<>>}

NextPos(b) == IF EndParse(b) > Len(file) THEN Len(file) ELSE EndParse(b)

ReadRecord ==
  /\ phase = "rows"
  /\ BeginParse <= Len(file)
  /\ pos' = NextPos(BeginParse)
  /\ line' = line + 1
  /\ \E faults \in Faults(BeginParse) :
       /\ errors' = errors \o Report(BeginParse, faults)
       /\ rows' = IF faults = <<>> THEN Append(rows, BeginParse) ELSE rows
  /\ UNCHANGED <<file, phase>>

EndOfFile ==
  /\ phase = "rows"
  /\ BeginParse > Len(file)
  /\ phase' = "done"
  /\ UNCHANGED <<file, pos, line, rows, errors>>

CsvNext == ReadHeader \/ ReadRecord \/ EndOfFile

CsvSpec == CsvInit /\ [][CsvNext]_csvVars

-----------------------------------------------------------------------------
(* parseCsvPreview: the lines that are not empty when trimmed, the first of *)
(* them taken for the header; 0 where it has nothing to show.               *)

ShownLines == Cardinality({i \in DOMAIN file : file[i] \notin {"spaces", "blank"}})

PreviewRows == IF ShownLines < 2 THEN 0 ELSE ShownLines - 1

-----------------------------------------------------------------------------
(* The file as it is written, without a reader: a line lies outside all     *)
(* quotes when the quotes before it come in pairs.                          *)

Outside(i) == Cardinality({j \in 1..i - 1 : file[j] \in Quote}) % 2 = 0

Payments == {i \in DOMAIN file : Outside(i) /\ file[i] \in {"row", "opens"}}

\* The names of the columns, with nothing in front of them.
HeaderLine(i) == file[i] = "header" /\ \A j \in 1..i - 1 : file[j] = "blank"

InPlace(i) == IF Outside(i) THEN file[i] \in {"row", "opens", "blank"} \/ HeaderLine(i)
                            ELSE file[i] # "opens"

WellFormed ==
  /\ \E i \in DOMAIN file : HeaderLine(i)
  /\ \A i \in DOMAIN file : InPlace(i)
  /\ Cardinality({i \in DOMAIN file : file[i] \in Quote}) % 2 = 0

\* The sequence s names every line of S once, from the top.
Lists(s, S) == Range(s) = S /\ \A i, j \in DOMAIN s : i < j => s[i] < s[j]

CsvTypeOK ==
  /\ file \in Seq(Kinds) /\ Len(file) <= MaxLines
  /\ pos \in 0..Len(file)
  /\ phase \in {"header", "rows", "done"}
  /\ line \in 1..Len(file) + 1
  /\ rows \in Seq(DOMAIN file)
  /\ errors \in Seq([line : 1..Len(file) + 1, column : Columns, begin : 1..Len(file) + 1])

(* ParseCSV finds no error in a file exactly if the file is well formed,    *)
(* and has then read every payment of it, in order, once: what             *)
(* ProcessUpload stores is what was written, quoted line feeds or not.      *)
AcceptedAsWritten ==
  phase = "done" =>
    /\ errors = <<>> <=> WellFormed
    /\ errors = <<>> => Lists(rows, Payments)

(* The number of payments the card announces is never too small, it is the  *)
(* number the server stores if no record goes over several lines, and a     *)
(* file it announces payments of never comes to nothing without an error.   *)
PreviewIsKept ==
  phase = "done" =>
    /\ errors = <<>> => Len(rows) <= PreviewRows
    /\ errors = <<>> /\ Range(file) \cap Quote = {} => Len(rows) = PreviewRows
    /\ PreviewRows > 0 => errors # <<>> \/ rows # <<>>

(* The numbers in the errors tell the records apart and keep their order,   *)
(* so that the first error, the only one the card shows, is about the       *)
(* topmost record that is wrong; and they never point below it.             *)
ErrorsFollowTheFile ==
  \A i, j \in DOMAIN errors :
    /\ errors[i].line <= errors[i].begin
    /\ i < j => errors[i].begin <= errors[j].begin
    /\ errors[i].line = errors[j].line <=> errors[i].begin = errors[j].begin

(* What the user is shown before and after an upload, and what is stored,   *)
(* belong to the file.                                                      *)
ParsedAsWritten == CsvTypeOK /\ AcceptedAsWritten /\ PreviewIsKept /\ ErrorsFollowTheFile

=============================================================================
