-------------------------------- MODULE Csv ---------------------------------
(***************************************************************************)
(* The fields of bins and items as text: the limits the forms put on them, *)
(* how a field is written to a CSV backup and read from one, and the two   *)
(* parsers of an uploaded file.  The strict one takes binbash's own        *)
(* backups and refuses the file for one bad row; the lenient one takes     *)
(* Homebox exports, skips the rows it cannot place and cuts long fields.   *)
(*                                                                         *)
(* A field is a sequence of characters, of which only those matter that    *)
(* the code treats specially: the formula characters, the quote, blanks,   *)
(* the line breaks CRLF, which a form submits, and LF, and the word "bin", *)
(* here one character.  A carriage return on its own, which no browser     *)
(* submits, is left out.  One limit stands for those of the six columns.   *)
(***************************************************************************)
EXTENDS Naturals, Sequences

CONSTANT MaxFieldLen   \* the limit of a field in characters

ASSUME CsvAssumption == MaxFieldLen \in Nat \ {0}

TooLong(field) == Len(field) > MaxFieldLen

(* The characters that strings.TrimSpace takes off both ends. *)
Spaces == {"blank", "CRLF", "LF"}

TrimSpace(field) ==
    LET solid == {k \in DOMAIN field : field[k] \notin Spaces}
        First == CHOOSE k \in solid : \A j \in solid : k <= j
        Last  == CHOOSE k \in solid : \A j \in solid : j <= k
    IN  IF solid = {} THEN <<>> ELSE SubSeq(field, First, Last)

Trimmed(field) == TrimSpace(field) = field

ValidBin(bin) == bin.name # <<>> /\ ~TooLong(bin.name) /\ ~TooLong(bin.info)

ValidItem(text) == text # <<>> /\ ~TooLong(text)

ValidImportRow(row) ==
    ValidBin([name |-> row.bin, info |-> row.info]) /\ ValidItem(row.text)

(* Every form trims its fields before it validates them. *)
BinForm(bin) == Trimmed(bin.name) /\ Trimmed(bin.info) /\ ValidBin(bin)

ItemForm(text) == Trimmed(text) /\ ValidItem(text)

-----------------------------------------------------------------------------
(* Fields of a backup *)

csvFormulaPrefixes == {"equals", "plus", "minus", "at"}

(* A quote in front keeps a spreadsheet from taking the field as formula. *)
SanitizeCSVField(field) ==
    IF field # <<>> /\ Head(field) \in csvFormulaPrefixes
    THEN <<"quote">> \o field ELSE field

(* Mutant: the quote stays. *)
DesanitizeKeepsQuote(field) == field

DesanitizeCSVField(field) ==
    IF Len(field) >= 2 /\ field[1] = "quote" /\ field[2] \in csvFormulaPrefixes
    THEN Tail(field) ELSE field

(* The reader of encoding/csv ends every line in LF, within quotes too. *)
NormalizeLines(field) ==
    [k \in DOMAIN field |-> IF field[k] = "CRLF" THEN "LF" ELSE field[k]]

SanitizeRow(row) ==
    [bin  |-> SanitizeCSVField(row.bin),
     info |-> SanitizeCSVField(row.info),
     text |-> SanitizeCSVField(row.text)]

ReadField(field) == DesanitizeCSVField(TrimSpace(NormalizeLines(field)))

DesanitizeRow(row) ==
    [bin  |-> ReadField(row.bin),
     info |-> ReadField(row.info),
     text |-> ReadField(row.text)]

ParseBinbashCSV(records) == [k \in DOMAIN records |-> DesanitizeRow(records[k])]

-----------------------------------------------------------------------------
(* Homebox *)

TruncateRunes(field) ==
    IF TooLong(field) THEN SubSeq(field, 1, MaxFieldLen) ELSE field

NamesBin(segment) == \E k \in DOMAIN segment : segment[k] \in {"bin", "Bin"}

(* The deepest segment of the path that names a bin, or nothing.  Cells and *)
(* segments come trimmed; what truncation leaves of them may end in a space. *)
DeriveBinName(location) ==
    LET bins == {k \in DOMAIN location : NamesBin(location[k])}
    IN  IF bins = {} THEN <<>>
        ELSE location[CHOOSE k \in bins : \A j \in bins : j <= k]

Placed(record) ==
    ~record.archived /\ record.name # <<>> /\ DeriveBinName(record.location) # <<>>

HomeboxRow(record) ==
    [bin  |-> TruncateRunes(DeriveBinName(record.location)),
     info |-> <<>>,
     text |-> TruncateRunes(record.name)]

ParseHomeboxCSV(records) ==
    LET parsed[k \in 0..Len(records)] ==
            IF k = 0 THEN <<>>
            ELSE IF Placed(records[k]) THEN Append(parsed[k - 1], HomeboxRow(records[k]))
            ELSE parsed[k - 1]
    IN  parsed[Len(records)]

-----------------------------------------------------------------------------
(* An upload: its header says whose it is *)

(* The cells of a backup are as they are in the file; get trims those of a  *)
(* Homebox export, and deriveBinName the segments of its location.          *)
BackupRecord ==
    [bin : Seq(STRING), info : Seq(STRING), text : Seq(STRING)]

HomeboxRecord ==
    LET Cell == {field \in Seq(STRING) : Trimmed(field)}
    IN  [archived : BOOLEAN, name : Cell, location : Seq(Cell)]

Upload ==
    [header : {"binbash"}, records : Seq(BackupRecord)]
    \cup [header : {"homebox"}, records : Seq(HomeboxRecord)]
    \cup [header : {"other"}, records : {<<>>}]

ParseUpload(upload) ==
    IF upload.header = "binbash" THEN ParseBinbashCSV(upload.records)
    ELSE ParseHomeboxCSV(upload.records)

Accepted(upload) ==
    \/ upload.header = "homebox"
    \/ /\ upload.header = "binbash"
       /\ \A k \in DOMAIN upload.records : ValidImportRow(ParseUpload(upload)[k])
=============================================================================
