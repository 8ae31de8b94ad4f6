------------------------------ MODULE Restore -------------------------------
(***************************************************************************)
(* What a backup is worth: the CSV that writeCSVTo writes of the committed *)
(* inventory, and the inventory that a replacing import of that very file  *)
(* leaves.  Module Inventory has the states and the import's statements,   *)
(* module Csv the file.                                                    *)
(***************************************************************************)
EXTENDS Inventory, SequencesExt

(* items JOIN bins, one row per item.  The order is not looked at by the   *)
(* import, except that ids follow it.                                      *)
Listing(d) ==
    LET ids == SetToSeq(DOMAIN d.items)
        Row(i) == [bin  |-> d.bins[d.items[i].bin].name,
                   info |-> d.bins[d.items[i].bin].info,
                   text |-> d.items[i].text]
    IN  [k \in DOMAIN ids |-> Row(ids[k])]

WriteCSV(d) ==
    [header  |-> "binbash",
     records |-> [k \in DOMAIN Listing(d) |-> SanitizeRow(Listing(d)[k])]]

Restored(d) ==
    LET file == ParseUpload(WriteCSV(d))
        loaded[k \in 0..Len(file)] ==
            IF k = 0 THEN Emptied(d) ELSE LoadRow(loaded[k - 1], file[k])
    IN  loaded[Len(file)]

-----------------------------------------------------------------------------
(* What a field is after the way out and back *)

(* The quote that a user typed before a formula character is taken for the *)
(* program's own, and comes off.                                           *)
BeginsQuoted(field) ==
    Len(field) > 1 /\ field[1] = "quote" /\ field[2] \in csvFormulaPrefixes

(* What else changes on the way: a line break becomes LF, and what         *)
(* truncation left at the end of a field, a blank or a line break, goes.   *)
ComesBackAs(field) ==
    TrimSpace(NormalizeLines(IF BeginsQuoted(field) THEN Tail(field) ELSE field))

(* A field with nothing of all that.                                       *)
Plain(field) ==
    /\ ~BeginsQuoted(field)
    /\ Trimmed(field)
    /\ \A k \in DOMAIN field : field[k] # "CRLF"

PlainRow(row) == Plain(row.bin) /\ Plain(row.info) /\ Plain(row.text)

RowComesBackAs(row) ==
    [bin  |-> ComesBackAs(row.bin),
     info |-> ComesBackAs(row.info),
     text |-> ComesBackAs(row.text)]

(* How often each row is in a listing. *)
Counted(rows) ==
    [row \in Range(rows) |-> Cardinality({k \in DOMAIN rows : rows[k] = row})]

(***************************************************************************)
(* Every backup of a state the forms and imports can lead to is accepted   *)
(* by the import as a whole, and restores the items in bins of the same    *)
(* names, categories and descriptions: to the letter, if all fields are    *)
(* plain, and otherwise with the changes that ComesBackAs lists and no     *)
(* others, as long as these do not make two bin names one.                 *)
(* The comment of desanitizeCSVField claims more: that an import of        *)
(* binbash's own export "round-trips exactly".  The code does not, when a  *)
(* user typed a quote before a formula character, or a field has CRLF in   *)
(* it or ends in what truncation left.                                     *)
(* Bins without items are not in the file, and a file without rows, which  *)
(* replaces nothing, has nothing to restore.                               *)
(* (desanitizeCSVField; the comments of parseBinbashCSV and commitImport)  *)
(***************************************************************************)
BackupRestores ==
    LET listed   == Listing(db)
        back     == [k \in DOMAIN listed |-> RowComesBackAs(listed[k])]
        restored == Counted(Listing(Restored(db)))
    IN  /\ Accepted(WriteCSV(db))
        /\ (\A k \in DOMAIN listed : PlainRow(listed[k])) => restored = Counted(listed)
        /\ (\A j, k \in DOMAIN listed :
                listed[j].bin # listed[k].bin => back[j].bin # back[k].bin)
           => restored = Counted(back)
=============================================================================
