---------------------------- MODULE MCInventory -----------------------------
(***************************************************************************)
(* A small instance of Inventory and Restore for TLC.  Fields are at most  *)
(* four characters long.                                                   *)
(***************************************************************************)
EXTENDS Restore, TLC

(* Two spellings of one name, which a spreadsheet would take for a formula. *)
Lower == <<"plus", "bin", "x", "x">>
Upper == <<"plus", "Bin", "x", "x">>

MCNames == {Lower, Upper}
MCTitleCase == [n \in MCNames |-> Upper]
MCFold == [n \in MCNames |-> Lower]

(* A formula, one of two lines behind a quote that was typed, a text over   *)
(* the limit, and what truncation makes of it.                              *)
Formula  == <<"equals", "x">>
Quoted   == <<"quote", "equals", "CRLF", "x">>
Overlong == <<"equals", "blank", "x", "LF", "x">>
CutOff   == <<"equals", "blank", "x", "LF">>

MCTexts == {Formula, Quoted, Overlong, CutOff}

Bare == <<>>
MCInfos == {Bare}

(* Rows of a backup as they are in the file, before the quotes are taken    *)
(* away: no rows; one row; one new bin met twice; two bins; a row over the  *)
(* limit.                                                                   *)
Cells(bin, text) == SanitizeRow([bin |-> bin, info |-> Bare, text |-> text])

Backups ==
    {<<>>,
     <<Cells(Lower, Formula), Cells(Lower, Formula)>>,
     <<Cells(Upper, Formula), Cells(Lower, Formula)>>}
    \cup {<<Cells(Lower, t)>> : t \in {Formula, Overlong}}

(* A deep path, an archived row, a row without a bin, and long fields. *)
HomeboxExport ==
    <<[archived |-> FALSE, name |-> Overlong,
       location |-> <<<<"Bin">>, Lower \o <<"x">>, <<"x">>>>],
      [archived |-> TRUE,  name |-> Formula, location |-> <<Lower>>],
      [archived |-> FALSE, name |-> Formula, location |-> <<<<"x">>>>]>>

MCUploads ==
    {[header |-> "binbash", records |-> b] : b \in Backups}
    \cup {[header |-> "homebox", records |-> HomeboxExport],
          [header |-> "other",   records |-> <<>>]}
=============================================================================
