------------------------------ MODULE TextForms ------------------------------
(***************************************************************************)
(* What is written for a reader: tables, expressions and saved sensors.    *)
(***************************************************************************)
EXTENDS TextTable, ExprTree, SensorText

TextsSpec == TableSpec /\ ExprSpec /\ SensorSpec

(* What is written can be read: columns line up, expressions that read alike
   evaluate alike, and a sensor comes back from its text, to six decimals. *)
TextsExact == ColumnsAligned /\ TextTellsValue /\ ReadsWhatWasSaved
=============================================================================
