---------------------------- MODULE MCRdbOutputs ----------------------------
(* Instances of RdbOutputs for TLC. *)
EXTENDS RdbOutputs, TLC

CONSTANTS x1, x2, x3

\* Two exports of one RDB by GLE Exporter, and a spreadsheet.
OutNames == x1 :> "rdb" @@ x2 :> "rdb" @@ x3 :> "xlsx"
OneTool == x1 :> "gle" @@ x2 :> "gle" @@ x3 :> "plain"

\* A tool has a directory of its own, so that two requests at a name are of one
\* tool.  Here they are of two, for each kind of request to meet another at its
\* name; what VB Updater does, GLE Exporter does.
Tools == x1 :> "gle" @@ x2 :> "dnp" @@ x3 :> "plain"
=============================================================================
