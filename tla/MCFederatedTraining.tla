------------------------- MODULE MCFederatedTraining -------------------------
(***************************************************************************)
(* Data files for the run of FederatedTraining: all short ones, and longer *)
(* ones of few different rows.                                             *)
(***************************************************************************)
EXTENDS FederatedTraining

CONSTANTS a, b

Few == {RowLine(Row(Spam, <<a, b>>)), RowLine(Row(Ham, <<b>>))}
Lines == Few \cup {RowLine(Row(Spam, <<>>)), RowLine(Row(Spam, <<a>>)), RowLine(Row(Ham, <<a, a>>)),
                   Blank, Malformed}

FilesOfUpTo(short, long) ==
  {NoFile} \cup UNION {[1..k -> Lines] : k \in 0..short} \cup UNION {[1..k -> Few] : k \in 0..long}
DataFiles == FilesOfUpTo(3, 5)
=============================================================================
