------------------------------- MODULE MCContent -------------------------------
(* One item of two columns and one of one column, for the store migration.    *)
EXTENDS ContentMigration

TwoColumns == <<{1, 2}, {1}>>
=============================================================================
