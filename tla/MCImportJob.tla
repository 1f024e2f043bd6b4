------------------------------ MODULE MCImportJob ------------------------------
(* Instances of ImportJob for TLC. *)
EXTENDS ImportJob

CONSTANTS tag, broken, first, last, rating

\* A tag on a page with one that fails its checks, two tickets on a page each, and
\* a rating of the first.
MCPages  == << <<<<tag, broken>>>>, <<<<first>>, <<last>>>>, <<<<rating>>>> >>
MCParent == [r \in Records |-> IF r = rating THEN first ELSE NoParent]

OnePage == << <<<<first>>>> >>
================================================================================
