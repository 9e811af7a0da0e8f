------------------------- MODULE MCYearEndDividend -------------------------
(* Values of the constants for the runs of YearEndDividend.                *)
EXTENDS YearEndDividend

CONSTANTS company2, company3, purse

\* Member 1 is of company 1; the run names the companies of members 2 and 3.
CompanyOfThree == [u \in Members |-> CASE u = 1 -> 1 [] u = 2 -> company2 [] u = 3 -> company3]
EqualPurses    == [u \in Members |-> purse]
=============================================================================
