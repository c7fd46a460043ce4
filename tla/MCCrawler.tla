----------------------------- MODULE MCCrawler -----------------------------
(* Instances of Crawler for TLC.                                           *)
EXTENDS Crawler

CONSTANTS u1, u2

\* Every page names itself.
TruePage == [u \in Url |-> u]

\* The page at u1 names the row of u2.
CrossedPage == [TruePage EXCEPT ![u1] = u2]
=============================================================================
