------------------------ MODULE MCAutoInvestigation ------------------------
(* AutoInvestigation for TLC.  On sqlite it takes two failing statements to *)
(* leave a running row linked to the rule; on postgres statements interleave *)
(* and one upset can hit any of them.                                       *)
EXTENDS AutoInvestigation

MCMaxUpsets == [sqlite |-> 2, postgres |-> 1]
=============================================================================
