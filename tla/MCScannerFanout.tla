--------------------------- MODULE MCScannerFanout ---------------------------
(* ScannerFanout with an issue "bridge" that dedup merges with two others, and
   two that merge with nothing. *)
EXTENDS ScannerFanout

MCIssues == {"leak", "race", "other", "bridge", "new"}
MCMergePairs == {{"leak", "bridge"}, {"race", "bridge"}}
MCReports == {{}, {"leak", "race", "other"}, {"bridge", "new"}}
===============================================================================
