--------------------------- MODULE MCScanPipeline ---------------------------
(* Profiles and blank sheets for the small instances of ScanPipeline.      *)
EXTENDS ScanPipeline

CONSTANTS r1, r2

Combined == [perPage |-> FALSE, image |-> FALSE, long |-> FALSE, maxPages |-> 0,
             destinations |-> {1, 2}]
PerPage  == [perPage |-> TRUE, image |-> FALSE, long |-> TRUE, maxPages |-> 0,
             destinations |-> {1}]
Image    == [perPage |-> FALSE, image |-> TRUE, long |-> FALSE, maxPages |-> 2,
             destinations |-> {1}]

(* Two profiles share the scanner.                                         *)
CombinedAndImage   == [r \in Requests |-> IF r = r1 THEN Combined ELSE Image]
ImageAndPerPage    == [r \in Requests |-> IF r = r1 THEN Image ELSE PerPage]

NoBlank    == {}
FirstBlank == {1}
=============================================================================
