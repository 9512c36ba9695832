--------------------------- MODULE MCReportImages ---------------------------
(* ReportImages for TLC: named images, of which the first two may show the *)
(* same picture, and the reductions by symmetry that are sound for them.   *)
EXTENDS ReportImages, TLC

CONSTANTS i1, i2, i3, r1, r2, c1

OneImage == {i1}
TwoImages == {i1, i2}
ThreeImages == {i1, i2, i3}
SamePicture == [i \in Image |-> IF i \in {i1, i2} THEN 1 ELSE 2]
OwnPicture == [i \in Image |-> i]
OneRequest == {r1}
TwoRequests == {r1, r2}
OneCron == {c1}

Alike == Permutations(Image) \cup Permutations(Request)
=============================================================================
