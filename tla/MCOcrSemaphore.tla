--------------------------- MODULE MCOcrSemaphore ---------------------------
(* OcrSemaphore for TLC: a handful of tasks over one or two places.        *)
EXTENDS OcrSemaphore

CONSTANTS j1, j2, j3, j4, j5

MCJob == {j1, j2, j3, j4, j5}
=============================================================================
