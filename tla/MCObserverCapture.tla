--------------------------- MODULE MCObserverCapture ---------------------------
(***************************************************************************)
(* Instances of ObserverCapture for TLC.                                   *)
(***************************************************************************)
EXTENDS ObserverCapture

CONSTANTS moon, comet, first, second

MCAliases == {moon, comet}
MCObjects == {first, second}
=============================================================================
