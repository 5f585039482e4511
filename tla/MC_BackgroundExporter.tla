------------------------ MODULE MC_BackgroundExporter ------------------------
(* Two threads at the barrier and events of two sizes, the larger of which  *)
(* fills a request.                                                         *)
EXTENDS BackgroundExporter

CONSTANTS th1, th2
=============================================================================
