---------------------------- MODULE MCSegmentLog ----------------------------
(* The instance of SegmentLog for TLC, see MCSegmentLog.cfg.  Requests and   *)
(* keys are interchangeable, but a liveness property is checked with it, so  *)
(* it has no symmetry set.                                                   *)
EXTENDS SegmentLog, TLC
=============================================================================
