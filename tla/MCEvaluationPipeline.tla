------------------------ MODULE MCEvaluationPipeline ------------------------
(***************************************************************************)
(* Five evaluations through queues of two: one can be waiting, one at the  *)
(* provider and one decided while the venue and the main thread interfere, *)
(* and a queue can be full.                                                *)
(***************************************************************************)
EXTENDS EvaluationPipeline
=============================================================================
