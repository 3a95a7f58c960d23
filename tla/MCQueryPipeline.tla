---------------------------- MODULE MCQueryPipeline ----------------------------
(* The query pipeline for TLC.  Queries are interchangeable; the symmetry is  *)
(* used by runs without temporal properties only.                             *)
EXTENDS QueryPipeline, TLC

Symmetry == Permutations(Queries) \cup Permutations(Refreshers)
=============================================================================
