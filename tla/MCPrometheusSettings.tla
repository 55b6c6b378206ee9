------------------------ MODULE MCPrometheusSettings ------------------------
(* Model-checking instance of PrometheusSettings. *)
EXTENDS PrometheusSettings

=============================================================================
