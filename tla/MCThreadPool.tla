----------------------------- MODULE MCThreadPool -----------------------------
(* Three threads, a product, a node without computation and another product. *)
EXTENDS ThreadPool

MCWork == <<4, 0, 1>>
=============================================================================
