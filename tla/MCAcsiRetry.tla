---------------------------- MODULE MCAcsiRetry -----------------------------
(* Model checking AcsiRetry: two READ commands and one WRITE.              *)
EXTENDS AcsiRetry
=============================================================================
