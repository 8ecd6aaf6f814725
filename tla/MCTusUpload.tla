---------------------------- MODULE MCTusUpload ----------------------------
(* TusUpload on small instances: see the configurations. *)
EXTENDS TusUpload

\* Uploads, and workers, differ by nothing but their name.
Symmetry == Permutations(Uploads) \cup Permutations(Workers)
=============================================================================
