---------------------------- MODULE MCWsDispatch ----------------------------
(* WsDispatch on small instances: see the configurations. *)
EXTENDS WsDispatch, TLC

\* Messages pushed to all differ by nothing but their name, and so do workers
\* (used with no bad message among them).
Symmetry == Permutations(AllMsgs) \cup Permutations(DispatchWorkers)
              \cup Permutations(JobWorkers)
=============================================================================
