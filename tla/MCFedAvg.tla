------------------------------ MODULE MCFedAvg ------------------------------
(* Instances of FedAvg.  Workers are numbered, as NS3_WORKER_ID does.        *)
EXTENDS FedAvg

TwoWorkers == {"w0", "w1"}
=============================================================================
