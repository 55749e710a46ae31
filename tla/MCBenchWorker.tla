--------------------------- MODULE MCBenchWorker ---------------------------
(* bench_worker() on three CPUs: no load, one load and a sleeper, and the     *)
(* break out of load_nbrs at three; two load ranges of the four.             *)
EXTENDS BenchWorker

MCLoadNbrs == <<0, 1, 3, 7>>
MCCPUs == 0..2
=============================================================================
