------------------------------ MODULE MCTests ------------------------------
(* Three CPUs, with the masks 0x0001 (bench_hourglass) and 0x0003            *)
(* (bench_hourglass_worker, bench_worker_cut) for the collective regions.    *)
EXTENDS Tests

MCCPUs == {0, 1, 2}
MCMasks == {{0}, {0, 1}}
=============================================================================
