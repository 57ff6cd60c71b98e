------------------------------ MODULE MCBudget ------------------------------
(* Requests around every boundary of a small GPU, with a GiB of 256 bytes. *)
EXTENDS Budget

MCGib == 256

MCSpecs == [layers : {1, 2}, kvHeads : {1, 2}, headDim : {2}, context : {3}]

MCWorkloads ==
  [prompt : {1, 2}, output : {1, 2}, concurrency : 1..3, dtype : {"float32", "float16"}]

\* 0.1, 1 and 1.3 GiB; 0, 7.5, 10 and 99.9 % of headroom.
MCGpus ==
  [vram : {<<1, 10>>, <<1, 1>>, <<13, 10>>}, headroom : {<<0, 1>>, <<75, 10>>, <<10, 1>>, <<999, 10>>}]

MCCounts == {Unknown} \union {1, 5, 6, 7, 40, 57, 58, 64, 65, 100, 120, 128, 129}

MCRequests == [spec : MCSpecs, count : MCCounts, workload : MCWorkloads, gpu : MCGpus]
=============================================================================
