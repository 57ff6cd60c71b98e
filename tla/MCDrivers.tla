----------------------------- MODULE MCDrivers -----------------------------
(* Two cases in the first launch, of which the first is a warm-up, and one *)
(* in the second; pools of two and of four blocks.                         *)
EXTENDS Drivers

MCRunTable == <<1, 2>>
MCLaunches == <<<<1, 2>>, <<3>>>>
MCPools == <<21, 42>>

Layout(blocks, pool, caching) ==
  [block_size |-> 16, num_gpu_blocks |-> blocks, kv_cache_memory_bytes |-> pool,
   enable_prefix_caching |-> caching]

MCLayouts ==
  {<<Layout(2, 21, "False")>>, <<Layout(4, 42, "False")>>, <<Layout(2, 21, "True")>>}

Report(successful, errored, duration) ==
  [successful |-> successful, errored |-> errored, duration |-> duration,
   prompt_min |-> 4104, prompt_max |-> 4104, output_min |-> 256, output_max |-> 256,
   start_time |-> 10, end_time |-> 20]

Sample(time, gap) ==
  [timestamp |-> time, scrape_failed |-> gap, running |-> 1, waiting |-> 0,
   usage |-> 50, preemptions |-> 0]

Inside == {Sample(5, FALSE), Sample(20, FALSE)}
Outside == {Sample(15, TRUE), Sample(21, FALSE)}

\* One sample more, with a gap, of which CaseProblem would not approve.
MCStrays == {Sample(15, TRUE)}

Load(exit, report, samples) == [exit |-> exit, report |-> report, samples |-> samples]

MCMeasured ==
  {Load(0, Report(1, 0, 30), Inside), Load(0, Report(1, 0, 180), Inside),
   Load(0, Report(1, 0, 180), Outside), Load(0, Report(1, 1, 180), Inside),
   Load(1, Report(1, 0, 180), Inside), Load(1, NoReport, Inside)}
=============================================================================
