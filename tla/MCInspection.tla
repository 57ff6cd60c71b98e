---------------------------- MODULE MCInspection ----------------------------
(* Repositories and requests for Inspection.                               *)
EXTENDS Inspection

MCGib == 1024

\* A checkpoint of the given tensors, in one file, with its index.
Entry(c, name) ==
  [file |-> "model", name |-> name, shape |-> ShapeOf(c, name), dtype |-> "F16", sound |-> TRUE]

Indexed(entries) ==
  [entries |-> entries,
   weightMap |-> [n \in {e.name : e \in entries} |-> (CHOOSE e \in entries : e.name = n).file]]

Complete(c) == {Entry(c, n) : n \in WeightNames(c)}

Without(entries, names) == {e \in entries : e.name \notin names}

\* Every way one tensor of a complete checkpoint may be wrong.
Damaged(c, n) ==
  LET e == Entry(c, n)
      rest == Without(Complete(c), {n})
  IN {rest,
      rest \union {[e EXCEPT !.shape = <<7>>]},
      rest \union {[e EXCEPT !.dtype = "I8"]},
      rest \union {[e EXCEPT !.name[3] = "scale"]}}

Variants(c) ==
  LET all == Complete(c)
      n == FinalNorm
      moved == [Entry(c, n) EXCEPT !.file = "other"]
      buffers == {[Entry(c, b) EXCEPT !.dtype = "F32"] : b \in BufferNames(c)}
  IN {Null, Malformed, ShardMissing}
       \union {Indexed(s) : s \in
          {all, Without(all, {Embedding}), Without(all, {Output}), Without(all, {Embedding, Output}),
           all \union buffers, Without(all, {Output}) \union buffers,
           Without(all, {n}) \union {moved}}
          \union UNION {Damaged(c, m) : m \in WeightNames(c)}}
       \union {[Indexed(all) EXCEPT !.weightMap[n] = "other"],
               [Indexed(all) EXCEPT !.entries = Without(@, {n})],
               [Indexed(all) EXCEPT !.entries = @ \union {moved}],
               Indexed(Without(all, {n}) \union {[Entry(c, n) EXCEPT !.sound = FALSE]})}

\* What the Hub reports of a checkpoint: the truth, nothing, too little, a
\* total that is not the sum, less than no elements of a dtype, none at all.
Honest(k) ==
  LET of(d) == ElementsOf({t \in TensorInventory(k) : t.dtype = d})
      dtypes == {e.dtype : e \in k.entries}
  IN [total |-> MapThenSumSet(of, dtypes), counts |-> [d \in dtypes |-> of(d)]]

Summaries(k) ==
  {Null,
   [total |-> 9, counts |-> [d \in {"F16"} |-> 9]],
   [total |-> 9, counts |-> [d \in {"F16"} |-> 8]],
   [total |-> 0, counts |-> [d \in {"F16"} |-> 0]],
   [total |-> 9, counts |-> [d \in {"F16", "I8"} |-> IF d = "F16" THEN 9 ELSE 0]],
   [total |-> 9, counts |-> [d \in {"F16", "I8"} |-> IF d = "F16" THEN 10 ELSE -1]]}
  \union (IF k \in {Null} \union Unreadable THEN {} ELSE {Honest(k)})

\* One small model of each family.
Base(type) ==
  [type |-> type, features |-> {}, layers |-> 1, hidden |-> 4, heads |-> 2, kvHeads |-> 2,
   headDim |-> 2, context |-> 4, vocab |-> 3, intermediate |-> 5, tied |-> Absent,
   attentionBias |-> Absent, mlpBias |-> Absent, window |-> Null, useWindow |-> Absent,
   layerTypes |-> <<>>]

Models4 == {Base(t) : t \in Families}

\* Settings that are read, defaulted, derived or refused.
Odd(b) ==
  UNION {
    {[b EXCEPT !.kvHeads = v] : v \in {Absent, Null, 0, 1, 3}},
    {[b EXCEPT !.kvHeads = Absent, !.heads = n, !.hidden = 64] : n \in {8, 32}},
    {[b EXCEPT !.headDim = v] : v \in {Absent, Null, 0, 3}},
    {[b EXCEPT !.headDim = Null, !.heads = 3, !.kvHeads = 3]},
    {[b EXCEPT !.tied = v] : v \in {TRUE, Null}},
    {[b EXCEPT !.attentionBias = v] : v \in {TRUE, FALSE, Null}},
    {[b EXCEPT !.mlpBias = v] : v \in {TRUE, FALSE, Null}},
    {[b EXCEPT !.window = v] : v \in {Absent, 8}},
    {[b EXCEPT !.useWindow = v] : v \in {TRUE, FALSE, Null}},
    {[b EXCEPT !.layerTypes = v] :
       v \in {<<"full_attention">>, <<"full_attention", "full_attention">>, <<"sliding_attention">>}},
    {[b EXCEPT !.features = {"experts"}], [b EXCEPT !.context = 2], [b EXCEPT !.layers = Absent],
     [b EXCEPT !.layers = 2], [b EXCEPT !.type = "gpt2"]}}

Accepted(c) == Registered(c) /\ Supported(c)

\* Every variant of the checkpoint and the summary for the models themselves,
\* tied and untied, biased where the family allows it.
Thorough ==
  {c \in Models4 \union {[b EXCEPT !.tied = TRUE] : b \in Models4}
       \union {[b EXCEPT !.attentionBias = TRUE, !.mlpBias = x] : b \in Models4, x \in {TRUE, FALSE}} :
     Accepted(c)}

Content(c, s, k) == [config |-> c, summary |-> s, checkpoint |-> k]

AdapterContents ==
  UNION {{Content(c, s, k) : s \in Summaries(k)} : <<c, k>> \in
           UNION {{<<c, v>> : v \in Variants(c)} : c \in Thorough}}
  \union
  UNION {LET k == IF Accepted(c) THEN Indexed(Complete(c)) ELSE Null
         IN {Content(c, s, k) : s \in Summaries(k)} : c \in UNION {Odd(b) : b \in Models4}}
  \union {Content(Malformed, Null, Null)}

\* Branches of three commits whose contents differ in every file.
HubContents ==
  LET llama == Base("llama")
      qwen == [Base("qwen2") EXCEPT !.tied = TRUE]
      complete(c) == Indexed(Complete(c))
  IN {Content(llama, Honest(complete(llama)), complete(llama)),
      Content(qwen, Honest(complete(qwen)), complete(qwen)),
      Content([llama EXCEPT !.vocab = 9], Null, Null),
      Content([llama EXCEPT !.tied = TRUE], Null, Indexed(Without(Complete(llama), {Output}))),
      Content(Malformed, Null, Malformed)}

Branches == {<<a, b, c>> : a, b, c \in HubContents}

\* One commit for what the adapters make of it, three for a branch that moves.
MCRepositories == {<<content>> : content \in AdapterContents} \union Branches

\* Usable capacities of 332, 460 and 921 bytes: the smallest holds a small model
\* counted short of its embedding, and not the model.  A headroom of 100 % is
\* refused by GPUCapacity.
MCRequests ==
  LET of(p, v, h) ==
        [workload |-> [prompt |-> p, output |-> 2, concurrency |-> 1, dtype |-> "float16"],
         gpu |-> [vram |-> v, headroom |-> h]]
  IN {of(1, <<5, 10>>, <<35, 1>>), of(2, <<5, 10>>, <<10, 1>>), of(1, <<1, 1>>, <<10, 1>>),
      of(2, <<1, 1>>, <<10, 1>>), of(1, <<1, 1>>, <<100, 1>>)}
=============================================================================
