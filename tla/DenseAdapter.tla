---------------------------- MODULE DenseAdapter ----------------------------
(* How the family adapters of src/vramfit/adapters/ read a model's         *)
(* config.json, the Hub's parameter summary and the checkpoint's tensor    *)
(* headers: normalize, needs_headers and resolve_parameters of             *)
(* DenseDecoderAdapter with the hooks of its four families.                *)
(*                                                                         *)
(* A config is a record of the fields the adapters read; a field may be    *)
(* Absent from the JSON or Null.  c.features holds a tag for every setting *)
(* _check_features refuses whatever the family (a foreign architecture, a  *)
(* second component, experts, quantization, malformed RoPE ...).  Every    *)
(* refusal is a ModelInspectionError; which of its two kinds, and how it   *)
(* is worded, is left out.                                                 *)
EXTENDS Models, Sequences, FiniteSetsExt

CONSTANTS Absent, Null

FloatDtypes == {"F16", "BF16", "F32", "F64"}

Families == {"llama", "qwen2", "qwen3", "mistral"}

\* JSON numbers are integers here; a value of another kind is refused as null is.
Numeric(c) ==
  \A f \in {"layers", "hidden", "heads", "kvHeads", "headDim", "context", "vocab", "intermediate"} :
    c[f] \in Int \union {Absent, Null}

DefaultKvHeads == [llama |-> Absent, qwen2 |-> 32, qwen3 |-> 32, mistral |-> 8]

DefaultHeadDim == [llama |-> Absent, qwen2 |-> Absent, qwen3 |-> 128, mistral |-> Absent]

PositiveInt(value) == value \notin {Absent, Null} /\ value > 0

\* boolean(config, name, False): Absent reads as False.
BooleanOk(value) == value # Null

-----------------------------------------------------------------------------
(* normalize                                                               *)

UsesSlidingWindow(c) ==
  \/ c.useWindow = TRUE
  \/ c.type = "llama" /\ c.window \notin {Absent, Null}
  \/ c.type = "mistral" /\ c.window # Null

UnsupportedBias(c) ==
  \/ c.type # "llama" /\ c.mlpBias = TRUE
  \/ c.type = "qwen2" /\ c.attentionBias # Absent
  \/ c.type = "mistral" /\ c.attentionBias = TRUE

OutsideBoundary(c) ==
  \/ c.features # {}
  \/ UsesSlidingWindow(c)
  \/ UnsupportedBias(c)
  \/ \E i \in DOMAIN c.layerTypes : c.layerTypes[i] # "full_attention"

KvHeads(c) ==
  CASE c.kvHeads \notin {Absent, Null}                              -> c.kvHeads
    [] c.kvHeads = Absent /\ DefaultKvHeads[c.type] # Absent        -> DefaultKvHeads[c.type]
    [] OTHER                                                        -> c.heads

UsesDefaultHeadDim(c) == c.headDim = Absent /\ DefaultHeadDim[c.type] # Absent

DerivesHeadDim(c) == c.headDim \in {Absent, Null} /\ ~UsesDefaultHeadDim(c)

HeadDim(c) ==
  CASE UsesDefaultHeadDim(c) -> DefaultHeadDim[c.type]
    [] DerivesHeadDim(c)     -> c.hidden \div c.heads
    [] OTHER                 -> c.headDim

DecoderSpec(c) ==
  [layers |-> c.layers, hidden |-> c.hidden, heads |-> c.heads,
   kvHeads |-> KvHeads(c), headDim |-> HeadDim(c), context |-> c.context]

\* The checks on the fields themselves.
Consistent(c) ==
  /\ \A f \in {"layers", "hidden", "heads", "context", "vocab", "intermediate"} : PositiveInt(c[f])
  /\ \A f \in {"tied", "attentionBias", "mlpBias", "useWindow"} : BooleanOk(c[f])
  /\ PositiveInt(KvHeads(c))
  /\ ~(c.type = "qwen3" /\ c.headDim = Null)
  /\ DerivesHeadDim(c) => c.hidden % c.heads = 0
  /\ PositiveInt(HeadDim(c)) /\ HeadDim(c) % 2 = 0
  /\ ValidDecoderSpec(DecoderSpec(c))
  /\ ~(KvHeads(c) = 1 /\ c.heads > 1)
  /\ c.layerTypes = <<>> \/ Len(c.layerTypes) = c.layers

\* normalize returns a DecoderSpec.
Supported(c) == ~OutsideBoundary(c) /\ Consistent(c)

-----------------------------------------------------------------------------
(* needs_headers: a summary is [total, dtypes] or Null.                    *)

NeedsHeaders(c, summary) ==
  \/ c.tied = TRUE
  \/ summary = Null
  \/ summary.total <= 0
  \/ Cardinality(summary.dtypes) > 1
  \/ ~(summary.dtypes \subseteq FloatDtypes)

-----------------------------------------------------------------------------
(* The layout _tensor_shapes expects.  A tensor's name is                  *)
(* <<layer, module, kind>>, with layer -1 outside the layers.              *)

Embedding == <<-1, "embed_tokens", "weight">>
Output == <<-1, "lm_head", "weight">>
FinalNorm == <<-1, "norm", "weight">>

Attention == {"q_proj", "k_proj", "v_proj", "o_proj"}
Mlp == {"gate_proj", "up_proj", "down_proj"}
LayerNorms(c) ==
  {"input_layernorm", "post_attention_layernorm"}
    \union (IF c.type = "qwen3" THEN {"q_norm", "k_norm"} ELSE {})

HasBias(c, projection) ==
  CASE c.type = "llama" -> IF projection \in Attention THEN c.attentionBias = TRUE ELSE c.mlpBias = TRUE
    [] c.type = "qwen2" -> projection \in {"q_proj", "k_proj", "v_proj"}
    [] c.type = "qwen3" -> projection \in Attention /\ c.attentionBias = TRUE
    [] OTHER            -> FALSE

WeightNames(c) ==
  LET layers == 0..(c.layers - 1)
      biased == {p \in Attention \union Mlp : HasBias(c, p)}
  IN {Embedding, Output, FinalNorm}
       \union (layers \X (LayerNorms(c) \union Attention \union Mlp) \X {"weight"})
       \union (layers \X biased \X {"bias"})

BufferNames(c) == ((-1)..(c.layers - 1)) \X {"rotary_emb"} \X {"inv_freq"}

\* The shape of an expected tensor; a bias has its projection's rows.
ShapeOf(c, name) ==
  LET s == DecoderSpec(c)
      q == s.heads * s.headDim
      kv == s.kvHeads * s.headDim
      module == name[2]
      matrix == CASE module \in {"embed_tokens", "lm_head"} -> <<c.vocab, s.hidden>>
                  [] module = "q_proj"                      -> <<q, s.hidden>>
                  [] module \in {"k_proj", "v_proj"}        -> <<kv, s.hidden>>
                  [] module = "o_proj"                      -> <<s.hidden, q>>
                  [] module \in {"gate_proj", "up_proj"}    -> <<c.intermediate, s.hidden>>
                  [] module = "down_proj"                   -> <<s.hidden, c.intermediate>>
                  [] module \in {"q_norm", "k_norm"}        -> <<s.headDim>>
                  [] module = "rotary_emb"                  -> <<s.headDim \div 2>>
                  [] OTHER                                  -> <<s.hidden>>
  IN IF name[3] = "bias" THEN <<matrix[1]>> ELSE matrix

\* prod(shape): no tensor here has more than two dimensions.
Elements(shape) ==
  CASE Len(shape) = 0 -> 1
    [] Len(shape) = 1 -> shape[1]
    [] OTHER          -> shape[1] * shape[2]

-----------------------------------------------------------------------------
(* resolve_parameters: headers are a set of [name, shape, dtype], or Null. *)

\* Mutant of ExpectedNames: a tied checkpoint has to store both aliases.
ExpectedBothAliases(c, present) == WeightNames(c)

\* Tied embeddings may be stored under either alias.
ExpectedNames(c, present) ==
  IF c.tied = TRUE THEN WeightNames(c) \ ({Embedding, Output} \ present) ELSE WeightNames(c)

\* The headers are the standard layout of this family, and nothing else.
StandardLayout(c, headers) ==
  LET present == {t.name : t \in headers}
  IN /\ \A t, u \in headers : t.name = u.name => t = u
     /\ c.tied = TRUE => {Embedding, Output} \intersect present # {}
     /\ ExpectedNames(c, present) \subseteq present
     /\ \A t \in headers :
          /\ t.name \in ExpectedNames(c, present) \union BufferNames(c)
          /\ t.shape = ShapeOf(c, t.name)
          /\ t.dtype \in FloatDtypes

ElementsOf(tensors) == MapThenSumSet(LAMBDA t : Elements(t.shape), tensors)

\* Mutant of LearnedCount: the output alias is dropped even if stored alone.
LearnedCountWithoutOutput(c, headers) ==
  ElementsOf({t \in headers :
    t.name \notin BufferNames(c) /\ ~(c.tied = TRUE /\ t.name = Output)})

\* Mutant of LearnedCount: both tied aliases are counted.
LearnedCountOfAliases(c, headers) ==
  ElementsOf({t \in headers : t.name \notin BufferNames(c)})

\* Tied aliases stored twice are one parameter; buffers are not learned.
LearnedCount(c, headers) ==
  ElementsOf({t \in headers :
    /\ t.name \notin BufferNames(c)
    /\ ~(c.tied = TRUE /\ t.name = Output /\ \E u \in headers : u.name = Embedding)})

FromHeaders(c, summary, headers) ==
  KnownParameters(
     LearnedCount(c, headers), "safetensors_headers",
     {w \in {"summary differs", "buffers excluded"} :
        \/ w = "summary differs" /\ summary # Null /\ summary.total # ElementsOf(headers)
        \/ w = "buffers excluded" /\ \E t \in headers : t.name \in BufferNames(c)})

ResolveParameters(c, summary, headers) ==
  CASE headers = Null /\ ~NeedsHeaders(c, summary) ->
         KnownParameters(summary.total, "hub_safetensors", {})
    [] headers # Null /\ StandardLayout(c, headers) -> FromHeaders(c, summary, headers)
    [] OTHER -> UnknownParameters
=============================================================================
