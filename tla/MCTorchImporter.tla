----------------------------- MODULE MCTorchImporter -----------------------------
(***************************************************************************)
(* Instances of TorchImporter: small programs, each of the shape that a    *)
(* kind of layer has when torch.export traces it.                          *)
(***************************************************************************)
EXTENDS TorchImporter

N(op, in, out, p) == [op |-> op, in |-> in, out |-> out, p |-> p]
O(op, in, out) == N(op, in, out, Nothing)

Parameter(pointer) == [kind |-> "PARAMETER", pointer |-> pointer, order |-> "rows"]
Turned(pointer) == [Parameter(pointer) EXCEPT !.order = "columns"]
Buffer(pointer) == [Parameter(pointer) EXCEPT !.kind = "CONSTANT"]

Program(ins, held, given, nodes, outs) ==
  [ins |-> ins, held |-> held, given |-> given, nodes |-> nodes, outs |-> outs]

View(x, out, shape) == N("view", <<x>>, out, [shape |-> shape])
Turn(x, out, d, e) == N("transpose", <<x>>, out, [dim0 |-> d, dim1 |-> e])
Part(x, k, out) == N("getitem", <<x>>, out, [index |-> k])
Conv(op, in, out, stride, padding, dilation, groups) ==
  N(op, in, out, [stride |-> stride, padding |-> padding, dilation |-> dilation, groups |-> groups])
Pool(op, x, out, ksize, stride, padding) ==
  N(op, <<x>>, out, [ksize |-> ksize, stride |-> stride, padding |-> padding])
Reduce(op, x, out, dims, keepdim) == N(op, <<x>>, out, [dim |-> dims, keepdim |-> keepdim])
Gelu(x, out, approximate) == N("gelu", <<x>>, out, [approximate |-> approximate])
Bounded(op, x, out, min, max) == N(op, <<x>>, out, [min |-> min, max |-> max])

Free == P  \* beyond every number: no bound

Small == Matrix(<<<<1, 0, 3>>, <<2, 2, 0>>>>)

--------------------------------------------------------------------------------
(* Text *)

\* One table looks words up, makes scores, and is also held the other way round;
\* a buffer and a parameter have no user.
TiedTable == Program(<<"table", "head", "turned", "spare", "codes", "words">>,
  [table |-> Parameter(1), head |-> Parameter(1), turned |-> Turned(1), spare |-> Parameter(2),
   codes |-> Buffer(1)],
  [table |-> Sample(<<2, 2>>, 1), head |-> Sample(<<2, 2>>, 1),
   turned |-> TransposeOf(Sample(<<2, 2>>, 1), 0, 1), spare |-> Sample(<<2>>, 2),
   codes |-> Sample(<<2, 2>>, 1), words |-> Matrix(<<<<1, 0>>>>)],
  <<O("embedding", <<"table", "words">>, "h"), O("linear", <<"h", "head">>, "s"),
    O("linear", <<"h", "turned">>, "r"), O("sub", <<"s", "r">>, "y")>>, <<"y">>)

\* Queries, keys and values of one product, by the way they are taken apart.
Attention == Program(<<"w", "b", "x">>, [w |-> Parameter(1), b |-> Parameter(2)],
  [w |-> Sample(<<6, 2>>, 1), b |-> Sample(<<6>>, 2), x |-> Sample(<<1, 3, 2>>, 3)],
  <<O("linear", <<"x", "w", "b">>, "h"), N("split", <<"h">>, "parts", [size |-> 2, dim |-> -1]),
    Part("parts", 0, "q0"), Part("parts", 1, "k0"), Part("parts", 2, "v0"),
    View("q0", "q1", <<1, 3, 2, 1>>), Turn("q1", "q", 1, 2),
    View("k0", "k1", <<1, 3, 2, 1>>), Turn("k1", "k", 1, 2),
    View("v0", "v1", <<1, 3, 2, 1>>), Turn("v1", "v", 1, 2),
    O("scaled_dot_product_attention", <<"q", "k", "v">>, "a"), Turn("a", "t", 1, 2),
    O("contiguous", <<"t">>, "c"), View("c", "y", <<1, 3, 2>>)>>, <<"y">>)

\* Queries are more than keys.
Uneven == Program(<<"w", "x">>, [w |-> Parameter(1)],
  [w |-> Sample(<<4, 2>>, 1), x |-> Sample(<<1, 2, 2>>, 3)],
  <<O("linear", <<"x", "w">>, "h"), N("split_with_sizes", <<"h">>, "parts", [sizes |-> <<2, 1, 1>>, dim |-> -1]),
    Part("parts", 0, "q"), Part("parts", 1, "k"), Part("parts", 2, "v"),
    O("mul", <<"k", "v">>, "m"), N("expand", <<"m">>, "e", [shape |-> <<1, 2, 2>>]),
    O("add", <<"q", "e">>, "y")>>, <<"y">>)

\* Five dimensions, of which the batch is 1.
VisionAttention == Program(<<"x">>, Nothing, [x |-> Sample(<<1, 2, 12>>, 3)],
  <<View("x", "h", <<1, 2, 3, 2, 2>>), N("permute", <<"h">>, "p", [dims |-> <<2, 0, 3, 1, 4>>]),
    N("unbind", <<"p">>, "parts", [dim |-> 0]), Part("parts", 0, "q"), Part("parts", 2, "v"),
    N("select", <<"p">>, "k", [dim |-> 0, index |-> 1]), Turn("k", "kt", -2, -1),
    O("matmul", <<"q", "kt">>, "s"), N("softmax", <<"s">>, "a", [dim |-> -1]),
    O("matmul", <<"a", "v">>, "o"), N("permute", <<"o">>, "t", [dims |-> <<0, 2, 1, 3>>]),
    N("flatten", <<"t">>, "y", [start |-> 2, end |-> -1, shape |-> <<1, 2, 4>>])>>, <<"y">>)

Gated == Program(<<"w", "v", "x">>, [w |-> Parameter(1), v |-> Parameter(2)],
  [w |-> Sample(<<4, 2>>, 1), v |-> Sample(<<2>>, 2), x |-> Sample(<<1, 2, 2>>, 3)],
  <<N("rms_norm", <<"x", "v">>, "n", [eps |-> 3]), O("linear", <<"n", "w">>, "h"),
    N("chunk", <<"h">>, "parts", [chunks |-> 2, dim |-> -1]), Part("parts", 0, "g"), Part("parts", 1, "u"),
    O("silu", <<"g">>, "s"), O("mul", <<"s", "u">>, "m"), O("dropout", <<"m">>, "y")>>, <<"y">>)

\* A causal mask, and positions.
Mask == Program(<<"x">>, Nothing, [x |-> Sample(<<1, 2, 2>>, 1)],
  <<N("arange", <<>>, "r", [start |-> 0, end |-> 2, step |-> 1]), View("r", "rows", <<2, 1>>),
    N("unsqueeze", <<"r">>, "cols", [dim |-> 0]), O("le", <<"cols", "rows">>, "c"),
    N("ones", <<>>, "o", [shape |-> <<1, 2>>, value |-> 1]), O("cumsum", <<"o">>, "p"),
    N("zeros", <<>>, "z", [shape |-> <<1, 2>>, value |-> 0]), O("ge", <<"p", "z">>, "all"),
    O("mul", <<"x", "c">>, "m"), O("add", <<"m", "p">>, "a"), O("mul", <<"a", "all">>, "y")>>, <<"y">>)

--------------------------------------------------------------------------------
(* Images *)

Residual == Program(<<"w", "gain", "bias", "mean", "var", "fc", "fb", "x">>,
  [w |-> Parameter(1), gain |-> Parameter(2), bias |-> Parameter(3), fc |-> Parameter(4),
   fb |-> Parameter(5), mean |-> Buffer(6), var |-> Buffer(7)],
  [w |-> Sample(<<2, 2, 2, 1>>, 1), gain |-> Sample(<<2>>, 2), bias |-> Sample(<<2>>, 3),
   mean |-> Sample(<<2>>, 4), var |-> Sample(<<2>>, 5), fc |-> Sample(<<3, 2>>, 6),
   fb |-> Sample(<<3>>, 7), x |-> Sample(<<1, 2, 3, 4>>, 8)],
  <<Conv("conv2d", <<"x", "w">>, "c", <<1, 2>>, <<1, 0>>, <<2, 1>>, 0),
    N("batch_norm", <<"c", "gain", "bias", "mean", "var">>, "n", [eps |-> 4]), O("relu", <<"n">>, "r"),
    Pool("max_pool2d_with_indices", "r", "both", <<2, 2>>, <<1, 1>>, <<1, 0>>), Part("both", 0, "m"),
    N("adaptive_avg_pool2d", <<"m">>, "a", [size |-> <<1>>]),
    N("flatten", <<"a">>, "f", [start |-> 1, end |-> -1, shape |-> <<1, 2>>]),
    O("linear", <<"f", "fc", "fb">>, "y")>>, <<"y">>)

\* Two groups, with a bias for each; numbers given once stand for both directions.
Grouped == Program(<<"w", "b", "x">>, [w |-> Parameter(1), b |-> Buffer(2)],
  [w |-> Sample(<<4, 2, 1, 1>>, 1), b |-> Sample(<<4>>, 2), x |-> Sample(<<1, 4, 3, 3>>, 3)],
  <<Conv("convolution", <<"x", "w", "b">>, "c", <<2>>, <<0>>, <<1>>, 2),
    Pool("avg_pool2d", "c", "y", <<2>>, <<>>, <<0>>)>>, <<"y">>)

\* As many groups as channels, with several kernels for each, and with one.
Depthwise == Program(<<"w", "b", "v", "x">>, [w |-> Buffer(1), b |-> Parameter(2), v |-> Parameter(3)],
  [w |-> Sample(<<4, 1, 1, 2>>, 1), b |-> Sample(<<4>>, 2), v |-> Sample(<<4, 1, 2, 1>>, 3),
   x |-> Sample(<<1, 2, 2, 3>>, 4)],
  <<Conv("conv2d", <<"x", "w", "b">>, "c", <<1, 1>>, <<0, 0>>, <<1, 1>>, 2),
    Conv("conv2d", <<"c", "v">>, "y", <<1, 1>>, <<1, 0>>, <<1, 1>>, 4)>>, <<"y">>)

Signal == Program(<<"w", "b", "x">>, [w |-> Parameter(1), b |-> Parameter(2)],
  [w |-> Sample(<<3, 2, 2>>, 1), b |-> Sample(<<3>>, 2), x |-> Sample(<<1, 2, 3>>, 3)],
  <<Conv("convolution", <<"x", "w", "b">>, "c", <<1>>, <<1>>, <<2>>, 1), Gelu("c", "y", "none")>>, <<"y">>)

\* Windows that are shifted and shifted back.
Shifted == Program(<<"x">>, Nothing, [x |-> Sample(<<1, 2, 3, 2>>, 1)],
  <<N("roll", <<"x">>, "r", [shifts |-> <<-1, -2>>, dims |-> <<1, 2>>]),
    N("roll", <<"x">>, "same", [shifts |-> <<3>>, dims |-> <<2>>]), O("mul", <<"r", "same">>, "m"),
    N("roll", <<"m">>, "y", [shifts |-> <<1, 2>>, dims |-> <<1, 2>>])>>, <<"y">>)

--------------------------------------------------------------------------------
(* Others *)

\* Two kinds of normalization: by the root of the mean of squares, and by length.
Normalized == Program(<<"gain", "bias", "x">>, [gain |-> Parameter(1), bias |-> Parameter(2)],
  [gain |-> Sample(<<3>>, 1), bias |-> Sample(<<3>>, 2), x |-> Sample(<<1, 2, 3>>, 3)],
  <<N("layer_norm", <<"x", "gain", "bias">>, "n", [eps |-> 2]),
    N("pow", <<"n">>, "s", [exponent |-> 2]), Reduce("mean", "s", "m", <<-1>>, TRUE),
    O("add", <<"m", "one">>, "e"), O("rsqrt", <<"e">>, "r"), O("mul", <<"n", "r">>, "u"),
    Reduce("linalg_vector_norm", "u", "l", <<-1>>, TRUE), O("div", <<"u", "l">>, "y")>>, <<"y">>)

Reductions == Program(<<"x">>, Nothing, [x |-> Sample(<<1, 2, 2, 3>>, 1)],
  <<Reduce("mean", "x", "m", <<2, 3>>, TRUE), N("expand_as", <<"m", "x">>, "e", Nothing), O("sub", <<"x", "e">>, "d"),
    Reduce("sum", "d", "s", <<-1, -2>>, FALSE), Reduce("sum", "s", "y", <<1>>, FALSE)>>, <<"y">>)

Clamps == Program(<<"x">>, Nothing, [x |-> Small],
  <<Bounded("relu6", "x", "a", 0, 6), Bounded("hardtanh", "x", "b", -1, 1), Bounded("clamp", "x", "c", -2, 2),
    Bounded("clamp_min", "x", "d", 1, Free), O("mul", <<"a", "b">>, "e"), O("mul", <<"c", "d">>, "f"),
    O("rsub", <<"e", "one">>, "g"), O("add", <<"f", "g">>, "y")>>, <<"y">>)

Layout == Program(<<"x", "z">>, Nothing, [x |-> Sample(<<2, 3>>, 1), z |-> Sample(<<2, 1>>, 2)],
  <<N("cat", <<"x", "z", "x">>, "c", [dim |-> 1]),
    N("slice", <<"c">>, "s", [dim |-> 1, start |-> 1, end |-> 1000, step |-> 1]),
    N("unflatten", <<"s">>, "u", [dim |-> 1, sizes |-> <<3, 2>>, shape |-> <<2, 3, 2>>]), N("permute", <<"u">>, "p", [dims |-> <<1, 0, 2>>]),
    N("to", <<"p">>, "t", Nothing), N("pad", <<"t">>, "q", [pad |-> <<0, 0>>]),
    N("repeat", <<"q">>, "r", [repeats |-> <<1, 1, 2>>]), Gelu("r", "y", "tanh")>>, <<"y">>)

\* A layer whose weight is kept inputs first, numbers mixed by half, and a constant
\* computed from a parameter.
Mixed == Program(<<"w", "b", "a", "x">>, [w |-> Parameter(1), b |-> Parameter(2), a |-> Parameter(3)],
  [w |-> Sample(<<3, 2>>, 1), b |-> Sample(<<2>>, 2), a |-> Sample(<<2>>, 3), x |-> Sample(<<2, 3>>, 4)],
  <<O("addmm", <<"b", "x", "w">>, "h"), O("softplus", <<"a">>, "c"), O("mul", <<"h", "c">>, "m"),
    O("lerp", <<"h", "m", "half">>, "y")>>, <<"y">>)

Unknown == Program(<<"x">>, Nothing, [x |-> Sample(<<2>>, 1)], <<O("sort", <<"x">>, "y")>>, <<"y">>)

\* Five dimensions, none of them 1.
Windows == Program(<<"x">>, Nothing, [x |-> Sample(<<2, 2, 2, 2, 2>>, 1)],
  <<N("permute", <<"x">>, "y", [dims |-> <<1, 0, 2, 3, 4>>])>>, <<"y">>)

--------------------------------------------------------------------------------
(* Programs whose graphs do not compute what they compute, or that are refused *)

\* Keys of one head for two of queries: each is to follow itself.
Heads == Program(<<"k">>, Nothing, [k |-> Sample(<<1, 2, 1, 2>>, 1)],
  <<N("repeat_interleave", <<"k">>, "y", [repeats |-> 2, dim |-> 1])>>, <<"y">>)

\* One token: the dimension that is dropped lies between those that are kept.
OneToken == Program(<<"x">>, Nothing, [x |-> Sample(<<1, 1, 12>>, 1)],
  <<View("x", "h", <<1, 1, 3, 2, 2>>), N("permute", <<"h">>, "p", [dims |-> <<2, 0, 3, 1, 4>>]),
    N("select", <<"p">>, "y", [dim |-> 0, index |-> 1])>>, <<"y">>)

\* The first token of each sequence; one of more than one dimension to its left.
FirstTokens == Program(<<"x">>, Nothing, [x |-> Sample(<<2, 2, 2>>, 1)],
  <<N("select", <<"x">>, "y", [dim |-> 1, index |-> 0])>>, <<"y">>)

LastPart == Program(<<"x">>, Nothing, [x |-> Sample(<<2, 2>>, 1)],
  <<N("unbind", <<"x">>, "parts", [dim |-> -1]), Part("parts", 1, "y")>>, <<"y">>)

UnevenChunks == Program(<<"x">>, Nothing, [x |-> Sample(<<5>>, 1)],
  <<N("chunk", <<"x">>, "parts", [chunks |-> 2, dim |-> 0]), Part("parts", 1, "y")>>, <<"y">>)

\* Comparisons and fills that become the wrong constants.
Comparison == Program(<<"x", "z">>, Nothing, [x |-> Small, z |-> Matrix(<<<<1, 1, 2>>, <<2, 3, 0>>>>)],
  <<O("gt", <<"x", "z">>, "c"), O("mul", <<"x", "c">>, "y")>>, <<"y">>)

NewZeros == Program(<<"x">>, Nothing, [x |-> Small],
  <<N("new_zeros", <<"x">>, "z", [shape |-> <<2, 3>>, value |-> 0]), O("add", <<"x", "z">>, "y")>>, <<"y">>)

FullLike == Program(<<"x">>, Nothing, [x |-> Small],
  <<N("full_like", <<"x">>, "z", [shape |-> <<2, 3>>, value |-> 2]), O("add", <<"x", "z">>, "y")>>, <<"y">>)

UpperBound == Program(<<"x">>, Nothing, [x |-> Small], <<Bounded("clamp_max", "x", "y", -Free, 1)>>, <<"y">>)

Greater == Program(<<"x", "z">>, Nothing, [x |-> Small, z |-> Matrix(<<<<1, 1, 2>>, <<2, 3, 0>>>>)],
  <<O("maximum", <<"x", "z">>, "y")>>, <<"y">>)

EverySecond == Program(<<"x">>, Nothing, [x |-> Sample(<<4>>, 1)],
  <<N("slice", <<"x">>, "y", [dim |-> 0, start |-> 0, end |-> 4, step |-> 2])>>, <<"y">>)

OverRows == Program(<<"x">>, Nothing, [x |-> Sample(<<2, 3>>, 1)], <<N("softmax", <<"x">>, "y", [dim |-> 0])>>, <<"y">>)

\* A vector as long as the other operand has channels.
RowBias == Program(<<"x", "z">>, Nothing, [x |-> Sample(<<1, 2, 2, 2>>, 1), z |-> Sample(<<2>>, 2)],
  <<O("add", <<"x", "z">>, "y")>>, <<"y">>)

Picked == Program(<<"x", "i">>, Nothing, [x |-> Sample(<<1, 3>>, 1), i |-> Matrix(<<<<2, 0>>>>)],
  <<N("gather", <<"x", "i">>, "y", [dim |-> 1])>>, <<"y">>)

Around == Program(<<"x">>, Nothing, [x |-> Sample(<<1, 2>>, 1)], <<N("pad", <<"x">>, "y", [pad |-> <<1, 0>>])>>, <<"y">>)

ReturnedCopy == Program(<<"x">>, Nothing, [x |-> Sample(<<2>>, 1)], <<O("clone", <<"x">>, "y")>>, <<"y">>)

--------------------------------------------------------------------------------

MCPrograms ==
  {Exported(p) : p \in
     {TiedTable, Attention, Uneven, VisionAttention, Gated, Mask, Residual, Grouped, Depthwise, Signal,
      Shifted, Normalized, Reductions, Clamps, Layout, Mixed, Unknown, Windows}}

HeadPrograms == {Exported(p) : p \in {Heads, VisionAttention}}

\* Not of a checked instance: what SameOutputs is violated by, but for the last, which
\* is refused.
Unfaithful ==
  {Exported(p) : p \in {Heads, OneToken, FirstTokens, LastPart, UnevenChunks, Comparison, NewZeros, FullLike,
                        UpperBound, Greater, EverySecond, OverRows, RowBias, Picked, Around, ReturnedCopy}}
================================================================================
