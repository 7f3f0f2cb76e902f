------------------------------ MODULE MCJaxImporter ------------------------------
(***************************************************************************)
(* Instances of JaxImporter: small programs, each of the shape that a kind *)
(* of layer has when JAX traces it.                                        *)
(***************************************************************************)
EXTENDS JaxImporter

E(prim, in, out, params) == [prim |-> prim, in |-> in, out |-> <<out>>, params |-> params, inner |-> Nothing]
O(prim, in, out) == E(prim, in, out, Nothing)

Call(prim, in, out, ins, eqns, outs) ==
  [prim |-> prim, in |-> in, out |-> <<out>>, params |-> Nothing,
   inner |-> [ins |-> ins, eqns |-> eqns, outs |-> outs]]

Program(ins, weights, ints, given, eqns, outs) ==
  [ins |-> ins, consts |-> SetToSeq(DOMAIN given \ Range(ins)), given |-> given, weights |-> weights,
   ints |-> ints, eqns |-> eqns, outs |-> outs]

Dot(x, y, out, cx, cy, bx, by) ==
  E("dot_general", <<x, y>>, out,
    [lhs_contracting |-> cx, rhs_contracting |-> cy, lhs_batch |-> bx, rhs_batch |-> by])

Broadcast(x, out, shape, dims) ==
  E("broadcast_in_dim", <<x>>, out, [shape |-> shape, broadcast_dimensions |-> dims])

Reduce(prim, x, out, axes) == E(prim, <<x>>, out, [axes |-> axes])

Reshape(x, out, shape) == E("reshape", <<x>>, out, [new_sizes |-> shape])
Transpose(x, out, dims) == E("transpose", <<x>>, out, [permutation |-> dims])

Conv(x, w, out, strides, padding, dilation, groups) ==
  E("conv_general_dilated", <<x, w>>, out,
    [window_strides |-> strides, padding |-> padding, rhs_dilation |-> dilation,
     feature_group_count |-> groups])

Relu(x, out) == Call("custom_jvp_call", <<x>>, out, <<out \o "i">>,
                     <<O("max", <<out \o "i", "zero">>, out \o "o")>>, <<out \o "o">>)

\* Subtraction of the greatest, exponentials, division by their sum.
SoftmaxEqns(x, shape, axis, kept) ==
  <<Reduce("reduce_max", x, x \o "m", <<axis>>), Broadcast(x \o "m", x \o "mb", kept, <<0>>),
    O("stop_gradient", <<x \o "mb">>, x \o "ms"), O("sub", <<x, x \o "ms">>, x \o "d"),
    O("exp", <<x \o "d">>, x \o "e"), Reduce("reduce_sum", x \o "e", x \o "s", <<axis>>),
    Broadcast(x \o "s", x \o "sb", kept, <<0>>), O("div", <<x \o "e", x \o "sb">>, x \o "y")>>

Small == Matrix(<<<<1, 0, 3>>, <<2, 2, 0>>>>)
Other == Matrix(<<<<1, 1, 2>>, <<2, 3, 0>>>>)

--------------------------------------------------------------------------------

Perceptron == Program(<<"w1", "b1", "x">>, {"w1", "b1"}, {},
  [x |-> Sample(<<2, 3>>, 1), w1 |-> Sample(<<3, 2>>, 2), b1 |-> Sample(<<2>>, 3)],
  <<Dot("x", "w1", "h", <<1>>, <<0>>, <<>>, <<>>), Broadcast("b1", "bb", <<1, 2>>, <<1>>),
    O("add", <<"h", "bb">>, "z"), Relu("z", "y")>>, <<"y">>)

\* Multi-head projections: a weight of three dimensions, and one contracted over two.
Heads == Program(<<"x", "wq", "wo">>, {"wq", "wo"}, {},
  [x |-> Sample(<<1, 2, 4>>, 1), wq |-> Sample(<<4, 2, 2>>, 2), wo |-> Sample(<<2, 2, 3>>, 3)],
  <<Dot("x", "wq", "q", <<2>>, <<0>>, <<>>, <<>>), Dot("q", "wo", "y", <<2, 3>>, <<0, 1>>, <<>>, <<>>)>>,
  <<"y">>)

\* The right operand is computed and contracted over its last dimension.
Mixed == Program(<<"x", "w">>, {}, {}, [x |-> Sample(<<2, 3>>, 1), w |-> Sample(<<2, 2, 3>>, 2)],
  <<O("neg", <<"w">>, "v"), Dot("x", "v", "y", <<1>>, <<2>>, <<>>, <<>>)>>, <<"y">>)

Attention == Program(<<"q", "k", "v">>, {}, {},
  [q |-> Sample(<<1, 2, 2, 3>>, 1), k |-> Sample(<<1, 2, 2, 3>>, 2), v |-> Sample(<<1, 2, 2, 3>>, 3)],
  <<Dot("q", "k", "s", <<3>>, <<3>>, <<0, 2>>, <<0, 2>>),
    E("mul", <<"s", "half">>, "t", Nothing), Reshape("t", "t2", <<4, 2>>)>>
  \o SoftmaxEqns("t2", <<4, 2>>, 1, <<4, 1>>)
  \o <<Reshape("t2y", "p", <<1, 2, 2, 2>>), Dot("p", "v", "c", <<3>>, <<1>>, <<0, 1>>, <<0, 2>>),
       Transpose("c", "y", <<0, 2, 1, 3>>)>>, <<"y">>)

\* One head of keys and values for two of queries; scores weigh the values.
GroupedQuery == Program(<<"q", "k", "v">>, {}, {},
  [q |-> Sample(<<1, 2, 1, 2, 3>>, 1), k |-> Sample(<<1, 2, 1, 3>>, 2), v |-> Sample(<<1, 2, 1, 3>>, 3)],
  <<Dot("k", "q", "s", <<3>>, <<4>>, <<0, 2>>, <<0, 2>>), Transpose("s", "t", <<0, 1, 4, 3, 2>>),
    Dot("v", "t", "c", <<1>>, <<4>>, <<0, 2>>, <<0, 1>>), Transpose("c", "y", <<0, 4, 1, 3, 2>>)>>, <<"y">>)

FiveDimensions == Program(<<"x", "z">>, {}, {},
  [x |-> Sample(<<1, 1, 2, 2, 3>>, 1), z |-> Sample(<<1, 1, 2, 3, 2>>, 2)],
  <<Dot("x", "z", "p", <<4>>, <<3>>, <<0, 1, 2>>, <<0, 1, 2>>), O("exp", <<"p">>, "y")>>, <<"y">>)

LayerNorm == Program(<<"x", "scale">>, {"scale"}, {},
  [x |-> Sample(<<2, 3>>, 1), scale |-> Sample(<<3>>, 2)],
  <<Reduce("reduce_sum", "x", "s", <<1>>), Broadcast("s", "sb", <<2, 1>>, <<0>>),
    O("div", <<"sb", "three">>, "m"), O("sub", <<"x", "m">>, "d"),
    E("integer_pow", <<"d">>, "d2", [y |-> 2]), Reduce("reduce_sum", "d2", "v", <<1>>),
    O("div", <<"v", "three">>, "var"), O("add", <<"var", "one">>, "ve"), O("rsqrt", <<"ve">>, "r"),
    Broadcast("r", "rb", <<2, 1>>, <<0>>), O("mul", <<"d", "rb">>, "n"),
    Broadcast("scale", "sc", <<1, 3>>, <<1>>), O("mul", <<"n", "sc">>, "y")>>, <<"y">>)

--------------------------------------------------------------------------------

\* Padding of SAME with a stride, and a bias for the channels.
Image == Program(<<"x", "w", "b">>, {"w", "b"}, {},
  [x |-> Sample(<<1, 2, 3, 2>>, 1), w |-> Sample(<<2, 2, 2, 3>>, 2), b |-> Sample(<<3>>, 3)],
  <<Conv("x", "w", "c", <<2, 1>>, <<<<0, 1>>, <<1, 0>>>>, <<1, 1>>, 1),
    Reshape("b", "b4", <<1, 1, 1, 3>>), O("add", <<"c", "b4">>, "y")>>, <<"y">>)

Depthwise == Program(<<"x", "w">>, {"w"}, {},
  [x |-> Sample(<<1, 3, 2, 2>>, 1), w |-> Sample(<<2, 1, 1, 2>>, 2)],
  <<Conv("x", "w", "y", <<1, 1>>, <<<<1, 1>>, <<0, 0>>>>, <<2, 1>>, 2)>>, <<"y">>)

\* A kernel that is an input; the images are padded in a call of their own.
PaddedCall == Program(<<"x", "w">>, {}, {},
  [x |-> Sample(<<1, 2, 2, 1>>, 1), w |-> Sample(<<2, 2, 1, 2>>, 2)],
  <<Call("pjit", <<"x", "zero">>, "p", <<"xi", "zi">>,
      <<E("pad", <<"xi", "zi">>, "pi", [padding_config |-> <<<<0, 0, 0>>, <<1, 0, 0>>, <<1, 1, 0>>, <<0, 0, 0>>>>])>>,
      <<"pi">>),
    O("copy", <<"p">>, "pc"),
    Conv("pc", "w", "y", <<1, 1>>, <<<<0, 0>>, <<0, 0>>>>, <<1, 1>>, 1)>>, <<"y">>)

Pool == Program(<<"x">>, {}, {}, [x |-> Sample(<<1, 4, 2, 2>>, 1)],
  <<E("pad", <<"x", "zero">>, "p", [padding_config |-> <<<<0, 0, 0>>, <<0, 0, 0>>, <<0, 0, 0>>, <<0, 0, 0>>>>]),
    E("reduce_window_max", <<"p">>, "y",
      [window_dimensions |-> <<1, 2, 2, 1>>, window_strides |-> <<1, 2, 1, 1>>,
       padding |-> <<<<0, 0>>, <<0, 0>>, <<0, 0>>, <<0, 0>>>>])>>, <<"y">>)

GlobalMean == Program(<<"x">>, {}, {}, [x |-> Sample(<<1, 3, 2, 2>>, 1)],
  <<Reduce("reduce_sum", "x", "s", <<1, 2>>), O("div", <<"s", "three">>, "m"),
    O("div", <<"m", "two">>, "y")>>, <<"y">>)

EmbedCall == Program(<<"i", "table">>, {"table"}, {"i"},
  [i |-> Matrix(<<<<1>>, <<0>>, <<2>>>>), table |-> Sample(<<3, 2>>, 2)],
  <<Call("jit", <<"i", "table">>, "e", <<"ii", "ti">>, <<E("gather", <<"ti", "ii">>, "ei", Nothing)>>, <<"ei">>),
    E("gather", <<"table", "i">>, "f", Nothing), O("add", <<"e", "f">>, "y")>>, <<"y">>)

--------------------------------------------------------------------------------

\* A causal mask is made of constants.
Mask == Program(<<"x">>, {}, {}, [x |-> Sample(<<2, 2>>, 1)],
  <<E("iota", <<>>, "r", [size |-> 2]), Broadcast("r", "rows", <<2, 2>>, <<0>>),
    Broadcast("r", "cols", <<2, 2>>, <<1>>), O("ge", <<"rows", "cols">>, "c"),
    O("mul", <<"x", "c">>, "m"), O("ge", <<"cols", "zero">>, "all"),
    Broadcast("two", "far", <<2, 2>>, <<>>), O("select_n", <<"all", "far", "m">>, "y")>>, <<"y">>)

\* A condition that is the same everywhere and known.
Branch == Program(<<"x", "z">>, {}, {}, [x |-> Sample(<<2>>, 1), z |-> Sample(<<2>>, 2)],
  <<O("gt", <<"two", "one">>, "c"), O("select_n", <<"c", "x", "z">>, "s"), O("exp", <<"s">>, "y")>>, <<"y">>)

Where == Program(<<"x", "z">>, {}, {"x", "si"}, [x |-> Small, z |-> Other],
  <<O("lt", <<"x", "z">>, "c"),
    Call("pjit", <<"c", "x", "two">>, "s", <<"ci", "xi", "ti">>,
         <<Broadcast("ti", "tb", <<2, 3>>, <<>>), O("select_n", <<"ci", "xi", "tb">>, "si")>>, <<"si">>),
    O("select_n", <<"c", "s", "z">>, "y")>>, <<"y">>)

Compare == Program(<<"x", "z">>, {}, {"x", "z", "l"}, [x |-> Small, z |-> Other],
  <<O("eq", <<"x", "z">>, "e"), O("ne", <<"x", "z">>, "n"), O("gt", <<"x", "z">>, "g"),
    O("ne", <<"g", "zero">>, "h"), O("min", <<"x", "z">>, "l"), O("add", <<"e", "h">>, "a"),
    O("sub", <<"a", "n">>, "b"), O("mul", <<"b", "l">>, "y")>>, <<"y">>)

Quantified == Program(<<"x", "z">>, {}, {"x", "z"}, [x |-> Small, z |-> Other],
  <<O("eq", <<"x", "z">>, "e"), Reduce("reduce_and", "e", "a", <<1>>), Reduce("reduce_or", "e", "o", <<1>>),
    O("add", <<"a", "o">>, "y")>>, <<"y">>)

Powers == Program(<<"x">>, {}, {}, [x |-> Sample(<<2, 2>>, 1)],
  <<E("integer_pow", <<"x">>, "c", [y |-> 3]), E("integer_pow", <<"x">>, "r", [y |-> -1]),
    O("square", <<"x">>, "q"), O("add", <<"c", "r">>, "s"), O("add", <<"s", "q">>, "y")>>, <<"y">>)

Gelu == Program(<<"x">>, {}, {}, [x |-> Sample(<<2, 2>>, 1)],
  <<Call("jit", <<"x">>, "y", <<"g">>,
      <<O("mul", <<"half", "g">>, "h"), O("neg", <<"g">>, "n"), O("mul", <<"n", "root_half">>, "k"),
        O("erfc", <<"k">>, "e"), O("mul", <<"h", "e">>, "p")>>, <<"p">>)>>, <<"y">>)

Layout == Program(<<"x", "z">>, {}, {}, [x |-> Sample(<<1, 2, 3, 2>>, 1), z |-> Sample(<<2, 2, 3>>, 2)],
  <<Transpose("x", "t", <<0, 3, 1, 2>>), E("squeeze", <<"t">>, "s", [dimensions |-> <<0>>]),
    E("concatenate", <<"s", "z">>, "c", [dimension |-> 1]),
    E("slice", <<"c">>, "l", [start_indices |-> <<0, 1, 0>>, limit_indices |-> <<2, 3, 3>>, strides |-> <<1, 1, 1>>]),
    E("dynamic_slice", <<"l", "one", "zero", "zero">>, "d", [slice_sizes |-> <<1, 2, 3>>]),
    O("tanh", <<"d">>, "y")>>, <<"y">>)

SplitStack == Program(<<"x", "w">>, {"w"}, {},
  [x |-> Sample(<<2, 2>>, 1), w |-> Sample(<<2, 1, 3>>, 2)],
  <<Dot("x", "w", "h", <<1>>, <<0>>, <<>>, <<>>), Reshape("h", "f", <<2, 3>>),
    [E("split", <<"f">>, "a", [axis |-> 1, sizes |-> <<1, 2>>]) EXCEPT !.out = <<"a", "b">>],
    Reduce("reduce_sum", "b", "c", <<1>>), Reshape("a", "d", <<2>>),
    E("stack", <<"c", "d">>, "y", [axis |-> 0])>>, <<"y">>)

--------------------------------------------------------------------------------
(* Programs that are refused: there is no lowering; _dim_val is not defined, or only *)
(* in a jaxpr that was called before; the source of a padding is a name of the       *)
(* caller, or one of the callee; an input is a result.                               *)

Unsupported == Program(<<"x">>, {}, {}, [x |-> Sample(<<2>>, 1)], <<O("sort", <<"x">>, "y")>>, <<"y">>)

LoneSplit == Program(<<"x">>, {}, {}, [x |-> Sample(<<2, 3>>, 1)],
  <<[E("split", <<"x">>, "a", [axis |-> 1, sizes |-> <<1, 2>>]) EXCEPT !.out = <<"a", "y">>]>>, <<"y">>)

SplitAfterCall == Program(<<"x", "z">>, {}, {},
  [x |-> Sample(<<1, 2, 3>>, 1), z |-> Sample(<<1, 3, 2>>, 2)],
  <<Call("pjit", <<"x", "z">>, "p", <<"xi", "zi">>,
      <<Dot("xi", "zi", "pi", <<2>>, <<1>>, <<0>>, <<0>>)>>, <<"pi">>),
    [E("split", <<"p">>, "a", [axis |-> 2, sizes |-> <<1, 1>>]) EXCEPT !.out = <<"a", "y">>]>>, <<"y">>)

PadOutside == Program(<<"x", "w">>, {}, {}, [x |-> Sample(<<1, 2, 2, 1>>, 1), w |-> Sample(<<2, 2, 1, 2>>, 2)],
  <<E("pad", <<"x", "zero">>, "p", [padding_config |-> <<<<0, 0, 0>>, <<1, 0, 0>>, <<0, 0, 0>>, <<0, 0, 0>>>>]),
    Call("pjit", <<"p", "w">>, "y", <<"pi", "wi">>,
      <<Conv("pi", "wi", "yi", <<1, 1>>, <<<<0, 0>>, <<0, 0>>>>, <<1, 1>>, 1)>>, <<"yi">>)>>, <<"y">>)

PadInside == Program(<<"x", "w">>, {}, {}, [x |-> Sample(<<1, 2, 2, 1>>, 1), w |-> Sample(<<2, 2, 1, 2>>, 2)],
  <<Call("pjit", <<"x", "zero">>, "p", <<"xi", "zi">>,
      <<O("exp", <<"xi">>, "ei"),
        E("pad", <<"ei", "zi">>, "pi", [padding_config |-> <<<<0, 0, 0>>, <<1, 0, 0>>, <<0, 0, 0>>, <<0, 0, 0>>>>])>>,
      <<"pi">>),
    Conv("p", "w", "y", <<1, 1>>, <<<<0, 0>>, <<0, 0>>>>, <<1, 1>>, 1)>>, <<"y">>)

InputReturned == Program(<<"x">>, {}, {}, [x |-> Sample(<<2>>, 1)], <<O("exp", <<"x">>, "y")>>, <<"y", "x">>)

--------------------------------------------------------------------------------
(* Programs whose graphs do not compute what they compute *)

Fourth == Program(<<"x">>, {}, {}, [x |-> Sample(<<2, 2>>, 1)],
  <<E("integer_pow", <<"x">>, "y", [y |-> 4])>>, <<"y">>)

\* Every pow is a square.
ThirdPower == Program(<<"x">>, {}, {}, [x |-> Sample(<<2, 2>>, 1)], <<O("pow", <<"x", "three">>, "y")>>, <<"y">>)

\* max(x, z) is relu(x).
Maximum == Program(<<"x", "z">>, {}, {}, [x |-> Small, z |-> Other], <<O("max", <<"x", "z">>, "y")>>, <<"y">>)

\* The second layer finds the weight that the first has turned round.
SharedKernel == Program(<<"x", "w">>, {"w"}, {},
  [x |-> Sample(<<1, 2, 2, 2>>, 1), w |-> Sample(<<1, 1, 2, 2>>, 2)],
  <<Conv("x", "w", "h", <<1, 1>>, <<<<0, 0>>, <<0, 0>>>>, <<1, 1>>, 1),
    Conv("h", "w", "y", <<1, 1>>, <<<<0, 0>>, <<0, 0>>>>, <<1, 1>>, 1)>>, <<"y">>)

\* A product of matrices over their first dimensions is taken for the usual one.
Contracted == Program(<<"x", "w">>, {}, {}, [x |-> Sample(<<2, 2>>, 1), w |-> Sample(<<2, 2>>, 2)],
  <<Dot("x", "w", "y", <<0>>, <<0>>, <<>>, <<>>)>>, <<"y">>)

Strided == Program(<<"x">>, {}, {}, [x |-> Sample(<<4, 2>>, 1)],
  <<E("slice", <<"x">>, "y", [start_indices |-> <<0, 0>>, limit_indices |-> <<4, 2>>, strides |-> <<2, 1>>])>>,
  <<"y">>)

SumPool == Program(<<"x">>, {}, {}, [x |-> Sample(<<1, 2, 2, 2>>, 1)],
  <<E("reduce_window_sum", <<"x">>, "y",
      [window_dimensions |-> <<1, 2, 2, 1>>, window_strides |-> <<1, 1, 1, 1>>,
       padding |-> <<<<0, 0>>, <<0, 0>>, <<0, 0>>, <<0, 0>>>>])>>, <<"y">>)

\* A pad whose result is not read by a convolution or a window.
LonePad == Program(<<"x">>, {}, {}, [x |-> Sample(<<1, 2, 2, 1>>, 1)],
  <<E("pad", <<"x", "zero">>, "p", [padding_config |-> <<<<0, 0, 0>>, <<1, 0, 0>>, <<0, 0, 0>>, <<0, 0, 0>>>>]),
    O("exp", <<"p">>, "y")>>, <<"y">>)

AtLeast == Program(<<"x", "z">>, {}, {}, [x |-> Small, z |-> Other], <<O("ge", <<"x", "z">>, "y")>>, <<"y">>)

--------------------------------------------------------------------------------

MCPrograms ==
  {Typed(p) : p \in
     {Perceptron, Heads, Mixed, Attention, GroupedQuery, FiveDimensions, LayerNorm, Image, Depthwise,
      PaddedCall, Pool, GlobalMean, EmbedCall, Mask, Branch, Where, Compare, Quantified, Powers, Gelu,
      Layout, SplitStack, Unsupported, LoneSplit, SplitAfterCall, PadOutside, PadInside, InputReturned}}

\* Not of a checked instance: what the properties are violated by.
Unfaithful ==
  {Typed(p) : p \in {Fourth, ThirdPower, Maximum, SharedKernel, Contracted, Strided, SumPool, LonePad, AtLeast}}
================================================================================
