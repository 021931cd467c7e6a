------------------------------ MODULE MCCodec -------------------------------
(* Values at the edges of every part of every format. *)
EXTENDS Codec

Filled(n) == [i \in 1 .. n |-> 200]

Base == [chain_id |-> <<1>>, nonce |-> <<>>, max_priority_fee_per_gas |-> <<2>>,
         max_fee_per_gas |-> <<128>>, gas_limit |-> <<82, 8>>, to |-> <<0, 9>>, value |-> <<7>>,
         data |-> <<>>, y_parity |-> <<>>, r |-> <<3, 0, 0, 129>>, s |-> <<0, 0, 1, 44>>]

Integers16 == {<<>>, <<1>>, <<127>>, <<128>>, <<1, 0>>, <<255, 255>>}

Words == {<<0, 0, 0, 1>>, <<0, 0, 0, 128>>, <<0, 1, 0, 0>>, <<255, 255, 255, 255>>}

Variants ==
    {[Base EXCEPT !.nonce = v] : v \in Integers16}
        \cup {[Base EXCEPT !.max_fee_per_gas = v] : v \in Integers16}
        \cup {[Base EXCEPT !.value = v] : v \in Integers16}
        \cup {[Base EXCEPT !.data = v] :
                 v \in {<<0>>, <<128>>, TransferData(<<0, 9>>, <<1, 0>>), Filled(25), Filled(56), Filled(256)}}
        \cup {[Base EXCEPT !.r = v, !.y_parity = <<1>>] : v \in Words}
        \cup {[Base EXCEPT !.s = v] : v \in Words}

MCSamples ==
    [eip1559 |-> Variants,
     transfer |-> {[chain_id |-> c, to |-> <<0, 9>>, value |-> v] :
                      c \in {<<0, 0>>, <<0, 1>>, <<1, 0>>}, v \in {<<0, 0>>, <<0, 1>>, <<255, 255>>}},
     key |-> {<<0, 0, 0, 1>>, <<255, 255, 255, 200>>},
     share |-> {[index |-> i, threshold |-> 2, value |-> v] :
                   i \in {1, 255}, v \in {<<0, 0, 0, 0>>, <<1, 2, 3, 4>>}},
     bytes |-> {<<>>, <<10>>, <<0, 255>>, <<171, 0, 16>>},
     address |-> {<<0, 9>>, <<171, 205>>},
     quantity |-> {<<0, 0>>, <<0, 15>>, <<0, 16>>, <<16, 0>>, <<255, 255>>},
     uint256 |-> {<<0, 0>>, <<0, 1>>, <<1, 0>>, <<255, 255>>}]

Edges == {<<b>> : b \in {0, 1, 2, 127, 128, 129, 130, 183, 184, 192, 193, 247, 248, 255}} \cup {<<1, 1>>}

Characters == {<<c>> : c \in {0, 10, Plus, X, Other}} \cup {<<Lead, Continuation>>}

MCSymbols == [f \in Formats |-> IF f \in Texts THEN Characters ELSE Edges]

MCOrder == <<255, 255, 255, 254>>
=============================================================================
