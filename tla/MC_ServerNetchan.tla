-------------------------- MODULE MC_ServerNetchan --------------------------
(* Fragments of two bytes: messages shorter than a fragment, exactly one     *)
(* fragment (which needs an empty second one), two and a half fragments.     *)
EXTENDS ServerNetchan, Bitwise

MCMessages == {<<"a">>, <<"b", "c">>, <<"c", "a", "b", "c", "a">>}

\* NETCHAN_GENCHECKSUM (qcommon.h), in 16 bits.
MCChecksum(c, n) == c ^^ ((n * c) % 65536)

\* A first and a last fragment of a connection with another challenge.
MCStray == {[sequence |-> 2, fragmented |-> TRUE, start |-> 0, data |-> <<"a", "a">>,
             checksum |-> MCChecksum(12, 2)],
            [sequence |-> 2, fragmented |-> TRUE, start |-> 2, data |-> <<"a">>,
             checksum |-> MCChecksum(12, 2)]}
=============================================================================
