---------------------------- MODULE MCStoreWriter ----------------------------
(***************************************************************************)
(* StoreWriter with values at the boundaries of every encoding, over       *)
(* blocks and pools that they overflow.                                    *)
(***************************************************************************)
EXTENDS StoreWriter

Ff(n) == [k \in 1..n |-> 255]
Zeros(n) == [k \in 1..n |-> 0]

(* The boundaries: 127 and 128, 2^(8n) - 1 and 2^(8n).                      *)
Unsigneds ==
  {ToWord(n) : n \in {127, 128, 255, 256, 65535, 65536}}
    \cup {Zeros(4) \o Ff(4), Zeros(3) \o <<1>> \o Zeros(4), Ff(8)}

(* 2^(8n-1) - 1, 2^(8n-1), -2^(8n-1) and one below it; -1, -32 and -33.    *)
Signeds ==
  {ToWord(n) : n \in {128, 32767, 32768}}
    \cup {Zeros(4) \o <<127>> \o Ff(3), Zeros(4) \o <<128>> \o Zeros(3)}
    \cup {Ff(8), Ff(7) \o <<224>>, Ff(7) \o <<223>>, Ff(7) \o <<128>>, Ff(7) \o <<127>>,
          Ff(6) \o <<128, 0>>, Ff(6) \o <<127, 255>>, Ff(4) \o <<128, 0, 0, 0>>,
          Ff(4) \o <<127, 255, 255, 255>>, <<128>> \o Zeros(7)}

Copies(n, v) == [k \in 1..n |-> v]

(* What a program can declare: numbers, strings that are not empty, and    *)
(* collections of pointers, which are arrays.                              *)
MCFieldValues ==
  {<<Value("uint", x)>> : x \in Unsigneds}
    \cup {<<Value("int", x)>> : x \in Signeds}
    \cup {<<Value("bool", <<1>>)>>, <<Value("float", <<1, 2, 3, 4>>)>>,
          <<Value("double", Ff(8))>>}
    \cup {<<Value("raw", Ff(n))>> : n \in {1, 31, 32}}
    \cup {<<Number("array", n)>> \o Copies(n, Number("uint", 1)) : n \in {15, 16}}

(* None, one whose value is an object, as only other programs write them,  *)
(* and so many that one more field makes them 16.                          *)
MCLazyFields ==
  {<<>>,
   <<Field(128, <<Number("map", 16)>> \o Copies(32, Value("nil", <<>>)))>>,
   [k \in 1..15 |-> Field(k, <<Value("bool", <<1>>)>>)]}
=============================================================================
