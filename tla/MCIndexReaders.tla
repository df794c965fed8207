--------------------------- MODULE MCIndexReaders ---------------------------
(***************************************************************************)
(* Files of up to three lines, with a header, a repeated POR and a line    *)
(* the parser rejects, whose images differ by what they hold and lack.     *)
(***************************************************************************)
EXTENDS IndexReaders

CONSTANTS k1, k2, k3

por(k) == [key |-> k, form |-> "por"]
header == [key |-> k1, form |-> "unnamed"]
broken == [key |-> k2, form |-> "malformed"]

MCFiles == {<<header, por(k1), por(k2)>>,
            <<por(k3)>>,
            <<por(k3), por(k3)>>,
            <<por(k1), broken, por(k3)>>}
=============================================================================
