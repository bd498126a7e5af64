----------------------------- MODULE MCVescHost -----------------------------
(* A small instance of VescHost.  The pieces are frames of each kind of    *)
(* request, one of them in the long form and one damaged, and the start of *)
(* a longer frame that never comes, which holds back the frames behind it. *)
EXTENDS VescHost

LongForm(p) == Header(3, Len(p)) \o p \o Crc[p] \o <<Stop>>
Damaged(f)  == Front(f) \o <<0>>
FalseStart  == <<2, Base - 1>>

MCPieces ==
    {Encoded(<<FW_VERSION>>) \o Encoded(<<CUSTOM_APP_DATA>>) \o FalseStart,
     Encoded(<<GET_CUSTOM_CONFIG, 0>>) \o LongForm(<<SET_CUSTOM_CONFIG, 0, 0, 0, 0>>),
     Damaged(Encoded(<<SET_CURRENT, 1>>)) \o Encoded(<<SET_CUSTOM_CONFIG, 1>>)}
=============================================================================
