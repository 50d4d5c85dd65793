------------------------------ MODULE MCDemux -------------------------------
(* Frames with bytes that need escaping, replies with FEND and 0xFF inside, *)
(* and an alphabet with every byte the decoders tell apart.                 *)
EXTENDS Demux

MCPayloads == {<<7>>, <<FEND>>, <<FESC, gaiaStart>>}

MCGaiaBodies == {<<0, FEND, 0, 2>>, <<0, 1, gaiaStart, gaiaVersion, FEND>>}

MCAlphabet == {0, 7, FEND, FESC, TFEND, gaiaStart}
=============================================================================
