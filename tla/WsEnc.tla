------------------------------- MODULE WsEnc -------------------------------
(***************************************************************************)
(* ws_enc.cpp: the state of the encryption and what sealing and opening do *)
(* to it.  The cipher is taken to work: a frame opens under the key that   *)
(* sealed it and under no other.  A key stands for the node's half of it,  *)
(* which alone makes it fresh: the backend's half may be any.              *)
(***************************************************************************)
EXTENDS Integers, Sequences

NoKey == 0

ws_enc_reset == [s_ready |-> FALSE, key |-> NoKey, s_seq_tx |-> 0, s_seq_rx |-> 0,
                 s_rx_init |-> FALSE]

\* Every derivation starts its counters anew.
ws_enc_derive(fw_nonce) == [ws_enc_reset EXCEPT !.s_ready = TRUE, !.key = fw_nonce]

\* A frame is sealed under the number that is next.
ws_enc_seal(e) == [e EXCEPT !.s_seq_tx = @ + 1]

\* Faulty variant of Opens: frames may come again and in any order.
OpensAny(e, f) == e.s_ready /\ f.key = e.key

\* Frames may be missing, but none comes twice or late.
Opens(e, f) == e.s_ready /\ f.key = e.key /\ (e.s_rx_init => f.seq > e.s_seq_rx)
ws_enc_open(e, f) == [e EXCEPT !.s_seq_rx = f.seq, !.s_rx_init = TRUE]

\* The number of the last frame opened.
LastOpened(e) == IF e.s_rx_init THEN e.s_seq_rx ELSE -1
=============================================================================
