------------------------------- MODULE MCTxcp -------------------------------
(***************************************************************************)
(* Txcp with binary digits for bytes: a 16-bit field counts to 3, micros()  *)
(* wraps after 16 and a timestamp after 256, so that a session of a few      *)
(* steps straddles the wrap, and every length of a payload's field occurs.   *)
(***************************************************************************)
EXTENDS Txcp

MCMagic == <<0, 1, 1, 0>>
MCPanelNames == { <<1>>, <<1, 0, 1>> }
MCBauds == {9}
MCUnixTimes == {5}
MCPayloads == { <<1>>, <<1, 1, 0, 0>> }
MCPauses == {6, 9}
=============================================================================
