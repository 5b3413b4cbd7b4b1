----------------------------- MODULE MCWalRecords -----------------------------
(***************************************************************************)
(* Small instances of WalRecords: payloads that need no padding and that   *)
(* do, of zeros and of other numbers, and one that is over the limit.      *)
(***************************************************************************)
EXTENDS WalRecords

FewPayloads == {<<>>, <<0, 3>>, <<1, 1, 1, 1>>}
===============================================================================
