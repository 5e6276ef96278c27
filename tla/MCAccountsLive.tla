--------------------------- MODULE MCAccountsLive ---------------------------
(* Small instances of Accounts, with the store that it implements. *)
EXTENDS AccountsAlone, MCAccounts
=============================================================================
