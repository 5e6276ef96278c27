----------------------------- MODULE MCAccounts -----------------------------
(* Small instances of Accounts for TLC. *)
EXTENDS Accounts, TLC

MCTCHAR     == {"a", "b", "P", "q"} \cup Separators
MCNames     == {<<"a">>, <<"b", "a">>}
MCPasswords == {<<"P">>}
\* The longest is one character longer than what a scan that measured OneAccount
\* and begins at the "a" of "ba" still reads of it, which is the second.
ThreePasswords == {<<"P">>, <<"P", "q", "q", "q">>, <<"P", "q", "q", "q", "q">>}

EmptyFile == <<>>
\* One account, "a", was registered before the server was last started.  Its
\* record is as long as the first part of the record of "ba" up to the "a": a
\* scan disturbed by that registration may begin or end inside the name "ba".
OneAccount == Record(<<"a">>, <<"P">>)

HandlerSymmetry == Permutations(Handlers)
=============================================================================
