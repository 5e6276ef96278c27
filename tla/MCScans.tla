------------------------------- MODULE MCScans -------------------------------
(***************************************************************************)
(* The loops over the accounts, over all windows of all files of three short *)
(* records, and the loops over a history, over all files of at most three    *)
(* short messages: one or the other in a behaviour.                          *)
(***************************************************************************)
EXTENDS AccountsScan, HistoryScan

MCTCHAR     == {"a", "b", "P", "q"} \cup Separators
MCNames     == {<<"a">>, <<"b", "a">>}
MCPasswords == {<<"P">>, <<"P", "q">>}
MCRecords   == {Record(n, p) : n \in MCNames, p \in MCPasswords}
MCFiles     == {r \o s \o t : r \in MCRecords, s \in MCRecords, t \in MCRecords}

\* A read of fewer than three characters ends the loop before any parsing.
Windows(f) == {SubSeq(f, i, j) : i \in 1..Len(f), j \in 1..Len(f)}
MCChunks   == {w \in UNION {Windows(f) : f \in MCFiles} : Len(w) >= 3}

MCWanted == [op : {"register", "login"}, name : MCNames, pass : MCPasswords]

MCMessages  == {<<"a">>, <<"b", "a">>}
MCCounts    == -1..4
MCHistories == UNION {[1..n -> MCMessages] : n \in 0..3}

\* The loops that do not run, before they would start and after they ended.
NoScan ==
  /\ chunk = <<>> /\ buf = <<NUL>>
  /\ want = CHOOSE w \in Wanted : TRUE
  /\ toAdd = 1 /\ firstTime = TRUE /\ eof = TRUE /\ result = FALSE

NoHistory ==
  /\ messages = <<>> /\ accounts = <<NUL>>
  /\ numberInt = 0 /\ cursor = 1 /\ first = TRUE
  /\ overAll = 0 /\ counter = 0 /\ phase = "done" /\ answer = <<<<LF>>>>

Init == (ScanInit /\ NoHistory) \/ (NoScan /\ HistoryInit)

Next == \/ ScanNext /\ UNCHANGED historyVars
        \/ HistoryNext /\ UNCHANGED scanVars

Spec == Init /\ [][Next]_<<scanVars, historyVars>>
=============================================================================
