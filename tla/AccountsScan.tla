---------------------------- MODULE AccountsScan ----------------------------
(***************************************************************************)
(* The scanning loop of CheckRegisteredUser and of LoginClient, statement by *)
(* statement, over one chunk of registration.txt.  The chunk is any window a *)
(* misplaced file pointer and a stale file length can make of the file.  The *)
(* loop overwrites commas with NUL in the buffer it searches, and steps over *)
(* the line breaks with a cursor that is not reset: what it finds is checked *)
(* against Parse, the definition the model of the file's users relies on.    *)
(***************************************************************************)
EXTENDS AccountFile

CONSTANTS
  Chunks,    \* the windows to scan
  Wanted     \* the requests to answer from each

\* The windows of a file of records (AccountsProofs), and names as the client
\* lets them through.
ASSUME ScanAssumption ==
  /\ \A w \in Chunks : w \in Seq(TCHAR) /\ Lined(w)
  /\ Wanted \subseteq [op : {"register", "login"}, name : Seq(TCHAR \ Separators), pass : Seq(TCHAR)]

VARIABLES
  chunk,      \* history: the window as it was read
  want,       \* the request being served
  buf,        \* accounts[], with the terminator the reader stores
  toAdd,      \* the cursor, an index into buf
  firstTime,
  eof,
  result      \* userExists / validCombination

scanVars == <<chunk, want, buf, toAdd, firstTime, eof, result>>

ScanInit ==
  /\ chunk \in Chunks
  /\ want \in Wanted
  /\ buf = Append(chunk, NUL)
  /\ toAdd = 1
  /\ firstTime = TRUE
  /\ eof = FALSE
  /\ result = FALSE

\* Mutant: the search runs over the commas cut before.
SearchOn(b, from) == FirstAt(b, from, {Comma}) - (IF FirstAt(b, from, {Comma}) > Len(b) THEN 1 ELSE 0)

\* _tcsstr(accounts + toAdd, ","): the search ends at the first NUL.
Search(b, from) == FirstAt(b, from, {Comma, NUL})

NoComma ==
  /\ ~eof
  /\ buf[Search(buf, toAdd)] = NUL
  /\ eof' = TRUE
  /\ UNCHANGED <<chunk, want, buf, toAdd, firstTime, result>>

\* The inner for loop, from cursor i with the comma already overwritten: it
\* runs to a line break, over the first NUL but not over a second one.
LineEnd(b, i) ==
  LET comma == FirstAt(b, i, {NUL})
  IN  IF FirstAt(b, i, {CR}) < comma THEN FirstAt(b, i, {CR})
      ELSE FirstAt(b, comma + 1, {CR, NUL})

\* One comma is found: cut the name, compare it, and move to the line's end.
Line ==
  /\ ~eof
  /\ buf[Search(buf, toAdd)] = Comma
  /\ LET cut   == [buf EXCEPT ![Search(buf, toAdd)] = NUL]
         here  == IF firstTime THEN toAdd ELSE toAdd + 2
         good  == StringAt(cut, here) = want.name
         end   == LineEnd(cut, here)
         pass  == SubSeq(cut, FirstAt(cut, here, {NUL}) + 1, end - 1)
         match == good /\ (want.op = "login" => pass = want.pass)
     IN  /\ buf' = cut
         /\ result' = match
         /\ toAdd' = IF cut[end] = NUL THEN end + 1 ELSE end
         /\ eof' = (match \/ cut[end] = NUL)
  /\ firstTime' = FALSE
  /\ UNCHANGED <<chunk, want>>

ScanRest == eof /\ UNCHANGED scanVars

ScanNext == NoComma \/ Line \/ ScanRest

ScanSpec == ScanInit /\ [][ScanNext]_scanVars

\* Whatever window of the file it is given, the loop answers what Parse says:
\* no comma it has overwritten and no line it has stepped over hides or invents
\* an account.
LoopMatchesParse == eof => (result <=> Matches(chunk, want))
=============================================================================
