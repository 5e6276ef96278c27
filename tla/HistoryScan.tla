----------------------------- MODULE HistoryScan -----------------------------
(***************************************************************************)
(* The loops of ProcessHistory, statement by statement: one counts the lines  *)
(* of the history file, the other steps over those that were not asked for.   *)
(* The file is read while its lock is held and its handle is not shared, so  *)
(* that one ReadFile gives all of it.                                        *)
(***************************************************************************)
EXTENDS AccountFile, SequencesExt

CONSTANTS
  Histories,   \* the messages between two users, as sequences
  Counts       \* the counts to ask for; _ttoi makes 0 of what is no number

\* Every message begins with "Message from", and no message holds a line break.
ASSUME HistoryAssumption ==
  /\ Counts \subseteq Int
  /\ Histories \subseteq Seq(Seq(TCHAR \ {CR, LF}) \ {<<>>})

VARIABLES
  messages,    \* history: the messages that were written
  numberInt,
  accounts,    \* the buffer, with the terminator the reader stores
  cursor,      \* toAdd, an index into the buffer
  first,       \* firstTime
  overAll,
  counter,
  phase,       \* which of the loops runs
  answer       \* the texts sent

historyVars == <<messages, numberInt, accounts, cursor, first, overAll, counter, phase, answer>>

\* What ProcessMsg has appended, one WriteFile for each message.
FileOf(texts) == FlattenSeq([i \in DOMAIN texts |-> texts[i] \o <<CR, LF>>])

HistoryInit ==
  /\ messages \in Histories
  /\ numberInt \in Counts
  /\ accounts = Append(FileOf(messages), NUL)
  /\ cursor = 1
  /\ first = TRUE
  /\ overAll = 0
  /\ counter = 0
  /\ phase = "read"
  /\ answer = <<>>

Phase(from, to) == phase = from /\ phase' = to

\* Where a line begins: over CR LF, but not before the first.
LineBegin == IF first THEN cursor ELSE cursor + 2

\* The for loop from there on, to the line break.
LineBreak == FirstAt(accounts, LineBegin, {CR})

\* A read of fewer than three characters ends the loop; nothing was found, and a
\* line break is sent after the locks are released.
ReadHistory ==
  /\ IF Len(accounts) - 1 < 3
     THEN Phase("read", "done") /\ answer' = <<<<LF>>>>
     ELSE Phase("read", "count") /\ UNCHANGED answer
  /\ UNCHANGED <<messages, numberInt, accounts, cursor, first, overAll, counter>>

CountLine ==
  /\ phase = "count"
  /\ accounts[LineBegin] # NUL
  /\ cursor' = LineBreak
  /\ first' = FALSE
  /\ overAll' = overAll + 1
  /\ UNCHANGED <<messages, numberInt, accounts, counter, phase, answer>>

\* At the terminator the count is complete: all lines are sent, or the second
\* loop starts.
CountEnds ==
  /\ accounts[LineBegin] = NUL
  /\ IF overAll <= numberInt
     THEN Phase("count", "done") /\ answer' = Append(answer, StringAt(accounts, 1))
     ELSE Phase("count", "skip") /\ UNCHANGED answer
  /\ cursor' = 1
  /\ first' = TRUE
  /\ counter' = 0
  /\ UNCHANGED <<messages, numberInt, accounts, overAll>>

\* Mutant: the comparison counts from one.
OneLineLess == overAll - counter = numberInt + 1

\* The lines from here on are those asked for.
Reached == overAll - counter = numberInt

SkipLine ==
  /\ phase = "skip"
  /\ ~Reached /\ accounts[LineBegin] # NUL
  /\ cursor' = LineBreak
  /\ first' = FALSE
  /\ counter' = counter + 1
  /\ UNCHANGED <<messages, numberInt, accounts, overAll, phase, answer>>

SendRest ==
  /\ Phase("skip", "done")
  /\ Reached
  /\ answer' = Append(answer, StringAt(accounts, LineBegin))
  /\ UNCHANGED <<messages, numberInt, accounts, cursor, first, overAll, counter>>

\* The end of the file comes before the count is reached: nothing is sent.
SkipEnds ==
  /\ Phase("skip", "done")
  /\ ~Reached /\ accounts[LineBegin] = NUL
  /\ UNCHANGED <<messages, numberInt, accounts, cursor, first, overAll, counter, answer>>

HistoryRest == phase = "done" /\ UNCHANGED historyVars

HistoryNext ==
  \/ ReadHistory \/ CountLine \/ CountEnds \/ SkipLine \/ SendRest \/ SkipEnds \/ HistoryRest

HistorySpec == HistoryInit /\ [][HistoryNext]_historyVars

\* The last n of the messages, or all of them.
LastOf(texts, n) == SubSeq(texts, IF n < Len(texts) THEN Len(texts) - n + 1 ELSE 1, Len(texts))

\* A history is answered with one text of the last messages, as many as asked
\* for; a line break stands for no message at all.  A count of 0 gives a text
\* without characters, and a negative count no answer.
HistoryAnswersCount ==
  phase = "done" =>
    answer = IF messages = <<>> THEN <<<<LF>>>>
             ELSE IF numberInt < 0 THEN <<>>
             ELSE <<FileOf(LastOf(messages, numberInt))>>
=============================================================================
