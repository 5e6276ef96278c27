---------------------------- MODULE AccountFile ----------------------------
(***************************************************************************)
(* The format of registration.txt and what the two scanning loops, in       *)
(* CheckRegisteredUser and LoginClient, recognise in a chunk of it.  Parse   *)
(* says it by positions; AccountsScan checks it against the loops.           *)
(***************************************************************************)
EXTENDS Integers, Sequences

CONSTANT TCHAR   \* the characters that occur in the files

Comma == ","
CR    == "\r"
LF    == "\n"

Separators == {Comma, CR, LF}

\* The terminator of a C string.
NUL == "NUL"

ASSUME CharactersAssumption == Separators \subseteq TCHAR /\ NUL \notin TCHAR

\* The line RegisterClient writes.
Record(name, pass) == name \o <<Comma>> \o pass \o <<CR, LF>>

\* The first index from i on that holds one of `chars`, or Len(w) + 1.
FirstAt(w, i, chars) ==
  LET hits == {k \in i..Len(w) : w[k] \in chars}
  IN  IF hits = {} THEN Len(w) + 1
      ELSE CHOOSE k \in hits : \A j \in hits : k <= j

\* The C string that starts at index i of the buffer b.
StringAt(b, i) == SubSeq(b, i, FirstAt(b, i, {NUL}) - 1)

\* Mutant: the cursor steps over the CR but not over the LF.
LineStartsAtLF(w) == {1} \cup {k + 1 : k \in {j \in 1..Len(w) : w[j] = CR}}

\* The cursor is moved over CR LF before every comma but the first.
LineStarts(w) == {1} \cup {k + 2 : k \in {j \in 1..Len(w) : w[j] = CR}}

AccountAt(w, i) ==
  LET comma == FirstAt(w, i, {Comma})
      end   == FirstAt(w, comma, {CR})
  IN  [name |-> SubSeq(w, i, comma - 1), pass |-> SubSeq(w, comma + 1, end - 1)]

\* A chunk whose first line break comes before its first comma yields nothing:
\* the loop's strstr then stops at the comma it has just overwritten.
Parse(w) ==
  IF FirstAt(w, 1, {Comma}) > FirstAt(w, 1, {CR}) THEN {}
  ELSE {AccountAt(w, i) : i \in {k \in LineStarts(w) : FirstAt(w, k, {Comma}) <= Len(w)}}

\* Mutant: goodName is not reset when the password of the line differs.
MatchesAcrossLines(w, r) ==
  \E account, other \in Parse(w) :
    account.name = r.name /\ (r.op = "login" => other.pass = r.pass)

\* CheckRegisteredUser compares names, LoginClient names and passwords.
Matches(w, r) ==
  \E account \in Parse(w) :
    account.name = r.name /\ (r.op = "login" => account.pass = r.pass)

\* The shape that every window of a file of records has: no terminator in it, CR
\* before LF, and a comma between two line breaks.
Lined(w) ==
  /\ \A k \in 1..Len(w) : w[k] # NUL /\ (w[k] = CR /\ k < Len(w) => w[k + 1] = LF)
  /\ \A j, k \in 1..Len(w) :
       j < k /\ w[j] = CR /\ w[k] = CR => \E c \in j..k : w[c] = Comma

\* Every line of the file is terminated by CR LF.
Terminated(f) == f = <<>> \/ (Len(f) > 1 /\ f[Len(f) - 1] = CR /\ f[Len(f)] = LF)

\* The text stands in f right after position i.
OccursAt(f, i, text) ==
  /\ i + Len(text) <= Len(f)
  /\ SubSeq(f, i + 1, i + Len(text)) = text

\* The positions after which a line of f starts.
LineBreaks(f) == {i \in 0..Len(f) : i = 0 \/ f[i] = LF}

\* The record of (name, pass) is a line of f.
Stored(f, name, pass) == \E i \in LineBreaks(f) : OccursAt(f, i, Record(name, pass))

\* The lines of f that are records of name.
LinesOf(f, name) == {i \in LineBreaks(f) : OccursAt(f, i, name \o <<Comma>>)}
=============================================================================
