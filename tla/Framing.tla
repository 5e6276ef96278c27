------------------------------- MODULE Framing -------------------------------
(***************************************************************************)
(* How the texts for one client travel: SendTextToClient makes two sends, of  *)
(* the length and of the characters, and every handler that has something    *)
(* for this client makes them, without a lock; FromServer makes two receives *)
(* and takes what each of them returns for all it asked for.                 *)
(*                                                                         *)
(* The unit is a word of 4 bytes, which is an integer or two characters of a *)
(* text.  TCP keeps the order of the words and cuts them into segments as it *)
(* likes; that it never cuts a word is an abstraction.  ReceiveText in the   *)
(* server reads what SendTextToServer sends in the same way, there from one  *)
(* sender only.                                                             *)
(***************************************************************************)
EXTENDS Integers, FiniteSets, Sequences, SequencesExt

CONSTANTS
  Senders,    \* the handlers that send to this client
  Own,        \* the handler of its own connection
  Lengths,    \* the lengths of texts, in words
  Segment,    \* the most words that arrive at once
  MaxTexts    \* bound: texts in a behaviour

\* StringCbLength measures a text within STANDARD_SIZE bytes.
LongestText == 2560720

\* Two characters, as an integer, are taken for more words than any text has.
Huge == LongestText + 1

ASSUME FramingAssumption ==
  /\ Own \in Senders
  /\ Lengths \subseteq 0..LongestText
  /\ Segment \in Nat \ {0}
  /\ MaxTexts \in Nat

VARIABLES
  texts,     \* the texts of which the length was sent, in that order
  pc,        \* the text whose characters each handler has still to send, or 0
  exiting,   \* whether the handler answers an exit
  wire,      \* segments under way
  arrived,   \* words received and not read
  at,        \* where FromServer is
  length,    \* what it took for a length
  printed,   \* history: what it printed, receive by receive
  mixed,     \* history: a handler sent while another was between its two sends
  split      \* history: a receive returned less than it asked for

vars == <<texts, pc, exiting, wire, arrived, at, length, printed, mixed, split>>
server == <<texts, pc, exiting, mixed>>
reader == <<at, length, printed, split>>

\* <<0, n>> is the integer n; <<t, i>> is the i-th word of text t.
Number(n)     == <<0, n>>
Text(t, n) == [i \in 1..n |-> <<t, i>>]

\* Mutant: characters from 0x8000 on make the length negative.
SignedIntOf(word) == IF word[1] = 0 THEN word[2] ELSE -1

IntOf(word) == IF word[1] = 0 THEN word[2] ELSE Huge

ExitAnswer == <<Number(0)>>

Init ==
  /\ texts = <<>>
  /\ pc = [s \in Senders |-> 0]
  /\ exiting = FALSE
  /\ wire = <<>>
  /\ arrived = <<>>
  /\ at = "length"
  /\ length = 0
  /\ printed = <<>>
  /\ mixed = FALSE
  /\ split = FALSE

---------------------------------------------------------------------------
(* The server.                                                              *)

\* send(): a send of no bytes puts nothing on the way.
Pieces(words) ==
  [k \in 1..((Len(words) + Segment - 1) \div Segment) |->
     SubSeq(words, (k - 1) * Segment + 1,
            IF k * Segment < Len(words) THEN k * Segment ELSE Len(words))]

Transmit(words) == wire' = wire \o Pieces(words)

\* The first of two sends.
Announce(s, text) ==
  /\ pc[s] = 0
  /\ Len(texts) < MaxTexts
  /\ texts' = Append(texts, text)
  /\ pc' = [pc EXCEPT ![s] = Len(texts')]
  /\ Transmit(<<Number(Len(text))>>)
  /\ mixed' = (mixed \/ \E r \in Senders : pc[r] # 0)
  /\ UNCHANGED <<arrived, reader>>

\* Mutant: the length counts the terminator of the string.
SendLengthAndNul(s) ==
  /\ s = Own => ~exiting
  /\ \E n \in Lengths :
       /\ n = 0 => s = Own
       /\ pc[s] = 0
       /\ Len(texts) < MaxTexts
       /\ texts' = Append(texts, Text(Len(texts) + 1, n))
       /\ pc' = [pc EXCEPT ![s] = Len(texts')]
       /\ Transmit(<<Number(n + 1)>>)
       /\ mixed' = (mixed \/ \E r \in Senders : pc[r] # 0)
       /\ UNCHANGED <<arrived, reader>>
  /\ UNCHANGED exiting

\* Only the answer to history, of this client, can be empty.
SendLength(s) ==
  /\ s = Own => ~exiting
  /\ \E n \in Lengths :
       /\ n = 0 => s = Own
       /\ Announce(s, Text(Len(texts) + 1, n))
  /\ UNCHANGED exiting

\* Mutant: the exit is announced by an integer 0.
SendExitBare(s) ==
  /\ s = Own /\ ~exiting
  /\ exiting' = TRUE
  /\ pc[s] = 0
  /\ Len(texts) < MaxTexts
  /\ texts' = Append(texts, ExitAnswer)
  /\ Transmit(ExitAnswer)
  /\ mixed' = (mixed \/ \E r \in Senders : pc[r] # 0)
  /\ UNCHANGED <<pc, arrived, reader>>

\* SendExitToClient: a length of one word, and the integer 0.
SendExitLength(s) ==
  /\ s = Own /\ ~exiting
  /\ exiting' = TRUE
  /\ Announce(s, ExitAnswer)

\* The second of two sends.
SendText(s) ==
  /\ pc[s] # 0
  /\ Transmit(texts[pc[s]])
  /\ pc' = [pc EXCEPT ![s] = 0]
  /\ UNCHANGED <<texts, exiting, mixed, arrived, reader>>

---------------------------------------------------------------------------
(* The network and the client.                                              *)

Arrive ==
  /\ wire # <<>>
  /\ arrived' = arrived \o Head(wire)
  /\ wire' = Tail(wire)
  /\ UNCHANGED <<server, reader>>

ReceiveLength ==
  /\ at = "length"
  /\ arrived # <<>>
  /\ length' = IntOf(Head(arrived))
  /\ arrived' = Tail(arrived)
  /\ at' = "text"
  /\ UNCHANGED <<server, wire, printed, split>>

\* CreateDataBuffer fails for a length that is no length.
BufferFails ==
  /\ at = "text" /\ length = Huge
  /\ at' = "ended"
  /\ UNCHANGED <<server, wire, arrived, length, printed, split>>

\* recv into a buffer of no bytes returns 0, which ReceiveData takes for the end
\* of the connection.
ReceiveNothing ==
  /\ at = "text" /\ length = 0
  /\ at' = "ended"
  /\ UNCHANGED <<server, wire, arrived, length, printed, split>>

\* Mutant: the receive returns all that has arrived.
ReceivedAll(n) == arrived

\* What a receive for that many words returns.
Received(n) == SubSeq(arrived, 1, IF n < Len(arrived) THEN n ELSE Len(arrived))

\* A text that begins with an integer 0 is not printed.
ReceiveSome ==
  /\ at = "text" /\ length # 0
  /\ arrived # <<>>
  /\ LET got == Received(length)
     IN  /\ printed' = IF IntOf(got[1]) = 0 THEN printed ELSE Append(printed, got)
         /\ arrived' = SubSeq(arrived, Len(got) + 1, Len(arrived))
         /\ split' = (split \/ Len(got) < length)
  /\ at' = "length"
  /\ UNCHANGED <<server, wire, length>>

\* The loop of FromServer is left once gExit is set, which is before the server
\* has the exit to answer.
Leave ==
  /\ at = "length" /\ exiting
  /\ at' = "left"
  /\ UNCHANGED <<server, wire, arrived, length, printed, split>>

Begin == \E s \in Senders : SendLength(s) \/ SendExitLength(s)

Read == ReceiveLength \/ BufferFails \/ ReceiveNothing \/ ReceiveSome \/ Leave

Next == Begin \/ (\E s \in Senders : SendText(s)) \/ Arrive \/ Read

Spec == Init /\ [][Next]_vars

FairSpec ==
  /\ Spec
  /\ \A s \in Senders : WF_vars(SendText(s))
  /\ WF_vars(Arrive)
  /\ WF_vars(Read)

---------------------------------------------------------------------------
(* Properties.                                                              *)

Words == (0..MaxTexts) \X Nat

\* Every variable has its type; a handler is in one text at a time.
TypeOK ==
  /\ texts \in Seq(Seq(Words)) /\ Len(texts) <= MaxTexts
  /\ pc \in [Senders -> 0..Len(texts)]
  /\ \A s, r \in Senders : s # r /\ pc[s] # 0 => pc[s] # pc[r]
  /\ exiting \in BOOLEAN /\ mixed \in BOOLEAN /\ split \in BOOLEAN
  /\ wire \in Seq(Seq(Words)) /\ arrived \in Seq(Words)
  /\ at \in {"length", "text", "ended", "left"}
  /\ length \in Nat
  /\ printed \in Seq(Seq(Words))

Undisturbed == ~mixed /\ ~split

ToPrint(t) == t \in DOMAIN texts /\ texts[t] \notin {<<>>, ExitAnswer}

\* Those to be printed among the first n texts.
Printable(n) == {t \in 1..n : ToPrint(t)}

\* Just these were printed, each at its place.
InOrder(n) ==
  /\ Len(printed) = Cardinality(Printable(n))
  /\ \A t \in Printable(n) : printed[Cardinality(Printable(t))] = texts[t]

\* What is printed are the first texts, whole and in order, unless two handlers sent
\* at once or a receive returned a part of a text.
PrintedAsSent == Undisturbed => \E n \in 0..Len(texts) : InOrder(n)

\* The receiving thread gives its connection up only in those two ways or after a
\* text without characters.
EndsOnlyOnEmpty == at = "ended" => ~Undisturbed \/ \E t \in DOMAIN texts : texts[t] = <<>>

Printed(t) == t \in DOMAIN texts /\ texts[t] \in ToSet(printed)

\* A text that was announced is printed in the end, unless the thread has ended
\* or one of the two happened.
EveryTextPrinted ==
  \A t \in 1..MaxTexts :
    ToPrint(t) ~> ~Undisturbed \/ at \in {"ended", "left"} \/ Printed(t)
=============================================================================
