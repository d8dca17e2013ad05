-------------------------- MODULE TelegramMessage --------------------------
(***************************************************************************)
(* How a reminder is cut into Telegram messages (split_telegram_message in *)
(* vpn/expiration_reminders.py).  A text is the sequence of the lengths of *)
(* its lines; a blank line has length 0.  The loop flushes the lines it    *)
(* holds when the next one would not fit by its own count of their length. *)
(***************************************************************************)
EXTENDS Integers, Sequences, SequencesExt

CONSTANTS
  Limit,       \* TELEGRAM_MESSAGE_LIMIT
  LineLength,  \* the lengths of lines
  MaxLines     \* bound on the lines of a text

ASSUME MessageAssumption ==
  Limit \in Nat \ {0} /\ LineLength \subseteq Nat /\ MaxLines \in Nat

VARIABLES
  lines,   \* the lines the loop has not reached
  held,    \* current_lines
  length,  \* current_length
  chunks   \* the messages cut so far

messageVars == <<lines, held, length, chunks>>

\* The characters of the lines of a text, added up from its first line.
Characters(text) ==
  LET upTo[i \in 0..Len(text)] == IF i = 0 THEN 0 ELSE upTo[i - 1] + text[i]
  IN  upTo[Len(text)]

\* With the line ends between its lines.
TextLength(text) == Characters(text) + Len(text) - 1

\* The characters of the whole message, wherever the loop has put them.
Written ==
  Characters([i \in 1..Len(chunks) |-> Characters(chunks[i])]) + Characters(held) + Characters(lines)

Flushed == IF held = <<>> THEN chunks ELSE Append(chunks, held)

\* A line longer than a message is sliced; the last slice may be shorter.
Slices(line) ==
  [i \in 1..((line + Limit - 1) \div Limit) |->
     <<IF i * Limit <= line THEN Limit ELSE line % Limit>>]

-----------------------------------------------------------------------------
\* build_telegram_message: a blank line comes before the heading of a threshold only.
Texts ==
  {text \in BoundedSeq(LineLength, MaxLines) \ {<<>>} :
     /\ Head(text) > 0 /\ Last(text) > 0
     /\ \A i \in 1..(Len(text) - 1) : text[i] + text[i + 1] > 0}

\* A text that fits is one message.
MessageInit ==
  \E text \in Texts :
    /\ held = <<>> /\ length = 0
    /\ IF TextLength(text) <= Limit
       THEN lines = <<>> /\ chunks = <<text>>
       ELSE lines = text /\ chunks = <<>>

\* extra_length counts the end of line.
Fits(line) == length + line + 1 <= Limit

\* Mutation: the lines held are dropped before a long line is sliced.
TakeLongDropsHeld ==
  /\ lines # <<>> /\ Head(lines) > Limit
  /\ chunks' = chunks \o Slices(Head(lines))
  /\ held' = <<>> /\ length' = 0
  /\ lines' = Tail(lines)

TakeLong ==
  /\ lines # <<>> /\ Head(lines) > Limit
  /\ chunks' = Flushed \o Slices(Head(lines))
  /\ held' = <<>> /\ length' = 0
  /\ lines' = Tail(lines)

\* The first line that is held, or that follows a flush, is not tested.
TakeLine ==
  /\ lines # <<>> /\ Head(lines) <= Limit
  /\ LET line == Head(lines)
         joins == held # <<>> /\ Fits(line) IN
     /\ chunks' = IF joins THEN chunks ELSE Flushed
     /\ held' = IF joins THEN Append(held, line) ELSE <<line>>
     /\ length' = IF joins /\ length > 0 THEN length + 1 + line ELSE line
  /\ lines' = Tail(lines)

FlushLast ==
  /\ lines = <<>> /\ held # <<>>
  /\ chunks' = Flushed
  /\ held' = <<>>
  /\ UNCHANGED <<lines, length>>

Split == TakeLong \/ TakeLine \/ FlushLast

MessageIdle == lines = <<>> /\ held = <<>> /\ length = 0 /\ chunks = <<>>

MessageTypeOK ==
  /\ lines \in Seq(LineLength) /\ held \in Seq(LineLength)
  /\ length \in Nat /\ chunks \in Seq(Seq(Nat))
=============================================================================
