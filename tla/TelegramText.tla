---------------------------- MODULE TelegramText ----------------------------
(***************************************************************************)
(* The text of a Telegram alert: what internal/notify/telegram.go makes of *)
(* an event, and what the server, told that it is MarkdownV2, makes of the *)
(* text. Characters are told apart only by their role: "a" stands for any  *)
(* without one, "*" for those that open or close an entity, "!" for those  *)
(* that have no use but must be escaped, "." is the dot, "esc" a backslash.*)
(***************************************************************************)
EXTENDS Integers, Sequences, SequencesExt

\* The characters escapeMarkdown's replacer lists.
Reserved == {"*", "!", "."}

\* Mutant of EscapeChar: only the characters that open an entity are escaped.
EscapeCharEntities(c) == IF c = "*" THEN <<"esc", c>> ELSE <<c>>

EscapeChar(c) == IF c \in Reserved THEN <<"esc", c>> ELSE <<c>>

\* What the replacer makes of the first n characters, for every n.
EscapedPrefixes(text) ==
  LET escaped[n \in 0..Len(text)] ==
        IF n = 0 THEN << >> ELSE escaped[n - 1] \o EscapeChar(text[n])
  IN  escaped

Escape(text) == EscapedPrefixes(text)[Len(text)]

Truncate(text, limit) ==
  IF Len(text) <= limit THEN text
  ELSE SubSeq(text, 1, limit - 3) \o <<".", ".", ".">>

\* The header, then a bold name and the escaped value of a field (zone, labels and
\* time are alike).
FormatMessage(isThreat, field) ==
  (IF isThreat THEN <<"*", "a", "!", "*">> ELSE <<"*", "a", "*">>)
    \o <<"*", "a", "*">> \o Escape(field)

-----------------------------------------------------------------------------
\* The server reads the text from left to right: a backslash makes a literal of
\* the character after it, an asterisk opens or closes bold text, any other
\* reserved character has no business there.
Read(st, c) ==
  IF st.escaped THEN [st EXCEPT !.escaped = FALSE, !.literal = Append(@, c)]
  ELSE IF c = "esc" THEN [st EXCEPT !.escaped = TRUE]
  ELSE IF c = "*" THEN [st EXCEPT !.bold = ~@]
  ELSE [st EXCEPT !.sound = @ /\ c \notin Reserved, !.literal = Append(@, c)]

Start == [escaped |-> FALSE, bold |-> FALSE, sound |-> TRUE, literal |-> << >>]

\* What the server has made of the first n characters, for every n.
Readings(text) ==
  LET reading[n \in 0..Len(text)] ==
        IF n = 0 THEN Start ELSE Read(reading[n - 1], text[n])
  IN  reading

Parse(text) == Readings(text)[Len(text)]

Accepts(text) == Parse(text).sound /\ ~Parse(text).bold
=============================================================================
