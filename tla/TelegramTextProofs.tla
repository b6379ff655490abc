------------------------- MODULE TelegramTextProofs -------------------------
(***************************************************************************)
(* How an alert's text is read, for texts of every length over every set   *)
(* of characters: what is escaped comes out as it went in, what is cut and *)
(* the header of a threat are refused. Both functions are recursive over   *)
(* prefixes; induction is the statement that a set that holds 0 and, with  *)
(* every number, the next one is Nat.                                      *)
(***************************************************************************)
EXTENDS TelegramText, SequenceTheorems, WellFoundedInduction, TLAPS

\* Induction, as a statement about a set of numbers.
LEMMA SetInduction ==
  ASSUME NEW S \in SUBSET Nat, 0 \in S, \A n \in S : n + 1 \in S
  PROVE  S = Nat
<1> SUFFICES ASSUME Nat \ S # {} PROVE FALSE
  OBVIOUS
<1>1. PICK m \in Nat \ S : \A k \in Nat \ S : ~(<<k, m>> \in OpToRel(<, Nat))
  BY WFMin, NatLessThanWellFounded
<1>2. m - 1 \in Nat /\ m # 0
  OBVIOUS
<1>3. <<m - 1, m>> \in OpToRel(<, Nat)
  BY <1>2 DEF OpToRel
<1>4. m - 1 \in S
  BY <1>1, <1>2, <1>3
<1> QED BY <1>2, <1>4

\* The recursive definition of Readings has a solution.
LEMMA ReadingsDef ==
  ASSUME NEW C, NEW text \in Seq(C)
  PROVE  Readings(text) =
           [n \in 0..Len(text) |->
              IF n = 0 THEN Start ELSE Read(Readings(text)[n - 1], text[n])]
<1> DEFINE Solves(g, n) ==
             g = [k \in 0..n |-> IF k = 0 THEN Start ELSE Read(g[k - 1], text[k])]
           Solved == {n \in Nat : \E g : Solves(g, n)}
<1>1. 0 \in Solved
  <2>1. Solves([k \in 0..0 |-> Start], 0)
    OBVIOUS
  <2> QED BY <2>1
<1>2. ASSUME NEW n \in Solved PROVE n + 1 \in Solved
  <2>1. PICK g : Solves(g, n)
    BY <1>2
  <2> DEFINE h == [k \in 0..(n + 1) |-> IF k <= n THEN g[k] ELSE Read(g[n], text[n + 1])]
  <2> HIDE DEF Solved
  <2>2. n \in Nat
    BY <1>2 DEF Solved
  <2>3. \A k \in 0..(n + 1) : h[k] = IF k = 0 THEN Start ELSE Read(h[k - 1], text[k])
    <3> SUFFICES ASSUME NEW k \in 0..(n + 1)
                 PROVE  h[k] = IF k = 0 THEN Start ELSE Read(h[k - 1], text[k])
      OBVIOUS
    <3>1. CASE k <= n
      <4>1. k \in 0..n /\ h[k] = g[k] /\ (k # 0 => h[k - 1] = g[k - 1])
        BY <2>2, <3>1
      <4>2. g[k] = IF k = 0 THEN Start ELSE Read(g[k - 1], text[k])
        BY <2>1, <4>1
      <4> QED BY <4>1, <4>2
    <3>2. CASE k = n + 1
      BY <2>2, <3>2
    <3> QED BY <2>2, <3>1, <3>2
  <2>4. Solves(h, n + 1)
    BY <2>3
  <2>5. \E f : Solves(f, n + 1)
    BY <2>4
  <2> QED BY <2>2, <2>5 DEF Solved
<1>3. Solved = Nat
  <2>1. Solved \in SUBSET Nat
    OBVIOUS
  <2> HIDE DEF Solved
  <2> QED BY <1>1, <1>2, <2>1, SetInduction
<1>4. \E g : Solves(g, Len(text))
  BY <1>3, LenProperties
<1> QED BY <1>4 DEF Readings

\* So has that of EscapedPrefixes.
LEMMA EscapedPrefixesDef ==
  ASSUME NEW C, NEW text \in Seq(C)
  PROVE  EscapedPrefixes(text) =
           [n \in 0..Len(text) |->
              IF n = 0 THEN << >>
              ELSE EscapedPrefixes(text)[n - 1] \o EscapeChar(text[n])]
<1> DEFINE Solves(g, n) ==
             g = [k \in 0..n |-> IF k = 0 THEN << >> ELSE g[k - 1] \o EscapeChar(text[k])]
           Solved == {n \in Nat : \E g : Solves(g, n)}
<1>1. 0 \in Solved
  <2>1. Solves([k \in 0..0 |-> << >>], 0)
    OBVIOUS
  <2> QED BY <2>1
<1>2. ASSUME NEW n \in Solved PROVE n + 1 \in Solved
  <2>1. PICK g : Solves(g, n)
    BY <1>2
  <2> DEFINE h == [k \in 0..(n + 1) |-> IF k <= n THEN g[k] ELSE g[n] \o EscapeChar(text[n + 1])]
  <2> HIDE DEF Solved
  <2>2. n \in Nat
    BY <1>2 DEF Solved
  <2>3. \A k \in 0..(n + 1) : h[k] = IF k = 0 THEN << >> ELSE h[k - 1] \o EscapeChar(text[k])
    <3> SUFFICES ASSUME NEW k \in 0..(n + 1)
                 PROVE  h[k] = IF k = 0 THEN << >> ELSE h[k - 1] \o EscapeChar(text[k])
      OBVIOUS
    <3>1. CASE k <= n
      <4>1. k \in 0..n /\ h[k] = g[k] /\ (k # 0 => h[k - 1] = g[k - 1])
        BY <2>2, <3>1
      <4>2. g[k] = IF k = 0 THEN << >> ELSE g[k - 1] \o EscapeChar(text[k])
        BY <2>1, <4>1
      <4> QED BY <4>1, <4>2
    <3>2. CASE k = n + 1
      BY <2>2, <3>2
    <3> QED BY <2>2, <3>1, <3>2
  <2>4. Solves(h, n + 1)
    BY <2>3
  <2>5. \E f : Solves(f, n + 1)
    BY <2>4
  <2> QED BY <2>2, <2>5 DEF Solved
<1>3. Solved = Nat
  <2>1. Solved \in SUBSET Nat
    OBVIOUS
  <2> HIDE DEF Solved
  <2> QED BY <1>1, <1>2, <2>1, SetInduction
<1>4. \E g : Solves(g, Len(text))
  BY <1>3, LenProperties
<1> QED BY <1>4 DEF EscapedPrefixes

-----------------------------------------------------------------------------
\* What the server's reading of a text over C can be.
States(C) == [escaped : BOOLEAN, bold : BOOLEAN, sound : BOOLEAN, literal : Seq(C)]

LEMMA ReadType ==
  ASSUME NEW C, NEW st \in States(C), NEW c \in C
  PROVE  Read(st, c) \in States(C)
<1> USE DEF States
<1>1. CASE st.escaped
  <2>1. Read(st, c) = [st EXCEPT !.escaped = FALSE, !.literal = Append(st.literal, c)]
    BY <1>1 DEF Read
  <2>2. Append(st.literal, c) \in Seq(C)
    OBVIOUS
  <2> QED BY <2>1, <2>2
<1>2. CASE ~st.escaped /\ c = "esc"
  BY <1>2 DEF Read
<1>3. CASE ~st.escaped /\ c = "*"
  <2>1. Read(st, c) = [st EXCEPT !.bold = ~st.bold]
    BY <1>3 DEF Read
  <2>2. (~st.bold) \in BOOLEAN
    BY Zenon
  <2> QED BY <2>1, <2>2
<1>4. CASE ~st.escaped /\ c # "esc" /\ c # "*"
  <2>1. Read(st, c) = [st EXCEPT !.sound = st.sound /\ c \notin Reserved, !.literal = Append(st.literal, c)]
    BY <1>4 DEF Read
  <2>2. (st.sound /\ c \notin Reserved) \in BOOLEAN /\ Append(st.literal, c) \in Seq(C)
    OBVIOUS
  <2> QED BY <2>1, <2>2
<1> QED BY <1>1, <1>2, <1>3, <1>4

LEMMA ReadingsStep ==
  ASSUME NEW C, NEW text \in Seq(C)
  PROVE  /\ Readings(text)[0] = Start
         /\ \A n \in 1..Len(text) : Readings(text)[n] = Read(Readings(text)[n - 1], text[n])
<1>1. Len(text) \in Nat
  OBVIOUS
<1> QED BY <1>1, ReadingsDef

LEMMA ReadingsType ==
  ASSUME NEW C, NEW text \in Seq(C)
  PROVE  \A n \in 0..Len(text) : Readings(text)[n] \in States(C)
<1> DEFINE Typed == {n \in Nat : n <= Len(text) => Readings(text)[n] \in States(C)}
<1>1. 0 \in Typed
  <2>1. Start \in States(C)
    BY DEF Start, States
  <2> QED BY <2>1, ReadingsStep
<1>2. ASSUME NEW n \in Typed PROVE n + 1 \in Typed
  <2> SUFFICES ASSUME n + 1 <= Len(text) PROVE Readings(text)[n + 1] \in States(C)
    OBVIOUS
  <2>1. n + 1 \in 1..Len(text) /\ Readings(text)[n] \in States(C) /\ text[n + 1] \in C
    OBVIOUS
  <2>2. Readings(text)[n + 1] = Read(Readings(text)[n], text[n + 1])
    BY <2>1, ReadingsStep
  <2> QED BY <2>1, <2>2, ReadType
<1>3. Typed = Nat
  <2>1. Typed \in SUBSET Nat
    OBVIOUS
  <2> HIDE DEF Typed
  <2> QED BY <1>1, <1>2, <2>1, SetInduction
<1> QED BY <1>3

\* What the server makes of the beginning of a text does not depend on the rest.
LEMMA ReadingsOfPrefix ==
  ASSUME NEW C, NEW s \in Seq(C), NEW t \in Seq(C)
  PROVE  \A n \in 0..Len(s) : Readings(s \o t)[n] = Readings(s)[n]
<1> DEFINE Agree == {n \in Nat : n <= Len(s) => Readings(s \o t)[n] = Readings(s)[n]}
<1>1. s \o t \in Seq(C) /\ Len(s \o t) = Len(s) + Len(t)
      /\ \A n \in 1..Len(s) : (s \o t)[n] = s[n]
  BY ConcatProperties
<1>2. 0 \in Agree
  BY <1>1, ReadingsStep
<1>3. ASSUME NEW n \in Agree PROVE n + 1 \in Agree
  <2> SUFFICES ASSUME n + 1 <= Len(s) PROVE Readings(s \o t)[n + 1] = Readings(s)[n + 1]
    OBVIOUS
  <2>1. n + 1 \in 1..Len(s) /\ n + 1 \in 1..Len(s \o t) /\ Readings(s \o t)[n] = Readings(s)[n]
    BY <1>1
  <2>2. Readings(s)[n + 1] = Read(Readings(s)[n], s[n + 1])
    BY <2>1, ReadingsStep
  <2>3. Readings(s \o t)[n + 1] = Read(Readings(s \o t)[n], (s \o t)[n + 1])
    <3>1. (n + 1) - 1 = n
      OBVIOUS
    <3> QED BY <1>1, <2>1, <3>1, ReadingsStep
  <2> QED BY <1>1, <2>1, <2>2, <2>3
<1>4. Agree = Nat
  <2>1. Agree \in SUBSET Nat
    OBVIOUS
  <2> HIDE DEF Agree
  <2> QED BY <1>2, <1>3, <2>1, SetInduction
<1> QED BY <1>4

LEMMA ParseType ==
  ASSUME NEW C, NEW text \in Seq(C)
  PROVE  Parse(text) \in States(C)
<1>1. Len(text) \in 0..Len(text)
  OBVIOUS
<1> QED BY <1>1, ReadingsType DEF Parse

LEMMA ParseEmpty == Parse(<< >>) = Start
<1>1. << >> \in Seq({}) /\ Len(<< >>) = 0
  OBVIOUS
<1> QED BY <1>1, ReadingsStep DEF Parse

LEMMA ParseAppend ==
  ASSUME NEW C, NEW text \in Seq(C), NEW c \in C
  PROVE  Parse(Append(text, c)) = Read(Parse(text), c)
<1> DEFINE longer == Append(text, c)
<1>1. /\ longer = text \o <<c>> /\ <<c>> \in Seq(C)
      /\ longer \in Seq(C) /\ Len(longer) = Len(text) + 1 /\ longer[Len(text) + 1] = c
      /\ Len(text) \in Nat
  BY AppendIsConcat
<1>2. Readings(longer)[Len(text)] = Parse(text)
  <2>1. Readings(text \o <<c>>)[Len(text)] = Readings(text)[Len(text)]
    <3>1. Len(text) \in 0..Len(text)
      BY <1>1
    <3> QED BY <1>1, <3>1, ReadingsOfPrefix
  <2> QED BY <1>1, <2>1 DEF Parse
<1>3. Parse(longer) = Read(Readings(longer)[Len(text)], c)
  <2>1. Len(longer) \in 1..Len(longer) /\ Len(longer) - 1 = Len(text)
    BY <1>1
  <2> HIDE DEF longer
  <2> QED BY <1>1, <2>1, ReadingsStep DEF Parse
<1> QED BY <1>2, <1>3

-----------------------------------------------------------------------------
\* The reading of text in which nothing is open and the literal is lit.
Closed(lit) == [escaped |-> FALSE, bold |-> FALSE, sound |-> TRUE, literal |-> lit]

LEMMA EscapedPrefixesStep ==
  ASSUME NEW C, NEW text \in Seq(C)
  PROVE  /\ EscapedPrefixes(text)[0] = << >>
         /\ \A n \in 1..Len(text) :
              EscapedPrefixes(text)[n] = EscapedPrefixes(text)[n - 1] \o EscapeChar(text[n])
<1> DEFINE Longer(e, n) == e \o EscapeChar(text[n])
<1>1. Len(text) \in Nat
  OBVIOUS
<1>2. EscapedPrefixes(text) =
        [n \in 0..Len(text) |->
           IF n = 0 THEN << >> ELSE Longer(EscapedPrefixes(text)[n - 1], n)]
  BY EscapedPrefixesDef
<1> HIDE DEF Longer
<1>3. /\ EscapedPrefixes(text)[0] = << >>
      /\ \A n \in 1..Len(text) :
           EscapedPrefixes(text)[n] = Longer(EscapedPrefixes(text)[n - 1], n)
  BY <1>1, <1>2
<1> QED BY <1>3 DEF Longer

\* One character, escaped if it must be, adds itself to what is read literally.
LEMMA EscapedCharacter ==
  ASSUME NEW C, "esc" \in C, NEW s \in Seq(C), NEW lit \in Seq(C), NEW c \in C, c # "esc",
         Parse(s) = Closed(lit)
  PROVE  EscapeChar(c) \in Seq(C) /\ Parse(s \o EscapeChar(c)) = Closed(lit \o <<c>>)
<1>1. lit \o <<c>> = Append(lit, c)
  BY AppendIsConcat
<1>2. CASE c \in Reserved
  <2> DEFINE t == Append(s, "esc")
  <2>1. /\ EscapeChar(c) = <<"esc", c>> /\ <<"esc", c>> \in Seq(C) /\ t \in Seq(C)
        /\ s \o <<"esc", c>> = Append(t, c)
    BY <1>2 DEF EscapeChar
  <2>2. Parse(t) = [Closed(lit) EXCEPT !.escaped = TRUE]
    <3>1. Parse(t) = Read(Closed(lit), "esc")
      BY ParseAppend
    <3> QED BY <3>1 DEF Read, Closed
  <2> HIDE DEF t
  <2>3. Parse(Append(t, c)) = Read([Closed(lit) EXCEPT !.escaped = TRUE], c)
    BY <2>1, <2>2, ParseAppend
  <2>4. Read([Closed(lit) EXCEPT !.escaped = TRUE], c) = Closed(Append(lit, c))
    BY DEF Read, Closed
  <2> QED BY <1>1, <2>1, <2>3, <2>4
<1>3. CASE c \notin Reserved
  <2>1. EscapeChar(c) = <<c>> /\ <<c>> \in Seq(C) /\ s \o <<c>> = Append(s, c)
    BY <1>3 DEF EscapeChar
  <2>2. Parse(Append(s, c)) = Read(Closed(lit), c)
    BY ParseAppend
  <2>3. c # "*"
    BY <1>3 DEF Reserved
  <2>4. Read(Closed(lit), c) = Closed(Append(lit, c))
    BY <1>3, <2>3 DEF Read, Closed
  <2> QED BY <1>1, <2>1, <2>2, <2>4
<1> QED BY <1>2, <1>3

\* The same in the middle of an escaped text: sent is what has been escaped, seen
\* what that is read as.
LEMMA EscapedNext ==
  ASSUME NEW C, "esc" \in C, NEW s \in Seq(C), NEW lit \in Seq(C),
         NEW sent \in Seq(C), NEW seen \in Seq(C), NEW c \in C, c # "esc",
         Parse(s \o sent) = Closed(lit \o seen)
  PROVE  /\ sent \o EscapeChar(c) \in Seq(C)
         /\ Parse(s \o (sent \o EscapeChar(c))) = Closed(lit \o (seen \o <<c>>))
<1> DEFINE t == s \o sent
           l == lit \o seen
<1>1. t \in Seq(C) /\ l \in Seq(C) /\ <<c>> \in Seq(C)
  BY ConcatProperties
<1>2. EscapeChar(c) \in Seq(C) /\ Parse(t \o EscapeChar(c)) = Closed(l \o <<c>>)
  <2> HIDE DEF t, l
  <2>1. Parse(t) = Closed(l)
    BY DEF t, l
  <2> QED BY <1>1, <2>1, EscapedCharacter
<1>3. t \o EscapeChar(c) = s \o (sent \o EscapeChar(c)) /\ sent \o EscapeChar(c) \in Seq(C)
  <2> DEFINE code == EscapeChar(c)
  <2>1. code \in Seq(C)
    BY <1>2
  <2> HIDE DEF code
  <2>2. (s \o sent) \o code = s \o (sent \o code) /\ sent \o code \in Seq(C)
    BY <2>1, ConcatAssociative, ConcatProperties
  <2> QED BY <2>2 DEF code
<1>4. l \o <<c>> = lit \o (seen \o <<c>>)
  BY <1>1, ConcatAssociative
<1> QED BY <1>2, <1>3, <1>4

LEMMA EscapeType ==
  ASSUME NEW C, "esc" \in C, NEW text \in Seq(C)
  PROVE  /\ Escape(text) \in Seq(C)
         /\ \A n \in 0..Len(text) : EscapedPrefixes(text)[n] \in Seq(C)
<1> DEFINE Prefix(n) == EscapedPrefixes(text)[n]
           Typed == {n \in Nat : n <= Len(text) => Prefix(n) \in Seq(C)}
<1>1. 0 \in Typed
  <2>1. Prefix(0) = << >>
    BY EscapedPrefixesStep
  <2>2. << >> \in Seq(C)
    OBVIOUS
  <2> QED BY <2>1, <2>2
<1>2. ASSUME NEW n \in Typed PROVE n + 1 \in Typed
  <2> SUFFICES ASSUME n + 1 <= Len(text) PROVE Prefix(n + 1) \in Seq(C)
    OBVIOUS
  <2>1. /\ n + 1 \in 1..Len(text) /\ (n + 1) - 1 = n /\ Prefix(n) \in Seq(C)
        /\ text[n + 1] \in C
    OBVIOUS
  <2>2. EscapeChar(text[n + 1]) \in Seq(C)
    BY <2>1 DEF EscapeChar
  <2>3. Prefix(n + 1) = Prefix(n) \o EscapeChar(text[n + 1])
    BY <2>1, EscapedPrefixesStep
  <2> QED BY <2>1, <2>2, <2>3, ConcatProperties
<1>3. Typed = Nat
  <2>1. Typed \in SUBSET Nat
    OBVIOUS
  <2> HIDE DEF Typed
  <2> QED BY <1>1, <1>2, <2>1, SetInduction
<1>4. Len(text) \in 0..Len(text)
  OBVIOUS
<1> QED BY <1>3, <1>4 DEF Escape

\* Whatever nothing is open in can be followed by an escaped text without a backslash,
\* which is read as it was before it was escaped.
THEOREM EscapedIsLiteral ==
  ASSUME NEW C, "esc" \in C, NEW s \in Seq(C), NEW lit \in Seq(C), Parse(s) = Closed(lit),
         NEW text \in Seq(C), \A i \in 1..Len(text) : text[i] # "esc"
  PROVE  Escape(text) \in Seq(C) /\ Parse(s \o Escape(text)) = Closed(lit \o text)
<1> DEFINE Prefix(n) == EscapedPrefixes(text)[n]
           Literal == {n \in Nat : n <= Len(text) =>
                         /\ Prefix(n) \in Seq(C)
                         /\ Parse(s \o Prefix(n)) = Closed(lit \o SubSeq(text, 1, n))}
<1>1. 0 \in Literal
  <2>1. Prefix(0) = << >>
    BY EscapedPrefixesStep
  <2>2. s \o << >> = s /\ lit \o << >> = lit /\ << >> \in Seq(C)
    BY ConcatEmptySeq
  <2>3. SubSeq(text, 1, 0) = << >>
    BY SubSeqEmpty
  <2> QED BY <2>1, <2>2, <2>3
<1>2. ASSUME NEW n \in Literal PROVE n + 1 \in Literal
  <2> SUFFICES ASSUME n + 1 <= Len(text)
               PROVE  /\ Prefix(n + 1) \in Seq(C)
                      /\ Parse(s \o Prefix(n + 1)) = Closed(lit \o SubSeq(text, 1, n + 1))
    OBVIOUS
  <2> DEFINE c == text[n + 1]
             sent == Prefix(n)
             seen == SubSeq(text, 1, n)
  <2>1. /\ n + 1 \in 1..Len(text) /\ n \in Nat /\ Len(text) \in Nat /\ (n + 1) - 1 = n
        /\ c \in C /\ c # "esc"
        /\ sent \in Seq(C) /\ Parse(s \o sent) = Closed(lit \o seen)
    OBVIOUS
  <2>2. seen \in Seq(C) /\ SubSeq(text, 1, n + 1) = seen \o <<c>>
    <3>1. 1 \in 1..Len(text) /\ n + 1 \in 1..Len(text)
      BY <2>1
    <3>2. SubSeq(text, 1, n + 1) = SubSeq(text, 1, (n + 1) - 1) \o <<text[n + 1]>>
      BY <3>1, SubSeqRecursiveSecond
    <3> QED BY <2>1, <3>2, SubSeqProperties
  <2>3. Prefix(n + 1) = sent \o EscapeChar(c)
    BY <2>1, EscapedPrefixesStep
  <2> HIDE DEF c, sent, seen
  <2>4. /\ sent \o EscapeChar(c) \in Seq(C)
        /\ Parse(s \o (sent \o EscapeChar(c))) = Closed(lit \o (seen \o <<c>>))
    BY <2>1, <2>2, EscapedNext
  <2> QED BY <2>2, <2>3, <2>4
<1>3. Literal = Nat
  <2>1. Literal \in SUBSET Nat
    OBVIOUS
  <2> HIDE DEF Literal
  <2> QED BY <1>1, <1>2, <2>1, SetInduction
<1>4. Len(text) \in Nat /\ SubSeq(text, 1, Len(text)) = text
  BY SubSeqFull, LenProperties
<1>5. /\ Prefix(Len(text)) \in Seq(C)
      /\ Parse(s \o Prefix(Len(text))) = Closed(lit \o SubSeq(text, 1, Len(text)))
  BY <1>3, <1>4
<1> QED BY <1>4, <1>5 DEF Escape

-----------------------------------------------------------------------------
\* What the server has refused once it refuses whatever follows.
LEMMA UnsoundStays ==
  ASSUME NEW C, NEW s \in Seq(C), NEW t \in Seq(C), ~Parse(s).sound
  PROVE  ~Parse(s \o t).sound
<1> DEFINE text == s \o t
           Refused == {n \in Nat : n <= Len(t) => ~Readings(text)[Len(s) + n].sound}
<1>1. text \in Seq(C) /\ Len(text) = Len(s) + Len(t) /\ Len(s) \in Nat /\ Len(t) \in Nat
  BY ConcatProperties, LenProperties
<1>2. 0 \in Refused
  <2>1. Readings(text)[Len(s)] = Parse(s)
    BY <1>1, ReadingsOfPrefix DEF Parse
  <2> QED BY <1>1, <2>1
<1> HIDE DEF text
<1>3. ASSUME NEW n \in Refused PROVE n + 1 \in Refused
  <2> SUFFICES ASSUME n + 1 <= Len(t) PROVE ~Readings(text)[Len(s) + (n + 1)].sound
    OBVIOUS
  <2> DEFINE m == Len(s) + n
             st == Readings(text)[m]
  <2>1. /\ m + 1 \in 1..Len(text) /\ m \in 0..Len(text) /\ (m + 1) - 1 = m
        /\ Len(s) + (n + 1) = m + 1 /\ ~st.sound
    BY <1>1
  <2>2. Readings(text)[m + 1] = Read(st, text[m + 1])
    BY <1>1, <2>1, ReadingsStep
  <2>3. st \in States(C)
    BY <1>1, <2>1, ReadingsType
  <2> HIDE DEF st, m
  <2>4. ~Read(st, text[m + 1]).sound
    BY <2>1, <2>3 DEF Read, States
  <2> QED BY <2>1, <2>2, <2>4
<1>4. Refused = Nat
  <2>1. Refused \in SUBSET Nat
    OBVIOUS
  <2> HIDE DEF Refused
  <2> QED BY <1>2, <1>3, <2>1, SetInduction
<1>5. ~Readings(text)[Len(s) + Len(t)].sound
  BY <1>1, <1>4
<1> QED BY <1>1, <1>5 DEF Parse, text

\* A text that had to be cut is refused, whatever it says: at least two of the dots
\* truncate appends are read as dots, and a dot must be escaped.
THEOREM CutIsRefused ==
  ASSUME NEW C, "." \in C, NEW text \in Seq(C), NEW limit \in Nat, limit > 3, Len(text) > limit
  PROVE  ~Accepts(Truncate(text, limit))
<1> DEFINE kept == SubSeq(text, 1, limit - 3)
           one == Append(kept, ".")
           two == Append(one, ".")
           st == Parse(kept)
<1>1. kept \in Seq(C)
  BY SubSeqProperties
<1>2. kept \o <<".", ".", ".">> = Append(two, ".")
      /\ one \in Seq(C) /\ two \in Seq(C)
  BY <1>1
<1>3. Truncate(text, limit) = Append(two, ".")
  BY <1>2 DEF Truncate
<1>4. st \in States(C)
  BY <1>1, ParseType
<1> HIDE DEF kept
<1>5. Parse(one) = Read(st, ".")
  BY <1>1, ParseAppend
<1> HIDE DEF one, st
<1>6. Parse(two) = Read(Read(st, "."), ".")
  BY <1>2, <1>5, ParseAppend
<1> HIDE DEF two
<1>7. Parse(Append(two, ".")) = Read(Read(Read(st, "."), "."), ".")
  BY <1>2, <1>6, ParseAppend
<1>8. ASSUME NEW r \in States(C), ~r.escaped \/ ~r.sound
      PROVE  ~Read(r, ".").sound
  BY <1>8 DEF Read, States, Reserved
<1>9. ~Read(st, ".").escaped
  BY <1>4 DEF Read, States
<1>10. Read(st, ".") \in States(C) /\ Read(Read(st, "."), ".") \in States(C)
  BY <1>4, ReadType
<1>11. ~Read(Read(st, "."), ".").sound
  BY <1>8, <1>9, <1>10
<1>12. ~Read(Read(Read(st, "."), "."), ".").sound
  BY <1>8, <1>10, <1>11
<1> QED BY <1>3, <1>7, <1>12 DEF Accepts

-----------------------------------------------------------------------------
\* The reading of a text in which bold text is open.
Bold(lit) == [escaped |-> FALSE, bold |-> TRUE, sound |-> TRUE, literal |-> lit]

LEMMA BoldBegins ==
  ASSUME NEW C, "*" \in C, "a" \in C, NEW s \in Seq(C), NEW lit \in Seq(C),
         Parse(s) = Closed(lit)
  PROVE  /\ Append(Append(s, "*"), "a") \in Seq(C)
         /\ Parse(Append(Append(s, "*"), "a")) = Bold(Append(lit, "a"))
<1> DEFINE one == Append(s, "*")
<1>1. one \in Seq(C)
  OBVIOUS
<1>2. Parse(one) = Read(Closed(lit), "*")
  BY ParseAppend
<1>3. Read(Closed(lit), "*") = Bold(lit)
  BY DEF Read, Closed, Bold
<1> HIDE DEF one
<1>4. Parse(Append(one, "a")) = Read(Bold(lit), "a")
  BY <1>1, <1>2, <1>3, ParseAppend
<1>5. Read(Bold(lit), "a") = Bold(Append(lit, "a"))
  BY DEF Read, Bold, Reserved
<1>6. Append(one, "a") \in Seq(C)
  BY <1>1
<1> QED BY <1>4, <1>5, <1>6 DEF one

\* A name in bold leaves nothing open.
LEMMA BoldName ==
  ASSUME NEW C, "*" \in C, "a" \in C, NEW s \in Seq(C), NEW lit \in Seq(C),
         Parse(s) = Closed(lit)
  PROVE  Parse(s \o <<"*", "a", "*">>) = Closed(Append(lit, "a"))
<1> DEFINE two == Append(Append(s, "*"), "a")
           l == Append(lit, "a")
<1>1. s \o <<"*", "a", "*">> = Append(two, "*")
  OBVIOUS
<1>2. two \in Seq(C) /\ Parse(two) = Bold(l)
  BY BoldBegins
<1> HIDE DEF two, l
<1>3. Parse(Append(two, "*")) = Read(Bold(l), "*")
  BY <1>2, ParseAppend
<1>4. Read(Bold(l), "*") = Closed(l)
  BY DEF Read, Closed, Bold
<1> QED BY <1>1, <1>3, <1>4 DEF l

\* The server accepts the message of an event that is no threat, and shows its field
\* as it is, if the field has no backslash.
THEOREM MessageIsRead ==
  ASSUME NEW C, "*" \in C, "a" \in C, "esc" \in C,
         NEW field \in Seq(C), \A i \in 1..Len(field) : field[i] # "esc"
  PROVE  /\ Accepts(FormatMessage(FALSE, field))
         /\ Parse(FormatMessage(FALSE, field)).literal = <<"a", "a">> \o field
<1> DEFINE name == <<"*", "a", "*">>
           one == Append(<< >>, "a")
           lit == Append(one, "a")
           head == name \o name
<1>1. << >> \in Seq(C) /\ name \in Seq(C) /\ << >> \o name = name
      /\ one \in Seq(C) /\ lit \in Seq(C) /\ head \in Seq(C)
  OBVIOUS
<1>2. Parse(<< >>) = Closed(<< >>)
  BY ParseEmpty DEF Start, Closed
<1>3. Parse(name) = Closed(one)
  BY <1>1, <1>2, BoldName
<1>4. lit = <<"a", "a">>
  <2>1. one = <<"a">>
    OBVIOUS
  <2> HIDE DEF one
  <2>2. Append(<<"a">>, "a") = <<"a", "a">>
    <3> DEFINE l == Append(<<"a">>, "a")
               r == <<"a", "a">>
    <3>1. l \in Seq(C) /\ r \in Seq(C) /\ Len(l) = 2 /\ Len(r) = 2
          /\ l[1] = r[1] /\ l[2] = r[2]
      OBVIOUS
    <3> HIDE DEF l, r
    <3>2. \A i \in 1..Len(l) : l[i] = r[i]
      BY <3>1
    <3>3. l = r
      BY <3>1, <3>2, SeqEqual
    <3> QED BY <3>3 DEF l, r
  <2> QED BY <2>1, <2>2
<1>5. FormatMessage(FALSE, field) = head \o Escape(field)
  BY DEF FormatMessage
<1>6. Parse(head) = Closed(lit)
  <2> HIDE DEF one
  <2> QED BY <1>1, <1>3, BoldName
<1> HIDE DEF head, lit
<1>7. Parse(head \o Escape(field)) = Closed(lit \o field)
  BY <1>1, <1>6, EscapedIsLiteral
<1>8. /\ Closed(lit \o field).sound = TRUE /\ Closed(lit \o field).bold = FALSE
      /\ Closed(lit \o field).literal = lit \o field
  BY DEF Closed
<1> QED BY <1>4, <1>5, <1>7, <1>8 DEF Accepts

\* The header of a threat is refused by the server, whatever the field and wherever
\* the message is cut: the exclamation mark in it is not escaped.
THEOREM ThreatIsRefused ==
  ASSUME NEW C, Reserved \cup {"a", "esc"} \subseteq C, NEW field \in Seq(C),
         NEW limit \in Nat, limit > 3
  PROVE  ~Accepts(Truncate(FormatMessage(TRUE, field), limit))
<1> DEFINE two == Append(Append(<< >>, "*"), "a")
           three == Append(two, "!")
           tail == (<<"*">> \o <<"*", "a", "*">>) \o Escape(field)
           message == FormatMessage(TRUE, field)
           st == Bold(Append(<< >>, "a"))
<1>0. "*" \in C /\ "a" \in C /\ "!" \in C /\ "." \in C /\ "esc" \in C
  BY DEF Reserved
<1>1. << >> \in Seq(C) /\ Parse(<< >>) = Closed(<< >>)
  BY ParseEmpty DEF Start, Closed
<1>2. two \in Seq(C) /\ Parse(two) = st
  BY <1>0, <1>1, BoldBegins
<1>3. ~Read(st, "!").sound
  BY DEF Read, Bold, Reserved
<1>4. <<"*", "a", "!", "*">> = three \o <<"*">>
  OBVIOUS
<1> HIDE DEF two, st
<1>5. Parse(three) = Read(st, "!") /\ three \in Seq(C)
  BY <1>0, <1>2, ParseAppend
<1> HIDE DEF three
<1>6. Escape(field) \in Seq(C)
  BY <1>0, EscapeType
<1>7. <<"*">> \in Seq(C) /\ <<"*", "a", "*">> \in Seq(C)
      /\ <<"*">> \o <<"*", "a", "*">> \in Seq(C)
  BY <1>0
<1>8. tail \in Seq(C)
  BY <1>6, <1>7, ConcatProperties
<1>9. message = three \o tail
  <2>1. (three \o <<"*">>) \o <<"*", "a", "*">> = three \o (<<"*">> \o <<"*", "a", "*">>)
    BY <1>5, <1>7, ConcatAssociative
  <2>2. (three \o (<<"*">> \o <<"*", "a", "*">>)) \o Escape(field) = three \o tail
    BY <1>5, <1>6, <1>7, ConcatAssociative
  <2> QED BY <1>4, <2>1, <2>2 DEF FormatMessage
<1> HIDE DEF tail, message
<1>10. message \in Seq(C) /\ ~Parse(message).sound
  BY <1>3, <1>5, <1>8, <1>9, UnsoundStays, ConcatProperties
<1>11. Len(message) \in Nat
  BY <1>10, LenProperties
<1>12. ~Accepts(Truncate(message, limit))
  <2>1. CASE Len(message) <= limit
    BY <1>10, <2>1 DEF Truncate, Accepts
  <2>2. CASE Len(message) > limit
    BY <1>0, <1>10, <2>2, CutIsRefused
  <2> QED BY <1>11, <2>1, <2>2
<1> QED BY <1>12 DEF message
=============================================================================
