--------------------------- MODULE DeliveryProofs ---------------------------
(***************************************************************************)
(* What a Send may claim, how often it may alert and what becomes of its   *)
(* text, proved for every notifier, message, limit and order in which the  *)
(* server takes the requests Send has given up.                            *)
(***************************************************************************)
EXTENDS Delivery, TelegramTextProofs, FiniteSetTheorems

\* A reply is to the request Send waits for, and success was read from one.
ReplyInv ==
  /\ reply # "none" => at = "wait"
  /\ reply = "accepted" => cur \in shown
  /\ result = "ok" => at = "over" /\ cur \in shown

\* As long as Send has missed no reply, an alert that was shown is the one it
\* waits for or has ended with, and none is under way a second time.
KnownInv ==
  ~lost => \A r \in shown :
             /\ r = cur /\ r \notin wire
             /\ at = "over" \/ (at = "wait" /\ reply = "accepted")

DInv == TypeOK /\ ReplyInv /\ KnownInv

LEMMA InitInv == Init => DInv
BY DEF Init, DInv, TypeOK, ReplyInv, KnownInv, Requests, Kinds

\* Where an error leads: to the text, with nothing read yet, or out of Send.
LEMMA FallbackInv ==
  ASSUME TypeOK, Fallback
  PROVE  /\ at' \in {"post", "over"} /\ cur' \in Requests(kind)
         /\ result' # "ok" \/ result' = result
         /\ result' \in {"none", "ok", "error"}
BY DEF TypeOK, Fallback, Requests, Kinds

LEMMA StepInv == DInv /\ [Next]_vars => DInv'
<1> SUFFICES ASSUME DInv, [Next]_vars PROVE DInv'
  OBVIOUS
<1> USE DEF DInv
<1>1. CASE OpenArtifact
  BY <1>1, FallbackInv DEF OpenArtifact, TypeOK, ReplyInv, KnownInv, event
<1>2. CASE Post
  BY <1>2 DEF Post, TypeOK, ReplyInv, KnownInv, event, ghosts
<1>3. CASE RequestFails
  BY <1>3, FallbackInv DEF RequestFails, TypeOK, ReplyInv, KnownInv, event
<1>4. CASE ReadReply
  <2>1. CASE reply = "accepted"
    BY <1>4, <2>1 DEF ReadReply, TypeOK, ReplyInv, KnownInv, event, ghosts
  <2>2. CASE reply # "accepted"
    BY <1>4, <2>2, FallbackInv DEF ReadReply, TypeOK, ReplyInv, KnownInv, event, ghosts
  <2> QED BY <2>1, <2>2
<1>5. ASSUME NEW r \in wire, Serve(r) PROVE DInv'
  <2>1. TypeOK'
    BY <1>5 DEF Serve, Answer, TypeOK, event
  <2>2. ReplyInv'
    BY <1>5 DEF Serve, Answer, ReplyInv
  <2>3. KnownInv'
    <3>1. SUFFICES ASSUME ~lost', NEW q \in shown'
                   PROVE  /\ q = cur' /\ q \notin wire'
                          /\ at' = "over" \/ (at' = "wait" /\ reply' = "accepted")
      BY DEF KnownInv
    <3>2. ~lost /\ wire' = wire \ {r} /\ UNCHANGED <<at, cur>>
      BY <1>5, <3>1 DEF Serve, Answer, TypeOK
    <3>3. \A s \in shown : /\ s = cur /\ s \notin wire
                           /\ at = "over" \/ (at = "wait" /\ reply = "accepted")
      BY <3>2 DEF KnownInv
    <3>4. CASE Acceptable(r) /\ Answer(r, "accepted") /\ shown' = shown \cup {r}
      <4>1. at = "wait" /\ cur = r /\ reply' = "accepted"
        <5>1. CASE UNCHANGED reply /\ lost' = (lost \/ "accepted" = "accepted")
          BY <3>1, <5>1
        <5> QED BY <3>4, <5>1 DEF Answer
      <4> QED BY <3>2, <3>3, <3>4, <4>1
    <3>5. CASE Answer(r, "refused") /\ UNCHANGED shown
      <4>1. CASE q \in shown /\ cur = r
        BY <3>3, <4>1
      <4>2. CASE cur # r
        BY <3>2, <3>3, <3>5, <4>2 DEF Answer
      <4> QED BY <3>5, <4>1, <4>2
    <3> QED BY <1>5, <3>4, <3>5 DEF Serve
  <2> QED BY <2>1, <2>2, <2>3
<1>6. CASE Deadline
  BY <1>6 DEF Deadline, TypeOK, ReplyInv, KnownInv, event
<1>7. CASE UNCHANGED vars
  BY <1>7 DEF vars, TypeOK, ReplyInv, KnownInv, event, ghosts
<1> QED BY <1>1, <1>2, <1>3, <1>4, <1>5, <1>6, <1>7 DEF Next, Client, Over

LEMMA InvHolds == Spec => []DInv
BY InitInv, StepInv, PTL DEF Spec

\* The types, and that Send makes no request but its notifier's own, whatever the
\* server does with those it has given up.
THEOREM TypeCorrect == Spec => []TypeOK
<1>1. DInv => TypeOK BY DEF DInv
<1> QED BY <1>1, InvHolds, PTL

\* Send returns nil only after a request of it was shown, for every message and
\* every way the server may lose, delay or refuse.
THEOREM NilIsShown == Spec => []NilMeansShown
<1>1. DInv => NilMeansShown BY DEF DInv, ReplyInv, NilMeansShown
<1> QED BY <1>1, InvHolds, PTL

\* A second alert for one event takes a reply that Send never saw.
THEOREM TwiceTakesLoss == Spec => []TwiceOnlyIfLost
<1>1. DInv => TwiceOnlyIfLost
  <2> SUFFICES ASSUME DInv, ~lost PROVE ~(Cardinality(shown) > 1)
    BY DEF TwiceOnlyIfLost
  <2>1. shown = {} \/ shown = {cur}
    BY DEF DInv, KnownInv
  <2>2. Cardinality({}) = 0 /\ Cardinality({cur}) = 1
    BY FS_EmptySet, FS_Singleton
  <2> QED BY <2>1, <2>2
<1> QED BY <1>1, InvHolds, PTL

-----------------------------------------------------------------------------
\* The characters of any message.
Alphabet == Chars \cup Reserved \cup {"a", "esc"}

LEMMA FieldType ==
  ASSUME TypeOK
  PROVE  field \in Seq(Alphabet)
<1>1. field \in Seq(Chars)
  BY DEF TypeOK, Fields, BoundedSeq, SeqOf
<1>2. Chars \subseteq Alphabet
  BY DEF Alphabet
<1> QED BY <1>1, <1>2, SeqMonotonic

LEMMA Characters ==
  /\ "esc" \in Alphabet /\ "a" \in Alphabet /\ "*" \in Alphabet
  /\ Reserved \cup {"a", "esc"} \subseteq Alphabet
BY DEF Alphabet, Reserved

\* What escapeMarkdown returns is accepted and read back as the field it was given,
\* whatever characters and however many the field has.
THEOREM EscapingFaithful == Spec => []EscapeIsFaithful
<1>1. TypeOK => EscapeIsFaithful
  <2> SUFFICES ASSUME TypeOK, \A i \in DOMAIN field : field[i] # "esc"
               PROVE  Accepts(Escape(field)) /\ Parse(Escape(field)).literal = field
    BY DEF EscapeIsFaithful
  <2> DEFINE empty == << >>
  <2>1. field \in Seq(Alphabet) /\ empty \in Seq(Alphabet)
    BY FieldType
  <2>2. \A i \in 1..Len(field) : field[i] # "esc"
    BY <2>1
  <2>3. Parse(empty) = Closed(empty)
    BY ParseEmpty DEF Start, Closed
  <2> HIDE DEF empty
  <2>4. Escape(field) \in Seq(Alphabet) /\ Parse(empty \o Escape(field)) = Closed(empty \o field)
    BY <2>1, <2>2, <2>3, Characters, EscapedIsLiteral
  <2>5. empty \o Escape(field) = Escape(field) /\ empty \o field = field
    BY <2>1, <2>4, ConcatEmptySeq DEF empty
  <2>6. /\ Closed(field).sound = TRUE /\ Closed(field).bold = FALSE
        /\ Closed(field).literal = field
    BY DEF Closed
  <2> QED BY <2>4, <2>5, <2>6 DEF Accepts
<1> QED BY <1>1, TypeCorrect, PTL

\* What is shown was accepted.
LEMMA ShownAcceptable == Spec => [](\A r \in shown : Acceptable(r))
<1> DEFINE I == \A r \in shown : Acceptable(r)
<1>1. Init => I
  BY DEF Init
<1>2. ASSUME I, [Next]_vars PROVE I'
  <2>1. UNCHANGED event
    BY <1>2 DEF Next, Client, OpenArtifact, Post, RequestFails, ReadReply, Serve, Deadline, Over, vars
  <2>2. \A r : Acceptable(r)' <=> Acceptable(r)
    BY <2>1 DEF Acceptable, Message, event
  <2>3. \A r \in shown' : r \in shown \/ Acceptable(r)
    BY <1>2 DEF Next, Client, OpenArtifact, Post, RequestFails, ReadReply, Serve, Deadline, Over, vars, ghosts
  <2> QED BY <1>2, <2>2, <2>3
<1> QED BY <1>1, <1>2, PTL DEF Spec

LEMMA LimitsOf ==
  ASSUME NEW r
  PROVE  LimitOf(r) \in Nat /\ LimitOf(r) > 3
BY LimitsAssumption DEF LimitOf

\* Nobody is told of a threat by Telegram, whatever its fields and limits are: the
\* header's exclamation mark is not escaped, and Telegram refuses the text as it has
\* refused the caption.
THEOREM ThreatNeverShown == Spec => [](kind = "telegram" /\ isThreat => shown = {})
<1>1. TypeOK /\ (\A r \in shown : Acceptable(r)) =>
        (kind = "telegram" /\ isThreat => shown = {})
  <2> SUFFICES ASSUME TypeOK, kind = "telegram", isThreat, NEW r \in shown, Acceptable(r)
               PROVE  FALSE
    OBVIOUS
  <2>1. r # "hook"
    BY DEF TypeOK, Requests
  <2>2. Message = FormatMessage(TRUE, field)
    BY DEF Message, TypeOK
  <2>3. ~Accepts(Truncate(FormatMessage(TRUE, field), LimitOf(r)))
    BY FieldType, Characters, LimitsOf, ThreatIsRefused
  <2> QED BY <2>1, <2>2, <2>3 DEF Acceptable
<1> QED BY <1>1, ShownAcceptable, TypeCorrect, PTL

LEMMA MessageType ==
  ASSUME TypeOK
  PROVE  Message \in Seq(Alphabet) /\ Len(Message) \in Nat
<1>1. Escape(field) \in Seq(Alphabet)
  BY FieldType, Characters, EscapeType
<1>2. /\ <<"*", "a", "!", "*">> \o <<"*", "a", "*">> \in Seq(Alphabet)
      /\ <<"*", "a", "*">> \o <<"*", "a", "*">> \in Seq(Alphabet)
  BY DEF Alphabet, Reserved
<1>3. Message \in Seq(Alphabet)
  BY <1>1, <1>2, ConcatProperties DEF Message, FormatMessage
<1> QED BY <1>3, LenProperties

\* Nobody is told by Telegram of an event whose text has to be cut: what truncate puts
\* in place of the rest is refused.
THEOREM LongNeverShown == Spec => [](kind = "telegram" /\ Len(Message) > TextLimit => shown = {})
<1>1. TypeOK /\ (\A r \in shown : Acceptable(r)) =>
        (kind = "telegram" /\ Len(Message) > TextLimit => shown = {})
  <2> SUFFICES ASSUME TypeOK, kind = "telegram", Len(Message) > TextLimit,
                      NEW r \in shown, Acceptable(r)
               PROVE  FALSE
    OBVIOUS
  <2>1. r # "hook"
    BY DEF TypeOK, Requests
  <2>2. Len(Message) > LimitOf(r)
    BY MessageType, LimitsAssumption DEF LimitOf
  <2>3. "." \in Alphabet
    BY DEF Alphabet, Reserved
  <2>4. ~Accepts(Truncate(Message, LimitOf(r)))
    BY <2>2, <2>3, MessageType, LimitsOf, CutIsRefused
  <2> QED BY <2>1, <2>4 DEF Acceptable
<1> QED BY <1>1, ShownAcceptable, TypeCorrect, PTL

-----------------------------------------------------------------------------
\* Where a Send is as long as nothing but the text has gone wrong: the request it
\* waits for is on the wire, or has been served with a reply that depends on its text
\* only, and every request before it was refused for its text.
Untroubled ==
  ~faulty =>
    /\ at \in {"open", "post"} => wire = {} /\ shown = {} /\ reply = "none"
    /\ at = "wait" /\ reply = "none" =>
         (wire = {cur} /\ shown = {}) \/ (wire = {} /\ shown \subseteq {cur})
    /\ reply = "accepted" => wire = {} /\ shown = {cur}
    /\ reply = "refused" => wire = {} /\ shown = {} /\ ~Acceptable(cur)
    /\ at = "over" => /\ wire = {} /\ reply = "none"
                      /\ \/ result = "ok" /\ shown = {cur}
                         \/ cur # "media" /\ ~Acceptable(cur)

LEMMA UntroubledStep ==
  ASSUME DInv, Untroubled, [Next]_vars
  PROVE  Untroubled'
<1> SUFFICES ASSUME ~faulty' PROVE Untroubled'
  BY DEF Untroubled
<1> USE DEF DInv
<1>1. ~faulty /\ UNCHANGED event
  BY DEF TypeOK, Next, Client, OpenArtifact, Post, RequestFails, ReadReply, Serve, Deadline,
         Over, vars, ghosts
<1>2. \A r : Acceptable(r)' <=> Acceptable(r)
  BY <1>1 DEF Acceptable, Message, event
<1>3. CASE OpenArtifact
  BY <1>1, <1>3 DEF OpenArtifact, Untroubled
<1>4. CASE Post
  BY <1>1, <1>4 DEF Post, Untroubled, ghosts, ReplyInv
<1>5. CASE RequestFails
  BY <1>1, <1>5 DEF RequestFails
<1>6. CASE ReadReply
  <2>1. CASE reply = "accepted"
    BY <1>1, <1>2, <1>6, <2>1 DEF ReadReply, Untroubled, ghosts
  <2>2. CASE reply = "refused"
    BY <1>1, <1>2, <1>6, <2>2 DEF ReadReply, Fallback, Untroubled, ghosts
  <2> QED BY <1>6, <2>1, <2>2 DEF TypeOK, ReadReply
<1>7. ASSUME NEW r \in wire, Serve(r) PROVE Untroubled'
  <2>1. /\ at = "wait" /\ reply = "none" /\ wire = {r} /\ cur = r /\ shown = {}
        /\ wire' = {} /\ UNCHANGED <<at, cur>>
    BY <1>1, <1>7 DEF Serve, Answer, Untroubled, TypeOK, ReplyInv
  <2>2. CASE Acceptable(r) /\ Answer(r, "accepted") /\ shown' = shown \cup {r}
    BY <2>1, <2>2 DEF Answer, Untroubled
  <2>3. CASE ~Acceptable(r) /\ Answer(r, "refused") /\ UNCHANGED shown
    BY <1>2, <2>1, <2>3 DEF Answer, Untroubled
  <2> QED BY <1>1, <1>7, <2>2, <2>3 DEF Serve
<1>8. CASE Deadline
  BY <1>1, <1>8 DEF Deadline
<1>9. CASE UNCHANGED vars
  BY <1>2, <1>9 DEF vars, ghosts, Untroubled
<1> QED BY <1>3, <1>4, <1>5, <1>6, <1>7, <1>8, <1>9 DEF Next, Client, Over

\* If nothing but the text goes wrong, Send alerts exactly once and says so, for every
\* message that is no threat's, has no backslash and need not be cut as a text.
THEOREM RecordedShown == Spec => []RecordedIsShown
<1>1. Init => Untroubled
  BY DEF Init, Untroubled
<1>2. DInv /\ Untroubled /\ [Next]_vars => Untroubled'
  BY UntroubledStep
<1>3. DInv /\ Untroubled => RecordedIsShown
  <2> SUFFICES ASSUME DInv, Untroubled, at = "over", ~faulty,
                      kind = "telegram" => /\ ~isThreat /\ Len(Message) <= TextLimit
                                           /\ \A i \in DOMAIN field : field[i] # "esc"
               PROVE  result = "ok" /\ Cardinality(shown) = 1
    BY DEF RecordedIsShown
  <2>1. ASSUME cur # "media" PROVE Acceptable(cur)
    <3>1. CASE cur = "hook"
      BY <3>1 DEF Acceptable
    <3>2. CASE cur = "text"
      <4>1. kind = "telegram" /\ isThreat = FALSE
        BY <3>2 DEF DInv, TypeOK, Requests
      <4>2. field \in Seq(Alphabet)
        BY FieldType DEF DInv
      <4>3. \A i \in 1..Len(field) : field[i] # "esc"
        BY <4>1, <4>2
      <4>4. Accepts(FormatMessage(FALSE, field))
        BY <4>2, <4>3, Characters, MessageIsRead
      <4>5. Message = FormatMessage(FALSE, field) /\ Truncate(Message, LimitOf(cur)) = Message
        BY <3>2, <4>1 DEF Message, LimitOf, Truncate
      <4> QED BY <4>4, <4>5 DEF Acceptable
    <3> QED BY <2>1, <3>1, <3>2 DEF DInv, TypeOK, Requests
  <2>2. result = "ok" /\ shown = {cur}
    BY <2>1 DEF Untroubled
  <2> QED BY <2>2, FS_Singleton
<1> QED BY <1>1, <1>2, <1>3, InvHolds, PTL DEF Spec
-----------------------------------------------------------------------------
\* How far Send has come: the artifact, the request that carries it, the text.
SendProgress ==
  IF at = "over" THEN 5
  ELSE IF at = "open" THEN 0
  ELSE (IF cur = "media" THEN 1 ELSE 3) + (IF at = "wait" THEN 1 ELSE 0)

\* Send only goes forward, whatever it is answered, so that it makes each of its
\* requests at most once and returns after five steps at most: nothing it sends is
\* sent again by Send itself.
SendAdvances ==
  [][/\ SendProgress' \in 0..5
     /\ <<at, cur, result>>' # <<at, cur, result>> => SendProgress' > SendProgress
     /\ ~(wire' \subseteq wire) =>
          wire' = wire \cup {cur} /\ at = "post" /\ at' = "wait" /\ cur' = cur]_vars

LEMMA FallbackAdvances ==
  ASSUME at \in {"open", "post", "wait"}, at = "open" => cur = "media", Fallback
  PROVE  SendProgress' > SendProgress
BY DEF Fallback, SendProgress

\* Only Telegram opens the artifact, for its first request; only Send's end has a
\* result.
PlaceInv ==
  /\ at = "open" => cur = "media"
  /\ result = "none" <=> at # "over"

LEMMA PlaceInvHolds == Spec => []PlaceInv
<1>1. Init => PlaceInv
  BY DEF Init, PlaceInv, Kinds
<1>2. TypeOK /\ PlaceInv /\ [Next]_vars => PlaceInv'
  BY DEF TypeOK, PlaceInv, Next, Client, OpenArtifact, Post, RequestFails, ReadReply, Fallback,
     Serve, Deadline, Over, vars, event
<1> QED BY <1>1, <1>2, TypeCorrect, PTL DEF Spec

\* The safety half of SendEnds, for every notifier, message and limit.
THEOREM SendSteps == Spec => SendAdvances
<1> DEFINE Advance ==
       /\ SendProgress' \in 0..5
       /\ <<at, cur, result>>' # <<at, cur, result>> => SendProgress' > SendProgress
       /\ ~(wire' \subseteq wire) =>
            wire' = wire \cup {cur} /\ at = "post" /\ at' = "wait" /\ cur' = cur
<1>1. TypeOK /\ PlaceInv /\ [Next]_vars => [Advance]_vars
  <2> SUFFICES ASSUME TypeOK, PlaceInv, [Next]_vars PROVE Advance
    OBVIOUS
  <2>1. SendProgress' \in 0..5
    BY DEF SendProgress
  <2>2. CASE OpenArtifact
    <3>1. CASE at' = "post" /\ UNCHANGED <<cur, result, faulty>>
      BY <2>1, <2>2, <3>1 DEF OpenArtifact, PlaceInv, SendProgress
    <3>2. CASE Fallback
      BY <2>1, <2>2, <3>2, FallbackAdvances DEF OpenArtifact, PlaceInv
    <3> QED BY <2>2, <3>1, <3>2 DEF OpenArtifact
  <2>3. CASE Post
    BY <2>1, <2>3 DEF Post, SendProgress
  <2>4. CASE RequestFails
    BY <2>1, <2>4, FallbackAdvances DEF RequestFails
  <2>5. CASE ReadReply
    <3>1. UNCHANGED wire /\ at = "wait"
      BY <2>5 DEF ReadReply
    <3>2. CASE reply = "accepted"
      BY <2>1, <2>5, <3>1, <3>2 DEF ReadReply, SendProgress
    <3>3. CASE Fallback
      BY <2>1, <3>1, <3>3, FallbackAdvances
    <3> QED BY <2>5, <3>2, <3>3 DEF ReadReply
  <2>6. CASE UNCHANGED <<at, cur, result>> /\ wire' \subseteq wire
    BY <2>1, <2>6
  <2> QED BY <2>2, <2>3, <2>4, <2>5, <2>6 DEF Next, Client, Serve, Answer, Deadline, Over, vars
<1> QED BY <1>1, TypeCorrect, PlaceInvHolds, PTL DEF Spec, SendAdvances

-----------------------------------------------------------------------------
\* One Send is all Coordinator takes a notifier's goroutine to be.
notifBar == IF result = "none" THEN "sending" ELSE IF result = "ok" THEN "sent" ELSE "failed"

Call == INSTANCE Coordinator
          WITH Events <- {"call"}, Files <- {"file"}, FileOf <- [e \in {"call"} |-> "file"],
               Notifiers <- {"notifier"}, AlwaysNotifiers <- {"notifier"}, Concurrency <- 1,
               RetainFiles <- FALSE, AlwaysStore <- FALSE,
               pc <- [e \in {"call"} |-> "notifying"], disk <- {"file"}, stuck <- {}, sem <- 1,
               wg <- 1, expired <- [e \in {"call"} |-> ctxDone],
               verdict <- [e \in {"call"} |-> IF isThreat THEN "threat" ELSE "clear"],
               artifact <- [e \in {"call"} |-> IF isThreat THEN "stored" ELSE "none"],
               notif <- [e \in {"call"} |-> [n \in {"notifier"} |-> notifBar]],
               cancelled <- FALSE, waited <- FALSE, late <- [e \in {"call"} |-> 0]

\* From the go statement of the fan-out to its return, a Send takes no step but
\* Coordinator's, and "sent" means there that people have been alerted.
SendImplements ==
  /\ notifBar = "sending"
  /\ [][Call!SendReturn("call", "notifier") \/ Call!Timeout("call")]_(Call!vars)
  /\ [](notifBar = "sent" => shown # {})

\* The notifiers that Coordinator assumes are the ones the code has, whatever the
\* server and the network do.
THEOREM NotifierImplements == Spec => SendImplements
<1>1. Init => notifBar = "sending"
  BY DEF Init, notifBar
<1>2. TypeOK /\ TypeOK' /\ PlaceInv /\ [Next]_vars =>
        [Call!SendReturn("call", "notifier") \/ Call!Timeout("call")]_(Call!vars)
  <2> SUFFICES ASSUME TypeOK, TypeOK', PlaceInv, [Next]_vars, ~(UNCHANGED Call!vars)
               PROVE  Call!SendReturn("call", "notifier") \/ Call!Timeout("call")
    OBVIOUS
  <2>1. UNCHANGED isThreat
    BY DEF Next, Client, OpenArtifact, Post, RequestFails, ReadReply, Serve, Deadline, Over, vars, event
  <2>2. CASE Deadline
    <3>1. ~ctxDone /\ ctxDone' = TRUE /\ UNCHANGED notifBar
      BY <2>2 DEF Deadline, notifBar
    <3> QED BY <2>1, <3>1 DEF Call!Timeout, Call!Processing, Call!status
  <2>3. CASE UNCHANGED <<result, ctxDone>>
    BY <2>1, <2>3 DEF Call!vars, Call!status, notifBar
  <2>4. CASE Client /\ result' # result
    <3>1. UNCHANGED ctxDone /\ at # "over"
      BY <2>4 DEF Client, OpenArtifact, Post, RequestFails, ReadReply
    <3>2. result = "none" /\ result' \in {"ok", "error"}
      BY <2>4, <3>1 DEF PlaceInv, Client, OpenArtifact, Post, RequestFails, ReadReply, Fallback
    <3>3. notifBar = "sending" /\ notifBar' \in {"sent", "failed"}
      BY <3>2 DEF notifBar
    <3> QED BY <2>1, <3>1, <3>3 DEF Call!SendReturn
  <2> QED BY <2>2, <2>3, <2>4 DEF Next, Client, OpenArtifact, Post, RequestFails, ReadReply, Serve,
            Over, vars
<1>3. DInv => (notifBar = "sent" => shown # {})
  BY DEF DInv, TypeOK, ReplyInv, notifBar
<1> QED BY <1>1, <1>2, <1>3, TypeCorrect, PlaceInvHolds, InvHolds, PTL DEF Spec, SendImplements
=============================================================================
