------------------------------ MODULE Delivery ------------------------------
(***************************************************************************)
(* internal/notify: one Send of one notifier. Telegram first uploads the   *)
(* artifact with the message as its caption and, whatever goes wrong with  *)
(* that, sends the message as a text; the webhook and Homey make a single  *)
(* request. A request may not leave, be refused, or be served without its  *)
(* reply being read: the server and the network run on their own.          *)
(***************************************************************************)
EXTENDS TelegramText, FiniteSets

CONSTANTS Chars,         \* the characters of an event's fields
          MaxField,      \* bound: the length of a field
          CaptionLimit,  \* what Telegram allows of a caption, scaled
          TextLimit      \* and of a text

ASSUME LimitsAssumption == TextLimit \in Nat /\ CaptionLimit \in 4..TextLimit

VARIABLES
  kind,      \* the notifier
  isThreat,  \* result.IsThreat
  field,     \* the event's data in the message
  at,        \* where Send stands
  cur,       \* the request it is at
  wire,      \* requests that have left and have not been served
  reply,     \* the server's reply to cur, if it has come back
  ctxDone,   \* processCtx is done
  result,    \* what Send returned
  shown,     \* ghost: requests people have got an alert from
  lost,      \* ghost: a request was served and Send does not know
  faulty     \* ghost: something but the text went wrong

event == <<kind, isThreat, field>>
ghosts == <<shown, lost, faulty>>
vars == <<event, at, cur, wire, reply, ctxDone, result, ghosts>>

Kinds == {"telegram", "webhook", "homey"}
Requests(k) == IF k = "telegram" THEN {"media", "text"} ELSE {"hook"}
Fields == BoundedSeq(Chars, MaxField)
Message == FormatMessage(isThreat, field)

Init ==
  /\ kind \in Kinds /\ isThreat \in BOOLEAN /\ field \in Fields
  /\ IF kind = "telegram" THEN at = "open" /\ cur = "media" ELSE at = "post" /\ cur = "hook"
  /\ wire = {} /\ reply = "none"
  /\ ctxDone = FALSE
  /\ result = "none"
  /\ shown = {} /\ lost = FALSE /\ faulty = FALSE

\* Mutant of LimitOf: one limit for both requests.
LimitOfCaption(r) == CaptionLimit

LimitOf(r) == IF r = "media" THEN CaptionLimit ELSE TextLimit

\* What the server makes of a request: only Telegram reads the text.
Acceptable(r) == r = "hook" \/ Accepts(Truncate(Message, LimitOf(r)))

-----------------------------------------------------------------------------
\* Mutant of Fallback: a failed request is retried.
FallbackRetries ==
  /\ at' = "post" /\ UNCHANGED <<cur, result>>

\* An error of the media request, whatever it is, leads to the text; an error of
\* any other request is Send's.
Fallback ==
  IF cur = "media"
  THEN at' = "post" /\ cur' = "text" /\ UNCHANGED result
  ELSE at' = "over" /\ result' = "error" /\ UNCHANGED cur

OpenArtifact ==
  /\ at = "open"
  /\ \/ at' = "post" /\ UNCHANGED <<cur, result, faulty>>
     \/ Fallback /\ faulty' = TRUE
  /\ UNCHANGED <<event, wire, reply, ctxDone, shown, lost>>

Post ==
  /\ at = "post" /\ ~ctxDone
  /\ wire' = wire \cup {cur}
  /\ reply' = "none"
  /\ at' = "wait"
  /\ UNCHANGED <<event, cur, ctxDone, result, ghosts>>

\* The request is not made, or its reply does not come in time: no connection, the
\* client's timeout, or the context.
RequestFails ==
  /\ at \in {"post", "wait"} /\ reply = "none"
  /\ Fallback
  /\ faulty' = TRUE
  /\ UNCHANGED <<event, wire, reply, ctxDone, shown, lost>>

\* Mutants of ReadReply: the status is not looked at, or Telegram goes on to its
\* text in any case.
ReadReplyAnyStatus ==
  /\ at = "wait" /\ reply # "none"
  /\ at' = "over" /\ result' = "ok" /\ UNCHANGED cur
  /\ reply' = "none"
  /\ UNCHANGED <<event, wire, ctxDone, ghosts>>
ReadReplySendsBoth ==
  /\ at = "wait" /\ reply # "none"
  /\ IF reply = "accepted" /\ cur # "media"
     THEN at' = "over" /\ result' = "ok" /\ UNCHANGED cur
     ELSE Fallback
  /\ reply' = "none"
  /\ UNCHANGED <<event, wire, ctxDone, ghosts>>

ReadReply ==
  /\ at = "wait" /\ reply # "none"
  /\ IF reply = "accepted"
     THEN at' = "over" /\ result' = "ok" /\ UNCHANGED cur
     ELSE Fallback
  /\ reply' = "none"
  /\ UNCHANGED <<event, wire, ctxDone, ghosts>>

\* The server takes a request from the wire, which Send may have given up by then,
\* and its reply reaches a Send that still waits for it, or does not.
Answer(r, a) ==
  /\ wire' = wire \ {r}
  /\ \/ at = "wait" /\ cur = r /\ reply' = a /\ UNCHANGED lost
     \/ UNCHANGED reply /\ lost' = (lost \/ a = "accepted")

Serve(r) ==
  /\ r \in wire
  /\ \/ Acceptable(r) /\ Answer(r, "accepted") /\ shown' = shown \cup {r} /\ UNCHANGED faulty
     \/ ~Acceptable(r) /\ Answer(r, "refused") /\ UNCHANGED <<shown, faulty>>
     \/ Answer(r, "refused") /\ faulty' = TRUE /\ UNCHANGED shown
  /\ UNCHANGED <<event, at, cur, ctxDone, result>>

Deadline ==
  /\ ~ctxDone /\ at # "over"
  /\ ctxDone' = TRUE /\ faulty' = TRUE
  /\ UNCHANGED <<event, at, cur, wire, reply, result, shown, lost>>

Over == at = "over" /\ UNCHANGED vars

Client == OpenArtifact \/ Post \/ RequestFails \/ ReadReply
Next == Client \/ (\E r \in wire : Serve(r)) \/ Deadline \/ Over

Spec == Init /\ [][Next]_vars

\* The client's steps are taken; its timeout bounds every request, and nothing is
\* asked of the server.
FairSpec == Spec /\ WF_vars(Client)
-----------------------------------------------------------------------------
\* Every variable has its type, and Send only makes its notifier's requests.
TypeOK ==
  /\ kind \in Kinds /\ isThreat \in BOOLEAN /\ field \in Fields
  /\ at \in {"open", "post", "wait", "over"}
  /\ cur \in Requests(kind) /\ wire \subseteq Requests(kind) /\ shown \subseteq Requests(kind)
  /\ reply \in {"none", "accepted", "refused"}
  /\ result \in {"none", "ok", "error"}
  /\ ctxDone \in BOOLEAN /\ lost \in BOOLEAN /\ faulty \in BOOLEAN

\* Send returns nil only if people have been alerted.
NilMeansShown == result = "ok" => cur \in shown

\* One event is announced twice only if Send could not know of the first time: it
\* was served after Send had given it up, or its reply did not come back.
TwiceOnlyIfLost == Cardinality(shown) > 1 => lost

\* The text of a field is shown as it is: the server accepts what escapeMarkdown
\* returns and reads the field back from it (fields without a backslash).
EscapeIsFaithful ==
  (\A i \in DOMAIN field : field[i] # "esc") =>
    Accepts(Escape(field)) /\ Parse(Escape(field)).literal = field

\* If nothing else goes wrong, an event that is no threat is announced, by the
\* fallback if its caption had to be cut, as long as its text need not be.
RecordedIsShown ==
  /\ at = "over" /\ ~faulty
  /\ kind = "telegram" => /\ ~isThreat /\ Len(Message) <= TextLimit
                          /\ \A i \in DOMAIN field : field[i] # "esc"
  => result = "ok" /\ Cardinality(shown) = 1

\* Send returns, whatever the server and the network do.
SendEnds == <>(at = "over")

\* docs/TELEGRAM_NOTIFIER.md:63: the header of a threat is one the server can show,
\* so that, if nothing else goes wrong, a threat is announced.
ThreatIsShown ==
  at = "over" /\ ~faulty /\ isThreat /\ field = <<"a">> => shown # {}
=============================================================================
