------------------------------ MODULE MCOffice -------------------------------
EXTENDS Office, Answers

CONSTANTS u1, u2

Order == <<u1, u2>>

Numbers == <<"a1", "a2">>

\* One placeholder, two in another order, and one in the header.
Versions ==
  {[header |-> <<>>, body |-> <<"x">>],
   [header |-> <<>>, body |-> <<"y", "x">>],
   [header |-> <<"x">>, body |-> <<"y">>]}

-----------------------------------------------------------------------------
(* Answers, over bounded inputs *)

Headers == {{}, {-1}, {0}, {7}, {9000}}
Codes == RetryableCodes \cup NeverRetryCodes \cup {"", "131026"}

MetaAnswers ==
  {[met |-> met] : met \in {"timeout", "network_error"}}
  \cup {[met |-> "ok", id |-> id] : id \in {"", "wamid"}}
  \cup [met : {"refused"}, code : Codes, http : {400, 404, 429, 499, 500, 503}, header : Headers]

Messages ==
  [number : {"valid", "invalid"}, type : {"template", "text"}, body : {"", "blank", "words"}]

Results ==
  {MetaResult(answer) : answer \in MetaAnswers}
  \cup UNION {MockResults(n, fails) : n \in {"valid", "invalid"}, fails \in BOOLEAN}
  \cup UNION {SendSms(message, fails) : message \in Messages, fails \in BOOLEAN}

\* The send task can act on every answer: it is a success, or a failure with a
\* code that is retried or not, never after a success or for a code Meta asks
\* not to be pushed against; a retry waits as long as the provider says, else
\* between a second and 72 minutes, and there are no more than allowed.
ASSUME EveryAnswerIsDecided ==
  \A result \in Results :
    /\ result.success <=> result.code = ""
    /\ result.success => ~result.retryable
    /\ result.code \in NeverRetryCodes => ~result.retryable
    /\ \A max \in 0 .. 3, base \in {0, 1, 10} :
         \A attempt \in 1 .. max + 2 :
           Retries(result, attempt, max) =>
             /\ attempt <= max
             /\ IF result.delay = 0
                THEN Delays(result, attempt, base) \subseteq 1 .. 4320
                ELSE Delays(result, attempt, base) = {result.delay} /\ result.delay > 0

\* A server that is in trouble is asked again, with or without a code of Meta's,
\* and one that says the request is wrong is not.
ASSUME StatusDecidesWithoutCode ==
  \A answer \in MetaAnswers :
    answer.met = "refused" /\ answer.code = "" =>
      (MetaResult(answer).retryable <=> answer.http >= 500)

SmsTexts ==
  [basic : {0, 1, 65, 66, 67, 69, 70, 71, 132, 133, 134, 152, 153, 154, 159, 160, 161, 306, 307},
   extended : 0 .. 2, other : 0 .. 1, astral : 0 .. 1]

\* A text is cut into as few parts as can hold it, of 140 octets each, 6 of them
\* taken by a header if there are several; a longer one is never cut into fewer.
ASSUME SegmentsAreFewest ==
  \A text \in SmsTexts :
    LET bits == IF IsGsm7(text) THEN 7 ELSE 16
        room(parts) == ((IF parts <= 1 THEN 1120 ELSE 1120 - 48) \div bits) * parts
        holds(parts) == Measure(text).length <= room(parts)
    IN /\ holds(SegmentCount(text))
       /\ \A parts \in 0 .. SegmentCount(text) - 1 : ~holds(parts)
       /\ SegmentCount(text) <= SegmentCount([text EXCEPT !.basic = @ + 1])
       /\ IsGsm7(text) => SegmentCount(text) <= SegmentCount([text EXCEPT !.other = 1])

Raw == [status : {"sent", "failed", "played"}, id : {"x", "y"}]
Changes ==
  [statuses : {<<>>} \cup {<<r>> : r \in Raw} \cup {<<r, s>> : r \in Raw, s \in Raw},
   messages : {<<>>, <<"p">>, <<"p", "q">>}, number : {"n1", "n2"}]

\* Nothing of a notification is lost but statuses nobody knows, and a message
\* keeps the number it came in on.
ASSUME EveryEntryIsParsed ==
  \A first \in Changes, second \in {c \in Changes : Len(c.statuses) < 2} :
    LET parsed == ParseWebhook(<<first, second>>)
        known(c) == Cardinality({i \in DOMAIN c.statuses : c.statuses[i].status # "played"})
    IN /\ Len(parsed.statuses) = known(first) + known(second)
       /\ Len(parsed.messages) = Len(first.messages) + Len(second.messages)
       /\ \A i \in DOMAIN parsed.messages :
            parsed.messages[i].to =
              (IF i <= Len(first.messages) THEN first.number ELSE second.number)

\* Refuted at once: an emoji is counted as one unit.
BilledSegments == CountsWhatIsBilled(SmsTexts)
=============================================================================
