------------------------------ MODULE Answers -------------------------------
(***************************************************************************)
(* What the providers make of an attempt to send, and what the send task   *)
(* and the notification handler make of what providers say.  Functions     *)
(* only: SendPipeline and StatusReports have the steps, and take any       *)
(* result there is.                                                        *)
(***************************************************************************)
EXTENDS Integers, Sequences, FiniteSets

\* SendResult, SmsResult; a delay of 0 is no delay given.
Ok == [success |-> TRUE, code |-> "", retryable |-> FALSE, delay |-> 0]
Failure(code, retryable, delay) ==
  [success |-> FALSE, code |-> code, retryable |-> retryable, delay |-> delay]

-----------------------------------------------------------------------------
(* MetaWhatsAppProvider *)

RetryableCodes ==
  {"4", "80007", "130429", "131000", "131016", "131056", "133004", "133016", "2494100"}
NeverRetryCodes == {"131049", "131048"}

\* _success: without an id no notification can be matched.
Success(id) == IF id = "" THEN Failure("no_message_id", TRUE, 0) ELSE Ok

\* _is_retryable: the code decides; without one, the HTTP status.
IsRetryable(code, http) ==
  /\ code \notin NeverRetryCodes
  /\ code \in RetryableCodes \/ (code = "http" /\ http >= 500)

\* _retry_after: the header's number, if it holds one.
HeaderDelay(header) ==
  IF header = {} THEN 0
  ELSE LET seconds == CHOOSE n \in header : TRUE IN IF seconds < 1 THEN 1 ELSE seconds

\* _failure: the code of the body, or the HTTP status.
Refused(answer) ==
  LET code == IF answer.code = "" THEN "http" ELSE answer.code
  IN Failure(code, IsRetryable(code, answer.http), HeaderDelay(answer.header))

\* _post
MetaResult(answer) ==
  CASE answer.met \in {"timeout", "network_error"} -> Failure(answer.met, TRUE, 0)
    [] answer.met = "ok" -> Success(answer.id)
    [] answer.met = "refused" -> Refused(answer)

-----------------------------------------------------------------------------
(* The simulated providers; `fails` says whether one fails at random *)

WhatsAppFailures ==
  {Failure("mock_rate_limited", TRUE, 5), Failure("mock_upstream_error", TRUE, 0),
   Failure("mock_undeliverable", FALSE, 0)}
MockResults(number, fails) ==
  IF number = "invalid" THEN {Failure("mock_invalid_number", FALSE, 0)}
  ELSE IF fails THEN WhatsAppFailures ELSE {Ok}

SmsFailures ==
  {Failure("mock_carrier_rejected", FALSE, 0), Failure("mock_sender_id_unregistered", FALSE, 0),
   Failure("mock_gateway_throttled", TRUE, 5), Failure("mock_gateway_error", TRUE, 0)}
MockSmsResults(number, body, fails) ==
  IF number = "invalid" THEN {Failure("invalid_number", FALSE, 0)}
  ELSE IF body \in {"", "blank"} THEN {Failure("empty_body", FALSE, 0)}
  ELSE IF fails THEN SmsFailures ELSE {Ok}

\* routing._send_sms
SendSms(message, fails) ==
  IF message.body = "" /\ message.type = "template"
  THEN {Failure("template_on_sms", FALSE, 0)}
  ELSE MockSmsResults(message.number, message.body, fails)

-----------------------------------------------------------------------------
(* Segments: a text is the numbers of its characters of each kind *)

\* is_gsm7; an astral character is one code point and two UTF-16 units.
IsGsm7(text) == text.other = 0 /\ text.astral = 0

\* The length of a text, and how much one part and each of several can hold.
Measure(text) ==
  IF IsGsm7(text)
  THEN [length |-> text.basic + 2 * text.extended, single |-> 160, multi |-> 153]
  ELSE [length |-> text.basic + text.extended + text.other + text.astral,
        single |-> 70, multi |-> 67]

\* segment_count
SegmentCount(text) ==
  LET size == Measure(text)
  IN IF size.length = 0 THEN 0
     ELSE IF size.length <= size.single THEN 1
     ELSE (size.length + size.multi - 1) \div size.multi

-----------------------------------------------------------------------------
(* _handle_failure *)

\* _backoff: doubled up to an hour, give or take a fifth.
Backoff(attempt, base) ==
  LET doubled == base * 2 ^ (attempt - 1)
      delay == IF doubled > 3600 THEN 3600 ELSE doubled
      jittered == {(delay * percent) \div 100 : percent \in 80 .. 120}
  IN {IF seconds = 0 THEN 1 ELSE seconds : seconds \in jittered}

Retries(result, attempt, max) == result.retryable /\ attempt <= max

Delays(result, attempt, base) ==
  IF result.delay # 0 THEN {result.delay} ELSE Backoff(attempt, base)

-----------------------------------------------------------------------------
(* MetaWhatsAppProvider.parse_webhook *)

LOCAL INSTANCE SequencesExt

\* STATUS_MAP
Known == {"sent", "delivered", "read", "failed"}

\* A payload is its changes, each with statuses and messages on one number.
ParseWebhook(changes) ==
  [statuses |-> FlattenSeq([i \in DOMAIN changes |->
      SelectSeq(changes[i].statuses, LAMBDA raw : raw.status \in Known)]),
   messages |-> FlattenSeq([i \in DOMAIN changes |->
      [j \in DOMAIN changes[i].messages |->
         [from |-> changes[i].messages[j], to |-> changes[i].number]]])]

-----------------------------------------------------------------------------
(* What the code does not keep (see the README) *)

\* sms/providers/base.py:58: the segments "a gateway will bill for this body".
\* A gateway counts UTF-16 units.
CountsWhatIsBilled(texts) ==
  \A text \in texts :
    SegmentCount(text) =
      SegmentCount([text EXCEPT !.other = @ + 2 * text.astral, !.astral = 0])

=============================================================================
