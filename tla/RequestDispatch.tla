--------------------------- MODULE RequestDispatch --------------------------
(***************************************************************************)
(* From a datagram to its answer: the receive loop of the transaction      *)
(* layer (sip/transaction.rs, sip/message.rs), the table of methods of     *)
(* the extension UAS (sip/uas.rs) and of the NGN side                      *)
(* (NgnInboundHandler::handle_inbound), and the text messages both keep in *)
(* one log (call/message_log.rs), which also has the ones the browser and  *)
(* the HTTP interface send.                                                *)
(*                                                                         *)
(* A datagram is what the parser tells apart in it.  What the consumer of  *)
(* the UAS's events does with them is OutboundCall and MidCall; INVITE,    *)
(* BYE and PRACK of the NGN are InboundCall.                               *)
(***************************************************************************)
EXTENDS Naturals, Sequences, FiniteSets, SequencesExt

CONSTANTS
    HasConsumer,   \* with_handler was called
    LogSize,       \* max_size of the message log
    MaxSms,        \* bound: text messages
    Sender         \* a browser's SendSms, or a POST

ASSUME DispatchAssumption ==
    /\ HasConsumer \in BOOLEAN /\ LogSize \in Nat /\ MaxSms \in Nat

VARIABLES
    inReq,      \* the request in hand, or what became of the datagram
    eventTx,    \* the receiver of the UAS's events: "None", "Open", "Closed"
    smsLog,     \* the numbers of the messages in MessageLog
    smsCount,   \* messages pushed so far
    smsSettled, \* the numbers of the messages whose sender has been answered
    smsOut      \* each sender: what it was told

dispatchVars == <<inReq, eventTx, smsLog, smsCount, smsSettled, smsOut>>

Nobody == [stage |-> "Idle", side |-> "Ext", method |-> "ACK", branch |-> TRUE,
           to |-> "Plain", sms |-> 0, finals |-> <<>>]

DispatchInit ==
    /\ inReq = Nobody
    /\ eventTx = IF HasConsumer THEN "Open" ELSE "None"
    /\ smsLog = <<>> /\ smsCount = 0 /\ smsSettled = {}
    /\ smsOut = [t \in Sender |-> "Idle"]
-----------------------------------------------------------------------------
(* The receive loop                                                        *)

\* ends: the headers do; length: Content-Length, which may be missing (the body is
\* then all that follows), too long for what follows, not a number or repeated;
\* first: the first line; others: From, Call-ID and CSeq are there.
Datagram ==
    [ends : BOOLEAN, length : {"None", "Fits", "TooLong", "NaN", "Twice"},
     first : {"Response", "BadCode", "Request", "OneWord", "NoMethod"},
     via : {"None", "NoBranch", "Good"}, to : {"None", "Plain", "Tagged"}, others : BOOLEAN]

\* parse_message_classified, in the order of its tests.
Classified(d) ==
    CASE ~d.ends -> "NoCrlfCrlf"
      [] d.length = "Twice" -> "DuplicateContentLength"
      [] d.length = "NaN" -> "NonNumericContentLength"
      [] d.length = "TooLong" -> "Truncated"
      [] OTHER -> d.first

\* is_header_recoverable and extract_request_skeleton_for_400: the rest is dropped.
Answers400(d) ==
    /\ Classified(d) \in {"Truncated", "DuplicateContentLength", "NonNumericContentLength"}
    /\ d.first = "Request" /\ d.via # "None" /\ d.to # "None" /\ d.others
Legible == {d \in Datagram : Classified(d) = "Request" \/ Answers400(d)}

\* build_response_skeleton, ensure_to_tag: how many tags the To of a response has.
ToTags(to, status) == IF to = "None" THEN 0 ELSE IF to = "Tagged" \/ status # 100 THEN 1 ELSE 0

Final(q, status) ==
    [q EXCEPT !.stage = "Done", !.finals = Append(@, [status |-> status, tags |-> ToTags(q.to, status)])]

ExtMethods == {"REGISTER", "INVITE", "REINVITE", "BYE", "CANCEL", "ACK", "OPTIONS", "INFO", "NOTIFY",
               "SUBSCRIBE", "PRACK", "PUBLISH", "UPDATE", "MESSAGE", "REFER", "UNKNOWN"}
NgnMethods == ExtMethods \ {"INVITE", "REINVITE", "BYE", "PRACK"}

\* recv_loop: a request goes to its side's handler, with the address it came from
\* as the address of every answer (response_destination_for).
RecvLoop(d, side, m) ==
    /\ m \in (IF side = "Ext" THEN ExtMethods ELSE NgnMethods)
    /\ m = "REINVITE" <=> m \in {"INVITE", "REINVITE"} /\ d.to = "Tagged"
    /\ LET q == [Nobody EXCEPT !.stage = "Queued", !.side = side, !.method = m,
                               !.branch = d.via = "Good", !.to = d.to]
       IN \/ Classified(d) = "Request" /\ inReq' = q
          \/ Answers400(d) /\ inReq' = Final(q, 400)
    /\ UNCHANGED <<eventTx, smsLog, smsCount, smsSettled, smsOut>>

\* The answer is out, or there is none: the next datagram.
RequestOver ==
    /\ inReq.stage = "Done"
    /\ inReq' = Nobody
    /\ UNCHANGED <<eventTx, smsLog, smsCount, smsSettled, smsOut>>
-----------------------------------------------------------------------------
(* The message log                                                         *)

\* Mutant: a full log keeps what it has.
PushIfRoom(n) == IF Len(smsLog) < LogSize THEN Append(smsLog, n) ELSE smsLog

\* MessageLog::push: at the back, and from the front while there are too many.
PushSms(n) ==
    IF LogSize = 0 THEN smsLog
    ELSE LET all == Append(smsLog, n)
         IN IF Len(all) > LogSize THEN Tail(all) ELSE all

LogSms ==
    /\ smsCount < MaxSms
    /\ smsCount' = smsCount + 1
    /\ smsLog' = PushSms(smsCount + 1)
KeepSms == UNCHANGED <<smsLog, smsCount>>
-----------------------------------------------------------------------------
(* ExtensionUas::handle_request                                            *)

\* The methods the UAS answers itself, and what it says where nobody listens to
\* its events.
ExtTable == [OPTIONS |-> 200, PUBLISH |-> 200, MESSAGE |-> 200, CANCEL |-> 200, NOTIFY |-> 481,
             PRACK |-> 481, UPDATE |-> 481, SUBSCRIBE |-> 489, UNKNOWN |-> 405]
NoConsumerTable == [INFO |-> 481, REFER |-> 405, BYE |-> 200, REINVITE |-> 481, INVITE |-> 503]

ExtHandles == inReq.stage = "Queued" /\ inReq.side = "Ext"

\* ServerTransaction::new needs the branch of the top Via; without it the request
\* is dropped.  An ACK has no answer.
ExtDrops ==
    /\ ExtHandles /\ (~inReq.branch \/ inReq.method = "ACK")
    /\ inReq' = [inReq EXCEPT !.stage = "Done"]
    /\ UNCHANGED <<eventTx, smsLog, smsCount, smsSettled, smsOut>>

\* A MESSAGE is logged when it is plain text; a CANCEL is answered before its
\* event is sent.
ExtAnswers ==
    /\ ExtHandles /\ inReq.branch /\ inReq.method \in DOMAIN ExtTable
    /\ \/ /\ inReq.method = "MESSAGE" /\ LogSms
          /\ inReq' = [Final(inReq, 200) EXCEPT !.sms = smsCount + 1]
          /\ smsSettled' = smsSettled \cup {smsCount + 1}
       \/ /\ inReq' = Final(inReq, ExtTable[inReq.method])
          /\ KeepSms /\ UNCHANGED smsSettled
    /\ UNCHANGED <<eventTx, smsOut>>

\* handle_register: 401 without credentials or with wrong ones, 403 for a user
\* that is not configured, 200.
ExtRegister ==
    /\ ExtHandles /\ inReq.branch /\ inReq.method = "REGISTER"
    /\ \E s \in {200, 401, 403} : inReq' = Final(inReq, s)
    /\ UNCHANGED <<eventTx, smsLog, smsCount, smsSettled, smsOut>>

\* Mutant: the answer for a missing consumer is always given.
ForwardsAndAnswers ==
    /\ ExtHandles /\ inReq.branch /\ inReq.method \in DOMAIN NoConsumerTable
    /\ inReq' = [Final(inReq, NoConsumerTable[inReq.method]) EXCEPT
                    !.stage = IF eventTx = "Open" THEN "Event" ELSE "Done"]
    /\ UNCHANGED <<eventTx, smsLog, smsCount, smsSettled, smsOut>>

\* The others become events.  A consumer that has gone is noticed, and the
\* request is dropped.
ExtForwards ==
    /\ ExtHandles /\ inReq.branch /\ inReq.method \in DOMAIN NoConsumerTable
    /\ inReq' = CASE eventTx = "None" -> Final(inReq, NoConsumerTable[inReq.method])
                  [] eventTx = "Open" -> [inReq EXCEPT !.stage = "Event"]
                  [] eventTx = "Closed" -> [inReq EXCEPT !.stage = "Done"]
    /\ UNCHANGED <<eventTx, smsLog, smsCount, smsSettled, smsOut>>

\* handle_invite: 400 without a user in From, 403 for one that is not registered.
ExtRefusesInvite ==
    /\ ExtHandles /\ inReq.branch /\ inReq.method = "INVITE"
    /\ \E s \in {400, 403} : inReq' = Final(inReq, s)
    /\ UNCHANGED <<eventTx, smsLog, smsCount, smsSettled, smsOut>>

\* UasEventHandler answers through the ResponderHandle of the event, once.
EventAnswered ==
    /\ inReq.stage = "Event"
    /\ \E s \in {200, 481} : inReq' = Final(inReq, s)
    /\ UNCHANGED <<eventTx, smsLog, smsCount, smsSettled, smsOut>>

\* The event loop ends with its task.
ConsumerEnds ==
    /\ eventTx = "Open" /\ eventTx' = "Closed"
    /\ UNCHANGED <<inReq, smsLog, smsCount, smsSettled, smsOut>>
-----------------------------------------------------------------------------
(* NgnInboundHandler::handle_inbound                                       *)

NgnTable == [OPTIONS |-> 200, MESSAGE |-> 200, CANCEL |-> 200, NOTIFY |-> 481, UPDATE |-> 481,
             INFO |-> 481, SUBSCRIBE |-> 489, PUBLISH |-> 489, REFER |-> 405, UNKNOWN |-> 405,
             REGISTER |-> 405]

\* Here the message is logged before it is known whether it can be answered.
NgnLogs ==
    /\ inReq.stage = "Queued" /\ inReq.side = "Ngn" /\ inReq.method = "MESSAGE"
    /\ \/ LogSms /\ inReq' = [inReq EXCEPT !.stage = "Logged", !.sms = smsCount + 1]
       \/ inReq' = [inReq EXCEPT !.stage = "Logged"] /\ KeepSms
    /\ UNCHANGED <<eventTx, smsSettled, smsOut>>

NgnAnswers ==
    /\ inReq.side = "Ngn"
    /\ inReq.stage = IF inReq.method = "MESSAGE" THEN "Logged" ELSE "Queued"
    /\ IF inReq.branch /\ inReq.method # "ACK"
       THEN /\ inReq' = Final(inReq, NgnTable[inReq.method])
            /\ smsSettled' = smsSettled \cup ({inReq.sms} \ {0})
       ELSE inReq' = [inReq EXCEPT !.stage = "Done"] /\ UNCHANGED smsSettled
    /\ UNCHANGED <<eventTx, smsLog, smsCount, smsOut>>
-----------------------------------------------------------------------------
(* Sending: ClientMessage::SendSms, POST /api/sms/send, send_sms           *)

\* A bad number, or a text that is too long for the HTTP interface; the browser's
\* is cut.
SmsRefused(t) ==
    /\ smsOut[t] = "Idle"
    /\ smsOut' = [smsOut EXCEPT ![t] = "Failed"]
    /\ UNCHANGED <<inReq, eventTx, smsLog, smsCount, smsSettled>>

SmsLeaves(t) ==
    /\ smsOut[t] = "Idle"
    /\ smsOut' = [smsOut EXCEPT ![t] = "Out"]
    /\ UNCHANGED <<inReq, eventTx, smsLog, smsCount, smsSettled>>

\* The NGN's answer, whatever it is, puts the message into the log.
SmsAnswered(t) ==
    /\ smsOut[t] = "Out"
    /\ \E told \in {"Sent", "Rejected"} : smsOut' = [smsOut EXCEPT ![t] = told]
    /\ LogSms
    /\ smsSettled' = smsSettled \cup {smsCount + 1}
    /\ UNCHANGED <<inReq, eventTx>>

\* No answer in 32 s, or the request cannot be sent: it is not logged.
SmsFails(t) ==
    /\ smsOut[t] = "Out"
    /\ smsOut' = [smsOut EXCEPT ![t] = "Failed"]
    /\ UNCHANGED <<inReq, eventTx, smsLog, smsCount, smsSettled>>
-----------------------------------------------------------------------------
DispatchNext ==
    \/ inReq.stage = "Idle"
       /\ \E d \in Legible, side \in {"Ext", "Ngn"}, m \in ExtMethods : RecvLoop(d, side, m)
    \/ RequestOver
    \/ ExtDrops \/ ExtAnswers \/ ExtRegister \/ ExtForwards \/ ExtRefusesInvite
    \/ EventAnswered \/ ConsumerEnds
    \/ NgnLogs \/ NgnAnswers
    \/ \E t \in Sender : SmsRefused(t) \/ SmsLeaves(t) \/ SmsAnswered(t) \/ SmsFails(t)

DispatchTypeOK ==
    /\ inReq.stage \in {"Idle", "Queued", "Logged", "Event", "Done"}
    /\ inReq.side \in {"Ext", "Ngn"} /\ inReq.method \in ExtMethods
    /\ inReq.to \in {"None", "Plain", "Tagged"} /\ inReq.branch \in BOOLEAN
    /\ eventTx \in {"None", "Open", "Closed"}
    /\ smsLog \in Seq(1..MaxSms) /\ smsCount \in 0..MaxSms /\ smsSettled \subseteq 1..MaxSms
    /\ smsOut \in [Sender -> {"Idle", "Out", "Sent", "Rejected", "Failed"}]

\* Whichever of the three layers answers a request, it is answered once, with one
\* tag in To; unanswered are an ACK, a request nobody can answer for want of a
\* branch, and an event whose consumer has gone.
AnsweredOnce ==
    /\ Len(inReq.finals) <= 1
    /\ \A i \in 1..Len(inReq.finals) : inReq.finals[i].tags = (IF inReq.to = "None" THEN 0 ELSE 1)
    /\ inReq.stage = "Done" /\ inReq.finals = <<>> =>
          inReq.method = "ACK" \/ ~inReq.branch \/ eventTx = "Closed"

\* A message whose sender has been told so is in the log, in the order of the
\* answers, until LogSize newer ones have come.
SmsKept ==
    /\ \A n \in smsSettled : n \in ToSet(smsLog) \/ n + LogSize <= smsCount
    /\ \A i, j \in 1..Len(smsLog) : i < j => smsLog[i] < smsLog[j]
    /\ Len(smsLog) <= LogSize
=============================================================================
