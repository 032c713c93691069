----------------------------- MODULE MCProtocols ------------------------------
(***************************************************************************)
(* Finite instances of the media path, of the formats and of the tables    *)
(* the services rest on; they share no state with one another.  A          *)
(* behaviour is a behaviour of one of them, the one in focus.              *)
(***************************************************************************)
EXTENDS RateLimiter, Transcoder, MediaBridge, RequestDispatch, SdpExchange,
        DialogRequests, RtpSession, PeerConnection, PushService, CallRouting,
        Startup, AudioCodec, SipTrace, CallLog, ReliableRinging, Dtmf

VARIABLE focus

vars == <<focus, limiterVars, tcVars, mediaVars, dispatchVars, sdpVars, dlgVars,
        rtpVars, pcVars, pushVars, routingVars, startVars, codecVars, traceVars,
        logVars, relVars2, dtmfVars>>

Init ==
    /\ focus \in {"Limiter", "Media", "Bridge", "Dispatch", "Sdp", "Requests",
                  "Rtp", "Peer", "Push", "Routing", "Start", "Codec", "Trace",
                  "Log", "Ringing", "Keys"}
    /\ LimiterInit
    /\ TranscoderInit
    /\ MediaInit
    /\ DispatchInit
    /\ SdpInit
    /\ RequestsInit
    /\ RtpInit
    /\ PeerInit
    /\ PushInit
    /\ RoutingInit
    /\ StartInit
    /\ CodecInit
    /\ TraceInit
    /\ LogInit
    /\ RelInit
    /\ DtmfInit

LimiterStep(A) ==
    /\ focus = "Limiter" /\ A
    /\ UNCHANGED <<focus, tcVars, mediaVars, dispatchVars, sdpVars, dlgVars,
                   rtpVars, pcVars, pushVars, routingVars, startVars, codecVars,
                   traceVars, logVars, relVars2, dtmfVars>>
MediaStep(A) ==
    /\ focus = "Media" /\ A
    /\ UNCHANGED <<focus, limiterVars, mediaVars, dispatchVars, sdpVars,
                   dlgVars, rtpVars, pcVars, pushVars, routingVars, startVars, codecVars,
                   traceVars, logVars, relVars2, dtmfVars>>
BridgeStep(A) ==
    /\ focus = "Bridge" /\ A
    /\ UNCHANGED <<focus, limiterVars, tcVars, dispatchVars, sdpVars,
                   dlgVars, rtpVars, pcVars, pushVars, routingVars, startVars, codecVars,
                   traceVars, logVars, relVars2, dtmfVars>>
DispatchStep(A) ==
    /\ focus = "Dispatch" /\ A
    /\ UNCHANGED <<focus, limiterVars, tcVars, mediaVars, sdpVars, dlgVars,
                   rtpVars, pcVars, pushVars, routingVars, startVars, codecVars,
                   traceVars, logVars, relVars2, dtmfVars>>
SdpStep(A) ==
    /\ focus = "Sdp" /\ A
    /\ UNCHANGED <<focus, limiterVars, tcVars, mediaVars, dispatchVars,
                   dlgVars, rtpVars, pcVars, pushVars, routingVars, startVars, codecVars,
                   traceVars, logVars, relVars2, dtmfVars>>
RequestsStep(A) ==
    /\ focus = "Requests" /\ A
    /\ UNCHANGED <<focus, limiterVars, tcVars, mediaVars, dispatchVars,
                   sdpVars, rtpVars, pcVars, pushVars, routingVars, startVars, codecVars,
                   traceVars, logVars, relVars2, dtmfVars>>
RtpStep(A) ==
    /\ focus = "Rtp" /\ A
    /\ UNCHANGED <<focus, limiterVars, tcVars, mediaVars, dispatchVars,
                   sdpVars, dlgVars, pcVars, pushVars, routingVars, startVars, codecVars,
                   traceVars, logVars, relVars2, dtmfVars>>
PeerStep(A) ==
    /\ focus = "Peer" /\ A
    /\ UNCHANGED <<focus, limiterVars, tcVars, mediaVars, dispatchVars,
                   sdpVars, dlgVars, rtpVars, pushVars, routingVars, startVars,
                   codecVars, traceVars, logVars, relVars2, dtmfVars>>
PushStep(A) ==
    /\ focus = "Push" /\ A
    /\ UNCHANGED <<focus, limiterVars, tcVars, mediaVars, dispatchVars,
                   sdpVars, dlgVars, rtpVars, pcVars, routingVars, startVars, codecVars,
                   traceVars, logVars, relVars2, dtmfVars>>
RoutingStep(A) ==
    /\ focus = "Routing" /\ A
    /\ UNCHANGED <<focus, limiterVars, tcVars, mediaVars, dispatchVars,
                   sdpVars, dlgVars, rtpVars, pcVars, pushVars, startVars, codecVars,
                   traceVars, logVars, relVars2, dtmfVars>>
StartStep(A) ==
    /\ focus = "Start" /\ A
    /\ UNCHANGED <<focus, limiterVars, tcVars, mediaVars, dispatchVars,
                   sdpVars, dlgVars, rtpVars, pcVars, pushVars, routingVars, codecVars,
                   traceVars, logVars, relVars2, dtmfVars>>
CodecStep(A) ==
    /\ focus = "Codec" /\ A
    /\ UNCHANGED <<focus, limiterVars, tcVars, mediaVars, dispatchVars,
                   sdpVars, dlgVars, rtpVars, pcVars, pushVars, routingVars, startVars,
                   traceVars, logVars, relVars2, dtmfVars>>
TraceStep(A) ==
    /\ focus = "Trace" /\ A
    /\ UNCHANGED <<focus, limiterVars, tcVars, mediaVars, dispatchVars,
                   sdpVars, dlgVars, rtpVars, pcVars, pushVars, routingVars, startVars,
                   codecVars, logVars, relVars2, dtmfVars>>
LogStep(A) ==
    /\ focus = "Log" /\ A
    /\ UNCHANGED <<focus, limiterVars, tcVars, mediaVars, dispatchVars,
                   sdpVars, dlgVars, rtpVars, pcVars, pushVars, routingVars, startVars,
                   codecVars, traceVars, relVars2, dtmfVars>>
RingingStep(A) ==
    /\ focus = "Ringing" /\ A
    /\ UNCHANGED <<focus, limiterVars, tcVars, mediaVars, dispatchVars,
                   sdpVars, dlgVars, rtpVars, pcVars, pushVars, routingVars, startVars,
                   codecVars, traceVars, logVars, dtmfVars>>
KeysStep(A) ==
    /\ focus = "Keys" /\ A
    /\ UNCHANGED <<focus, limiterVars, tcVars, mediaVars, dispatchVars,
                   sdpVars, dlgVars, rtpVars, pcVars, pushVars, routingVars, startVars,
                   codecVars, traceVars, logVars, relVars2>>

Next ==
    \/ LimiterStep(LimiterNext)
    \/ MediaStep(TranscoderNext)
    \/ BridgeStep(MediaNext)
    \/ DispatchStep(DispatchNext)
    \/ SdpStep(SdpNext)
    \/ RequestsStep(RequestsNext)
    \/ RtpStep(RtpNext)
    \/ PeerStep(PeerNext)
    \/ PushStep(PushNext)
    \/ RoutingStep(RoutingNext)
    \/ StartStep(StartNext)
    \/ CodecStep(CodecNext)
    \/ TraceStep(TraceNext)
    \/ LogStep(LogNext)
    \/ RingingStep(RelNext)
    \/ KeysStep(DtmfNext)

Spec == Init /\ [][Next]_vars

BackoffSteps == <<2, 3>>
DialAlias == [x \in {"101"} |-> "alice"]

TypeOK ==
    /\ LimiterTypeOK
    /\ TranscoderTypeOK
    /\ MediaTypeOK
    /\ DispatchTypeOK
    /\ SdpTypeOK
    /\ RequestsTypeOK
    /\ RtpTypeOK
    /\ PeerTypeOK
    /\ PushTypeOK
    /\ RoutingTypeOK
    /\ StartTypeOK
    /\ CodecTypeOK
    /\ TraceTypeOK
    /\ LogTypeOK
    /\ RelTypeOK
    /\ DtmfTypeOK

\* What the NGN and the browser hear and learn of a stream is what happened to it:
\* its order, its losses and its numbers (JitterBuffer, Transcoder), the reports
\* about it (RtpSession), the samples and frames (AudioCodec), the line a browser's
\* sound is written to (PeerConnection), and the keys pressed meanwhile (Dtmf).
StreamFaithful ==
    /\ EgressFaithful /\ ReportsTrue
    /\ UlawFaithful /\ StagesFit
    /\ AudioHasALine /\ KeysHeard

\* What goes over the wire in answer to a peer is what the peer can use: every
\* request is answered once, a message that was taken is kept (RequestDispatch), a
\* reliable 180 is repeated until its PRACK and no longer (ReliableRinging);
\* the descriptions of the media are ones the NGN and the browser take and the
\* bridge serves (SdpExchange, PeerConnection); requests reach their peer and are
\* taken there, responses lead back (DialogRequests); a call goes to those it is
\* for (CallRouting), and to the browsers whose subscriptions they are (PushService).
SignallingSound ==
    /\ AnsweredOnce /\ SmsKept /\ RingingStops
    /\ NgnSdpSound /\ HoldKeepsMedia /\ PlanFits
    /\ CallersServed /\ StubAnswersFit
    /\ RequestsAccepted /\ ViaLeadsBack
    /\ RoutedAsWritten /\ StaysInTheHouse
    /\ SessionIsGenuine /\ SubscriptionKept /\ EveryoneNotified

\* What runs is what the operator configured and reads about: a feature is there at
\* every entry point or at none when the number is registered (Startup), the trace
\* stays within its limits and without credentials (SipTrace), and the log is the
\* last calls (CallLog).
OperatorInformed ==
    FeatureEverywhere /\ FirstStartMissesNothing /\ TraceContained /\ LogIsRecent
=============================================================================
