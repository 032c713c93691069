---------------------------- MODULE PushService -----------------------------
(***************************************************************************)
(* Who may open a WebSocket session (webrtc/auth.rs), the push             *)
(* subscriptions sessions leave behind, and the notifications of incoming  *)
(* calls sent to them (webrtc/push.rs, call/orchestrator.rs).  The push    *)
(* service and the browser's subscription with it are external: an         *)
(* endpoint that is gone stays gone, the browser then gets another one.    *)
(* A token's signature is right or not; a message's keys are its endpoint. *)
(***************************************************************************)
EXTENDS Naturals, Sequences, SequencesExt, FiniteSets

CONSTANTS
    PushAor,      \* ext_id of a token, AOR of a call
    Browser,
    MaxEndpoints, \* bound: endpoints a browser has had
    TokenLife,    \* expiry of the tokens in use
    MaxRings      \* bound: incoming calls

ASSUME PushAssumption == IsFiniteSet(PushAor) /\ {MaxEndpoints, TokenLife, MaxRings} \subseteq Nat

VARIABLES
    now,      \* seconds
    session,    \* per browser: the claims of its session, or NoClaims
    opened,     \* per browser: the token its session was opened with, and when
    endpoint,   \* per browser: its endpoints so far; the last may be alive
    goneEnds,   \* endpoints the push service no longer knows
    confirmed,  \* ServerMessage::PushSubscribed: AOR and endpoint
    pushStore,  \* PushSubscriptionStore: per AOR, in order
    ring        \* per call: the task that notifies

pushVars == <<now, session, opened, endpoint, goneEnds, confirmed, pushStore, ring>>

NoClaims == ""
Rings == 1..MaxRings

Token == [parts : {2, 3}, ext : PushAor \cup {""}, expiry : {0, TokenLife}, signed : BOOLEAN]
NoToken == [parts |-> 0, ext |-> "", expiry |-> 0, signed |-> FALSE]

PushInit ==
    /\ now = 0
    /\ session = [b \in Browser |-> NoClaims] /\ opened = [b \in Browser |-> [token |-> NoToken, at |-> 0]]
    /\ endpoint = [b \in Browser |-> 0] /\ goneEnds = {}
    /\ confirmed = {}
    /\ pushStore = [a \in PushAor |-> <<>>]
    /\ ring = [r \in Rings |-> [stage |-> "None", aors |-> <<>>, subs |-> <<>>, result |-> "None",
                               listed |-> {}, tried |-> {}]]
-----------------------------------------------------------------------------
(* Opening a session                                                       *)

\* Mutant: a token is good for ever.
VerifiesForever(t, n) == t.parts = 3 /\ t.ext # "" /\ t.signed

\* Verifier::verify, in this order: form, expiry, signature.
Verifies(t, n) == t.parts = 3 /\ t.ext # "" /\ n < t.expiry /\ t.signed

\* signal_ws_handler, for the token extract_token found: in the Bearer header, or
\* else in the query.
Connect(b, t) ==
    /\ session[b] = NoClaims /\ Verifies(t, now)
    /\ session' = [session EXCEPT ![b] = t.ext]
    /\ opened' = [opened EXCEPT ![b] = [token |-> t, at |-> now]]
    /\ UNCHANGED <<now, endpoint, goneEnds, confirmed, pushStore, ring>>

\* The session ends; its subscription stays.
Disconnect(b) ==
    /\ session[b] # NoClaims
    /\ session' = [session EXCEPT ![b] = NoClaims]
    /\ opened' = [opened EXCEPT ![b] = [token |-> NoToken, at |-> 0]]
    /\ UNCHANGED <<now, endpoint, goneEnds, confirmed, pushStore, ring>>

Tick ==
    /\ now < TokenLife
    /\ now' = now + 1
    /\ UNCHANGED <<session, opened, endpoint, goneEnds, confirmed, pushStore, ring>>
-----------------------------------------------------------------------------
(* Subscriptions                                                           *)

End(b) == <<b, endpoint[b]>>
Alive(b) == endpoint[b] # 0 /\ End(b) \notin goneEnds

\* PushManager.subscribe: the endpoint the browser has, or a new one.
GetEndpoint(b) ==
    /\ ~Alive(b) /\ endpoint[b] < MaxEndpoints
    /\ endpoint' = [endpoint EXCEPT ![b] = @ + 1]
    /\ UNCHANGED <<now, session, opened, goneEnds, confirmed, pushStore, ring>>

EndpointGone(b) ==
    /\ Alive(b)
    /\ goneEnds' = goneEnds \cup {End(b)}
    /\ UNCHANGED <<now, session, opened, endpoint, confirmed, pushStore, ring>>

\* retain: an endpoint is in the list once at most.
Without(subs, e) == RemoveFirst(subs, e)

\* Mutant: a subscription that is renewed is stored again.
AppendsAgain(a, e) == [pushStore EXCEPT ![a] = Append(@, e)]

\* upsert: the endpoint's entry is replaced.
Upsert(a, e) == [pushStore EXCEPT ![a] = Append(Without(@, e), e)]

\* ClientMessage::PushSubscribe: under the name of the session's token, if the
\* subscription is well formed (validate).
PushSubscribe(b, valid) ==
    /\ session[b] # NoClaims /\ Alive(b)
    /\ pushStore' = IF valid THEN Upsert(session[b], End(b)) ELSE pushStore
    /\ confirmed' = IF valid THEN confirmed \cup {<<session[b], End(b)>>} ELSE confirmed
    /\ UNCHANGED <<now, session, opened, endpoint, goneEnds, ring>>
-----------------------------------------------------------------------------
(* Notifications                                                           *)

\* handle_invite: a task of its own goes through the extensions that are rung.
CallRings(r, aors) ==
    /\ ring[r].stage = "None" /\ \A q \in Rings : q < r => ring[q].stage # "None"
    /\ ring' = [ring EXCEPT ![r].stage = "Next", ![r].aors = aors]
    /\ UNCHANGED <<now, session, opened, endpoint, goneEnds, confirmed, pushStore>>

\* notify_incoming_call: the subscriptions of the next extension, as they are now.
ListSubscriptions(r) ==
    /\ ring[r].stage = "Next" /\ ring[r].subs = <<>>
    /\ IF ring[r].aors = <<>> THEN ring' = [ring EXCEPT ![r].stage = "Done"]
       ELSE LET a == Head(ring[r].aors)
            IN ring' = [ring EXCEPT ![r].subs = [i \in DOMAIN pushStore[a] |-> <<a, pushStore[a][i]>>],
                                    ![r].listed = @ \cup {<<a, i, pushStore[a][i]>> : i \in DOMAIN pushStore[a]},
                                    ![r].aors = Tail(@)]
    /\ UNCHANGED <<now, session, opened, endpoint, goneEnds, confirmed, pushStore>>

\* send_incoming_call and PushSendError::from: gone (404, 410), rejected (400, 413, or
\* nothing could be built), or something that may pass.
SendPush(r, result) ==
    LET s == Head(ring[r].subs)
    IN /\ ring[r].stage = "Next" /\ ring[r].subs # <<>>
       /\ (result = "Gone") = (s[2] \in goneEnds)
       /\ ring' = [ring EXCEPT ![r].stage = "Sent", ![r].result = result, ![r].tried = @ \cup {s}]
       /\ UNCHANGED <<now, session, opened, endpoint, goneEnds, confirmed, pushStore>>

\* Mutant: what the service rejects is taken out as well.
RemovesRejected(s, result) ==
    IF result \in {"Gone", "Rejected"} THEN [pushStore EXCEPT ![s[1]] = Without(@, s[2])] ELSE pushStore

\* remove, for a subscription that is gone and for no other.
RemoveIfGone(s, result) ==
    IF result = "Gone" THEN [pushStore EXCEPT ![s[1]] = Without(@, s[2])] ELSE pushStore

\* Mutant: the first failure ends the round.
StopsAtFailure(r) ==
    /\ ring[r].stage = "Sent"
    /\ pushStore' = RemoveIfGone(Head(ring[r].subs), ring[r].result)
    /\ ring' = [ring EXCEPT ![r].stage = "Next", ![r].result = "None",
                            ![r].subs = IF ring[r].result = "Ok" THEN Tail(@) ELSE <<>>]
    /\ UNCHANGED <<now, session, opened, endpoint, goneEnds, confirmed>>

\* The result of a send, whatever it is, does not end the round.
PushSent(r) ==
    /\ ring[r].stage = "Sent"
    /\ pushStore' = RemoveIfGone(Head(ring[r].subs), ring[r].result)
    /\ ring' = [ring EXCEPT ![r].stage = "Next", ![r].result = "None", ![r].subs = Tail(@)]
    /\ UNCHANGED <<now, session, opened, endpoint, goneEnds, confirmed>>

PushNext ==
    \/ \E b \in Browser, t \in Token : Connect(b, t)
    \/ \E b \in Browser : Disconnect(b) \/ GetEndpoint(b) \/ EndpointGone(b)
    \/ Tick
    \/ \E b \in Browser, v \in BOOLEAN : PushSubscribe(b, v)
    \/ \E r \in Rings, aors \in SetToSeqs(PushAor) \cup {<<a>> : a \in PushAor} : CallRings(r, aors)
    \/ \E r \in Rings : ListSubscriptions(r) \/ PushSent(r)
    \/ \E r \in Rings, result \in {"Ok", "Gone", "Rejected", "Transient"} : SendPush(r, result)
-----------------------------------------------------------------------------
PushTypeOK ==
    /\ now \in 0..TokenLife
    /\ session \in [Browser -> PushAor \cup {NoClaims}]
    /\ endpoint \in [Browser -> 0..MaxEndpoints]
    /\ \A r \in Rings : ring[r].stage \in {"None", "Next", "Sent", "Done"}

\* A session speaks for the extension its token was signed for, and was opened
\* before the token expired.
SessionIsGenuine ==
    \A b \in Browser : session[b] # NoClaims =>
        /\ opened[b].token.signed /\ opened[b].token.ext = session[b]
        /\ opened[b].at < opened[b].token.expiry

\* A subscription that was confirmed and whose endpoint still exists is kept, once,
\* under the name it was made for: rejections, losses, other browsers going away and
\* notifications under way at the time take nothing from it.
SubscriptionKept ==
    \A c \in confirmed : c[2] \notin goneEnds =>
        Cardinality({i \in DOMAIN pushStore[c[1]] : pushStore[c[1]][i] = c[2]}) = 1

\* A round of notifications reaches every subscription it saw, whatever became of
\* the others, and none of them twice.
EveryoneNotified ==
    \A r \in Rings :
        /\ ring[r].stage = "Done" => \A l \in ring[r].listed : <<l[1], l[3]>> \in ring[r].tried
        /\ \A l, m \in ring[r].listed : l[1] = m[1] /\ l[3] = m[3] => l = m
=============================================================================
