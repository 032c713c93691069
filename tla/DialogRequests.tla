--------------------------- MODULE DialogRequests ---------------------------
(***************************************************************************)
(* What a request says and where it goes: the INVITE the gateway builds    *)
(* (sip/uac.rs), its repetition with credentials (sip/auth.rs), the two    *)
(* kinds of ACK, the requests inside a dialog with their route set         *)
(* (sip/dialog.rs), and the Via of a response (sip/transaction.rs).        *)
(*                                                                         *)
(* The other end is a reference: proxies that route as RFC 3261 section 16 *)
(* says, loose or strict, and a user agent that takes a request only if it *)
(* belongs to a transaction or a dialog it knows and comes in order.  A    *)
(* digest is the tuple of what is hashed.                                  *)
(***************************************************************************)
EXTENDS Naturals, Sequences, SequencesExt

CONSTANT MaxRequests   \* bound: requests in a dialog

ASSUME RequestsAssumption == MaxRequests \in Nat

VARIABLES
    dlgCall,   \* the call: stage, role, credentials, requests sent
    dlg,       \* Dialog
    invitePlan,\* InvitePlan: branch, CSeq and credentials of the last INVITE
    wire,      \* the request under way, or the last one
    farEnd,    \* what the reference user agent knows, and its verdict
    arrived    \* a request that came in: its Via and where it came from

dlgVars == <<dlgCall, dlg, invitePlan, wire, farEnd, arrived>>

\* A URI: lr, and ip where the host is an address with a port.  The target is the
\* peer's Contact.
Hop(name, lr, ip) == [name |-> name, lr |-> lr, ip |-> ip]
Server == Hop("pcscf", TRUE, TRUE)       \* server_addr
Target == Hop("contact", FALSE, TRUE)
\* A strict router is one the fallback can stand in for only by skipping it, so it
\* has an address here.
Hops(name) == {Hop(name, TRUE, TRUE), Hop(name, TRUE, FALSE), Hop(name, FALSE, TRUE)}

\* The proxies a dialog's requests pass, seen from the gateway.
Paths == {<<>>} \cup {<<h>> : h \in Hops("edge")} \cup {<<h, k>> : h \in Hops("edge"), k \in Hops("core")}

\* Record-Route, as header lines with one or several values each.
Lines(rr) == {<<rr>>} \cup {[i \in DOMAIN rr |-> <<rr[i]>>]}

NoRequest == [method |-> "None", branch |-> 0, cseq |-> 0, uri |-> Target, route |-> <<>>,
              at |-> Target, seen |-> <<>>, from |-> "", to |-> "", auth |-> <<>>]
NoDialog == [local |-> "", remote |-> "", target |-> Target, routes |-> <<>>, cseq |-> 0]

RequestsInit ==
    /\ dlgCall = [stage |-> "Idle", role |-> "Uac", creds |-> "None", path |-> <<>>, sent |-> 0]
    /\ dlg = NoDialog
    /\ invitePlan = [branch |-> 0, cseq |-> 0, auth |-> <<>>]
    /\ wire = NoRequest
    /\ farEnd = [branch |-> 0, cseq |-> 0, invite |-> 0, tag |-> "", from |-> "", verdict |-> "Fine"]
    /\ arrived = [host |-> "src", rport |-> "None", received |-> "None"]
-----------------------------------------------------------------------------
(* Digest (sip/auth.rs)                                                    *)

\* DigestChallenge: qop as the server wrote it; only "auth" itself is taken up.
Qops == {"none", "auth", "auth,auth-int"}

\* Mutant: the hash has nc and cnonce, the header does not say so.
ComputeUnsaid(creds, qop, uri) ==
    [qop |-> "none",
     hash |-> IF qop # "none" THEN <<creds, "nonce", "nc", "cnonce", uri>> ELSE <<creds, "nonce", uri>>]

\* DigestCredentials::compute.
Compute(creds, qop, uri) ==
    IF qop = "auth" THEN [qop |-> "auth", hash |-> <<creds, "nonce", "nc", "cnonce", uri>>]
    ELSE [qop |-> "none", hash |-> <<creds, "nonce", uri>>]

\* DigestAuthorization::verify, from what the header says.
Verify(auth, uri) ==
    auth.hash = IF auth.qop = "auth" THEN <<"Right", "nonce", "nc", "cnonce", uri>>
                ELSE <<"Right", "nonce", uri>>
-----------------------------------------------------------------------------
(* The Dialog                                                              *)

\* get_all and split_route_header.
Values(lines) == FlattenSeq(lines)

\* Mutant: the route set of a UAC is not turned round.
UacRouteAsIs(lines) == Values(lines)

\* from_uac_response.
UacRoute(lines) == Reverse(Values(lines))
\* from_uas_invite.
UasRoute(lines) == Values(lines)

\* Mutant: a strict first router, and the target is left out.
StrictForgetsTarget(d) ==
    IF d.routes = <<>> \/ Head(d.routes).lr THEN [uri |-> d.target, route |-> d.routes]
    ELSE [uri |-> Head(d.routes), route |-> Tail(d.routes)]

\* compute_request_uri_and_route.
UriAndRoute(d) ==
    IF d.routes = <<>> \/ Head(d.routes).lr THEN [uri |-> d.target, route |-> d.routes]
    ELSE [uri |-> Head(d.routes), route |-> Append(Tail(d.routes), d.target)]

\* next_hop_uri and next_hop_socket: a name that is no address goes to the fallback.
NextHop(d) ==
    LET first == IF d.routes = <<>> THEN d.target ELSE Head(d.routes)
    IN IF first.ip THEN first ELSE Server

\* fill_common_headers, around a method, its number and a branch.
InDialogRequest(d, m, n, b) ==
    [method |-> m, branch |-> b, cseq |-> n, uri |-> UriAndRoute(d).uri, route |-> UriAndRoute(d).route,
     at |-> NextHop(d), seen |-> <<>>, from |-> d.local, to |-> d.remote, auth |-> <<>>]
-----------------------------------------------------------------------------
(* Setting up                                                              *)

\* normalize_request_uri_for_ngn: whatever was dialled, the request URI is at the
\* P-CSCF; build_invite.
InviteOn(p) == [NoRequest EXCEPT !.method = "INVITE", !.branch = p.branch, !.cseq = p.cseq,
                                 !.from = "ours", !.at = Server, !.uri = Server, !.auth = p.auth]

BuildInvite(creds) ==
    LET p == [branch |-> 1, cseq |-> 1, auth |-> <<>>]
    IN /\ dlgCall.stage = "Idle"
       /\ dlgCall' = [dlgCall EXCEPT !.stage = "Inviting", !.creds = creds]
       /\ invitePlan' = p /\ wire' = InviteOn(p)
       /\ farEnd' = [farEnd EXCEPT !.branch = 1, !.invite = 1, !.from = "ours"]
       /\ UNCHANGED <<dlg, arrived>>

\* Mutant: the ACK has a branch of its own.
AckOwnBranch(tag) ==
    [InviteOn(invitePlan) EXCEPT !.method = "ACK", !.to = tag, !.auth = <<>>, !.branch = @ + 10]

\* build_non2xx_ack: everything of the INVITE, and the To of the response.
Non2xxAck(tag) == [InviteOn(invitePlan) EXCEPT !.method = "ACK", !.to = tag, !.auth = <<>>]

\* A final response that is no success.  A challenge is answered once, if it can be
\* read and there are credentials.
NgnRefuses(challenge, readable) ==
    /\ dlgCall.stage \in {"Inviting", "Reinviting"}
    /\ challenge /\ dlgCall.stage = "Reinviting" => ~Verify(invitePlan.auth, Server)
    /\ wire' = Non2xxAck("refused")
    /\ farEnd' = [farEnd EXCEPT !.tag = "refused"]
    /\ dlgCall' = [dlgCall EXCEPT !.stage =
           IF challenge /\ readable /\ dlgCall.creds # "None" /\ @ = "Inviting" THEN "Challenged" ELSE "Failed"]
    /\ UNCHANGED <<dlg, invitePlan, arrived>>

\* retry_invite_with_auth: the same Call-ID and From, a new branch, the next CSeq.
RetryWithAuth(qop) ==
    LET p == [branch |-> invitePlan.branch + 1, cseq |-> invitePlan.cseq + 1,
              auth |-> Compute(dlgCall.creds, qop, Server)]
    IN /\ dlgCall.stage = "Challenged" /\ wire.method = "None"
       /\ dlgCall' = [dlgCall EXCEPT !.stage = "Reinviting"]
       /\ invitePlan' = p /\ wire' = InviteOn(p)
       /\ farEnd' = [farEnd EXCEPT !.branch = p.branch, !.invite = p.cseq, !.tag = "",
                                   !.verdict = IF dlgCall.creds = "Right" /\ ~Verify(p.auth, Server)
                                               THEN "Unauthorized" ELSE @]
       /\ UNCHANGED <<dlg, arrived>>

\* finalize_2xx and from_uac_response: without a tag or a Contact there is no dialog,
\* and no ACK either.
NgnAccepts(path, lines, whole) ==
    LET d == [local |-> "ours", remote |-> "theirs", target |-> Target, routes |-> UacRoute(lines),
              cseq |-> invitePlan.cseq + 1]
    IN /\ dlgCall.stage \in {"Inviting", "Reinviting"}
       /\ dlgCall.stage = "Reinviting" => Verify(invitePlan.auth, Server)
       /\ IF whole
          THEN /\ dlg' = d
               /\ wire' = InDialogRequest(d, "ACK", invitePlan.cseq, invitePlan.branch + 1)
               /\ dlgCall' = [dlgCall EXCEPT !.stage = "Up", !.path = path]
          ELSE /\ dlgCall' = [dlgCall EXCEPT !.stage = "Failed"]
               /\ UNCHANGED <<dlg, wire>>
       /\ farEnd' = [farEnd EXCEPT !.tag = "theirs", !.cseq = invitePlan.cseq]
       /\ UNCHANGED <<invitePlan, arrived>>

\* from_uas_invite, for an extension's INVITE and the 200 it got.
ExtInvites(path, lines) ==
    /\ dlgCall.stage = "Idle"
    /\ dlgCall' = [dlgCall EXCEPT !.stage = "Up", !.role = "Uas", !.path = path]
    /\ dlg' = [local |-> "ours", remote |-> "theirs", target |-> Target, routes |-> UasRoute(lines), cseq |-> 1]
    /\ farEnd' = [farEnd EXCEPT !.tag = "theirs", !.from = "ours"]
    /\ UNCHANGED <<invitePlan, wire, arrived>>
-----------------------------------------------------------------------------
(* Inside the dialog                                                       *)

\* Mutant: the number is read and not counted on.
SendsSameNumber(m) ==
    /\ dlgCall.stage = "Up" /\ wire.method = "None" /\ dlgCall.sent < MaxRequests
    /\ wire' = InDialogRequest(dlg, m, dlg.cseq, 20 + dlgCall.sent)
    /\ dlgCall' = [dlgCall EXCEPT !.sent = @ + 1, !.stage = IF m = "BYE" THEN "Down" ELSE @]
    /\ UNCHANGED <<dlg, invitePlan, farEnd, arrived>>

\* build_bye, build_reinvite and build_notify_refer_sipfrag.
SendInDialog(m) ==
    /\ dlgCall.stage = "Up" /\ wire.method = "None" /\ dlgCall.sent < MaxRequests
    /\ wire' = InDialogRequest(dlg, m, dlg.cseq, 20 + dlgCall.sent)
    /\ dlg' = [dlg EXCEPT !.cseq = @ + 1]
    /\ dlgCall' = [dlgCall EXCEPT !.sent = @ + 1, !.stage = IF m = "BYE" THEN "Down" ELSE @]
    /\ UNCHANGED <<invitePlan, farEnd, arrived>>

\* send_reinvite acknowledges the 2xx with the number its Re-INVITE had, which the
\* dialog has counted past.
AckReinvite ==
    /\ dlgCall.stage = "Up" /\ wire.method = "Answered"
    /\ wire' = InDialogRequest(dlg, "ACK", wire.cseq, 30 + dlgCall.sent)
    /\ UNCHANGED <<dlgCall, dlg, invitePlan, farEnd, arrived>>
-----------------------------------------------------------------------------
(* The way there, and the far end (RFC 3261 16.4 to 16.6 and 12.2.2)       *)

ProxyForwards ==
    LET mine == wire.at
        unstrict == wire.uri = mine /\ wire.route # <<>>
        uri == IF unstrict THEN Last(wire.route) ELSE wire.uri
        whole == IF unstrict THEN Front(wire.route) ELSE wire.route
        rest == IF whole # <<>> /\ Head(whole) = mine THEN Tail(whole) ELSE whole
        next == IF rest = <<>> THEN uri ELSE Head(rest)
        strict == rest # <<>> /\ ~Head(rest).lr
    IN /\ wire.method # "None" /\ dlg # NoDialog /\ mine # Target
       /\ wire' = IF next = mine THEN NoRequest
                  ELSE [wire EXCEPT !.seen = IF mine = Server THEN @ ELSE Append(@, mine), !.at = next,
                                    !.uri = IF strict THEN next ELSE uri,
                                    !.route = IF strict THEN Append(Tail(rest), uri) ELSE rest]
       /\ farEnd' = [farEnd EXCEPT !.verdict = IF next = mine THEN "Refused" ELSE @]
       /\ UNCHANGED <<dlgCall, dlg, invitePlan, arrived>>

\* The path was followed, the fallback apart, and the request is for its reader.
Followed ==
    /\ wire.seen = dlgCall.path
    /\ wire.uri = Target /\ wire.route = <<>>

\* Inside a dialog; an ACK belongs to the INVITE with its number.
TakesInDialog ==
    LET ok == /\ Followed /\ wire.from = farEnd.from /\ wire.to = farEnd.tag
              /\ IF wire.method = "ACK" THEN wire.cseq = farEnd.invite ELSE wire.cseq > farEnd.cseq
    IN /\ dlg # NoDialog /\ wire.method \notin {"None", "Answered"} /\ wire.at = Target
       /\ farEnd' = [farEnd EXCEPT !.verdict = IF ok THEN @ ELSE "Refused",
                                   !.cseq = IF wire.method = "ACK" THEN @ ELSE wire.cseq,
                                   !.invite = IF wire.method = "INVITE" THEN wire.cseq ELSE @]
       /\ wire' = IF wire.method = "INVITE" THEN [wire EXCEPT !.method = "Answered"] ELSE NoRequest
       /\ UNCHANGED <<dlgCall, dlg, invitePlan, arrived>>

\* The ACK of a refusal ends at the server transaction of its INVITE.
TakesNon2xxAck ==
    /\ dlg = NoDialog /\ wire.method = "ACK"
    /\ farEnd' = [farEnd EXCEPT !.verdict =
           IF wire.branch = farEnd.branch /\ wire.cseq = farEnd.invite /\ wire.to = farEnd.tag
           THEN @ ELSE "Refused"]
    /\ wire' = NoRequest
    /\ UNCHANGED <<dlgCall, dlg, invitePlan, arrived>>
-----------------------------------------------------------------------------
(* The Via of a response                                                   *)

Via == [host : {"src", "nat", "name"}, rport : {"None", "Empty", "Wrong"}, received : {"None"}]

\* Mutant: received is only written where rport was asked for.
StampsWithRport(v) ==
    IF v.rport # "None" THEN [v EXCEPT !.received = "src", !.rport = "One"] ELSE v

\* apply_rport_to_via_for_response, for a request from port 1 of src.
Stamped(v) ==
    [v EXCEPT !.received = IF v.rport # "None" \/ v.host # "src" THEN "src" ELSE @,
              !.rport = IF @ = "None" THEN @ ELSE "One"]

RespondVia(v) ==
    /\ dlgCall.stage = "Idle"
    /\ arrived' = Stamped(v)
    /\ dlgCall' = [dlgCall EXCEPT !.stage = "Down"]
    /\ UNCHANGED <<dlg, invitePlan, wire, farEnd>>

RequestsNext ==
    \/ \E c \in {"None", "Right", "Wrong"} : BuildInvite(c)
    \/ \E c, r \in BOOLEAN : NgnRefuses(c, r)
    \/ \E q \in Qops : RetryWithAuth(q)
    \/ dlgCall.stage \in {"Inviting", "Reinviting"} /\ \E p \in Paths : \E l \in Lines(Reverse(p)), w \in BOOLEAN :
           NgnAccepts(p, l, w)
    \/ dlgCall.stage = "Idle" /\ \E p \in Paths : \E l \in Lines(p) : ExtInvites(p, l)
    \/ \E m \in {"BYE", "INVITE", "NOTIFY"} : SendInDialog(m)
    \/ AckReinvite
    \/ ProxyForwards
    \/ TakesInDialog
    \/ TakesNon2xxAck
    \/ \E v \in Via : RespondVia(v)
-----------------------------------------------------------------------------
RequestsTypeOK ==
    /\ dlgCall.stage \in {"Idle", "Inviting", "Challenged", "Reinviting", "Up", "Down", "Failed"}
    /\ dlgCall.sent \in 0..MaxRequests
    /\ wire.method \in {"None", "INVITE", "ACK", "BYE", "NOTIFY", "Answered"}
    /\ farEnd.verdict \in {"Fine", "Refused", "Unauthorized"}

\* Whatever proxies there are, loose or strict, named or by address, with or
\* without a challenge: every request of the gateway passes them in order, is for
\* the peer's Contact when it gets there, and is one the peer's transaction and
\* dialog take; and the right password is never refused.
RequestsAccepted == farEnd.verdict = "Fine"

\* A response leads back to where its request came from by its Via alone: a reader
\* that goes by received and rport, or the sent-by host, finds the source.
ViaLeadsBack ==
    /\ arrived.received = "src" \/ arrived.host = "src"
    /\ arrived.rport \in {"None", "One"}
=============================================================================
