------------------------------- MODULE MidCall ------------------------------
(***************************************************************************)
(* What happens inside an established call of an extension: re-INVITEs of  *)
(* either side, transfer and the BYEs, each in a task of its own           *)
(* (call/orchestrator.rs), over the call's two dialogs (sip/dialog.rs,     *)
(* UacDialog of sip/uac.rs).  The NGN dialog is locked for a whole         *)
(* request and its response; the extension's dialog only while a request   *)
(* is built.  That a request gets a response or times out is what module   *)
(* Uac shows.                                                              *)
(***************************************************************************)
EXTENDS Naturals, FiniteSets

CONSTANTS
    Chore,       \* the tasks: a subset of AllChores
    MaxCSeq      \* bound: in-dialog requests of a dialog

AllChores == {"ExtRe", "NgnRe", "ExtBye", "NgnBye", "Refer"}

ASSUME MidAssumption == Chore \subseteq AllChores /\ MaxCSeq \in Nat \ {0}

VARIABLES
    callIs,      \* the extension's INVITE: "Pending", then "Up" in the registry, then "Gone"
    chore,       \* each task: where it stands, what it is sending, under which CSeq
    answered,    \* the requests that got their final response
    locked,      \* the task that holds ngn_dialog, as a set
    ngnCSeq, extCSeq,    \* local_cseq of the two dialogs
    ngnSeen,     \* the highest CSeq the NGN has got
    ngnUnacked,  \* re-INVITEs the NGN has answered with 2xx and has no ACK for
    extUnacked,  \* the extension has no ACK for its 2xx
    disorder     \* the NGN has got a request with a CSeq that is too low

midVars == <<callIs, chore, answered, locked, ngnCSeq, extCSeq, ngnSeen, ngnUnacked,
             extUnacked, disorder>>

ChoreStages == {"Idle", "Lock", "NgnSend", "NgnWait", "Build", "ExtSend", "ExtWait",
                "Contact", "Invite", "Remove", "Done"}
Sendable == {"None", "INVITE", "BYE", "NOTIFY", "LastNOTIFY"}

\* from_uac_response: the INVITE had CSeq 1; from_uas_invite starts at 1.
MidInit ==
    /\ callIs = "Pending"
    /\ chore = [t \in Chore |-> [stage |-> "Idle", send |-> "None", cseq |-> 0, ok |-> FALSE]]
    /\ answered = {}
    /\ locked = {} /\ ngnCSeq = 2 /\ extCSeq = 1 /\ ngnSeen = 1
    /\ ngnUnacked = {} /\ extUnacked = FALSE /\ disorder = FALSE

Stands(t, s) == t \in Chore /\ chore[t].stage = s
Go(t, s) == chore' = [chore EXCEPT ![t].stage = s, ![t].cseq = IF s = "Done" THEN 0 ELSE @,
                                     ![t].send = IF s = "Done" THEN "None" ELSE @,
                                     ![t].ok = @ /\ s # "Done"]
GoSend(t, s, m) == chore' = [chore EXCEPT ![t].stage = s, ![t].send = m]
Answer(t) == answered' = answered \cup {t}
Dialogs == UNCHANGED <<locked, ngnCSeq, extCSeq, ngnSeen, ngnUnacked, extUnacked, disorder>>

\* OutboundCall enters the call into the registry.
CallUp ==
    /\ callIs = "Pending" /\ callIs' = "Up"
    /\ UNCHANGED <<chore, answered>> /\ Dialogs

-----------------------------------------------------------------------------
(* The handlers, up to their first in-dialog request.  Each runs in a task *)
(* spawned for it, so they begin in any order.                             *)

\* handle_ext_reinvite: 491 while the INVITE is in progress, 481 without a call.
HandleExtReinvite ==
    /\ Stands("ExtRe", "Idle")
    /\ IF callIs = "Up" THEN GoSend("ExtRe", "Lock", "INVITE") /\ UNCHANGED answered
       ELSE Go("ExtRe", "Done") /\ Answer("ExtRe")
    /\ UNCHANGED callIs /\ Dialogs

\* handle_ngn_reinvite: the NGN's offer goes to the extension as it is.
HandleNgnReinvite ==
    /\ Stands("NgnRe", "Idle")
    /\ IF callIs = "Up" THEN GoSend("NgnRe", "Build", "INVITE") /\ UNCHANGED answered
       ELSE Go("NgnRe", "Done") /\ Answer("NgnRe")
    /\ UNCHANGED callIs /\ Dialogs

\* handle_ext_bye: 200 at once, then the entry is taken.
HandleExtBye ==
    /\ Stands("ExtBye", "Idle")
    /\ Answer("ExtBye")
    /\ IF callIs = "Up" THEN GoSend("ExtBye", "Lock", "BYE") /\ callIs' = "Gone"
       ELSE Go("ExtBye", "Done") /\ UNCHANGED callIs
    /\ Dialogs

\* handle_bye has answered the NGN; handle_ngn_bye takes the entry.
HandleNgnBye ==
    /\ Stands("NgnBye", "Idle")
    /\ Answer("NgnBye")
    /\ IF callIs = "Up" THEN GoSend("NgnBye", "Build", "BYE") /\ callIs' = "Gone"
       ELSE Go("NgnBye", "Done") /\ UNCHANGED callIs
    /\ Dialogs

\* handle_ext_refer: 503 without what a transfer needs, 481 without a call, 400
\* without a target; otherwise 202 and a first NOTIFY.
HandleExtRefer ==
    /\ Stands("Refer", "Idle")
    /\ Answer("Refer")
    /\ Go("Refer", "Done") \/ (callIs = "Up" /\ GoSend("Refer", "Build", "NOTIFY"))
    /\ UNCHANGED callIs /\ Dialogs

\* The target's binding, 404 without; then an INVITE of its own to the target.
InviteTransferee ==
    /\ Stands("Refer", "Invite")
    /\ \E established \in BOOLEAN :
          chore' = [chore EXCEPT !["Refer"].stage = "Build", !["Refer"].send = "LastNOTIFY",
                                 !["Refer"].ok = established]
    /\ UNCHANGED <<callIs, answered>> /\ Dialogs
-----------------------------------------------------------------------------
(* A request in the NGN dialog: UacDialog::send_reinvite and send_bye      *)

\* Mutant: the dialog is not locked.
BuildUnlocked(t) ==
    /\ Stands(t, "Lock") /\ ngnCSeq <= MaxCSeq
    /\ ngnCSeq' = ngnCSeq + 1
    /\ chore' = [chore EXCEPT ![t].stage = "NgnSend", ![t].cseq = ngnCSeq]
    /\ UNCHANGED <<callIs, answered, locked, extCSeq, ngnSeen, ngnUnacked, extUnacked, disorder>>

\* The lock is taken for the request and its response; build_reinvite and
\* build_bye take the next CSeq.
NgnBuild(t) ==
    /\ Stands(t, "Lock") /\ locked = {} /\ ngnCSeq <= MaxCSeq
    /\ locked' = {t}
    /\ ngnCSeq' = ngnCSeq + 1
    /\ chore' = [chore EXCEPT ![t].stage = "NgnSend", ![t].cseq = ngnCSeq]
    /\ UNCHANGED <<callIs, answered, extCSeq, ngnSeen, ngnUnacked, extUnacked, disorder>>

NgnSends(t) ==
    /\ Stands(t, "NgnSend")
    /\ Go(t, "NgnWait")
    /\ disorder' = (disorder \/ chore[t].cseq <= ngnSeen)
    /\ ngnSeen' = IF chore[t].cseq > ngnSeen THEN chore[t].cseq ELSE ngnSeen
    /\ ngnUnacked' = IF chore[t].send = "INVITE" THEN ngnUnacked \cup {chore[t].cseq} ELSE ngnUnacked
    /\ UNCHANGED <<callIs, answered, locked, ngnCSeq, extCSeq, extUnacked>>

\* Mutant: the lock of a re-INVITE is kept.
RepliesLocked(t) ==
    /\ Stands(t, "NgnWait")
    /\ locked' = IF t = "ExtRe" THEN locked ELSE locked \ {t}
    /\ ngnUnacked' = ngnUnacked \ {chore[t].cseq}
    /\ CASE t = "ExtRe" -> Go(t, "Done") /\ Answer(t)
         [] t = "ExtBye" -> Go(t, "Done") /\ UNCHANGED answered
         [] t = "Refer" -> GoSend(t, "Build", "BYE") /\ UNCHANGED answered
    /\ UNCHANGED <<callIs, ngnCSeq, extCSeq, ngnSeen, extUnacked, disorder>>

\* 2xx, with its ACK under the same CSeq; a refusal, which the transaction has
\* acknowledged; no answer.  What is left of the task follows.
NgnReplies(t) ==
    /\ Stands(t, "NgnWait")
    /\ locked' = locked \ {t}
    /\ ngnUnacked' = ngnUnacked \ {chore[t].cseq}
    /\ CASE t = "ExtRe" -> Go(t, "Done") /\ Answer(t)
         [] t = "ExtBye" -> Go(t, "Done") /\ UNCHANGED answered
         [] t = "Refer" -> GoSend(t, "Build", "BYE") /\ UNCHANGED answered
    /\ UNCHANGED <<callIs, ngnCSeq, extCSeq, ngnSeen, extUnacked, disorder>>
-----------------------------------------------------------------------------
(* A request in the extension's dialog                                     *)

\* The lock is held only while the request is built.
ExtBuild(t) ==
    /\ Stands(t, "Build") /\ extCSeq <= MaxCSeq
    /\ extCSeq' = extCSeq + 1
    /\ chore' = [chore EXCEPT ![t].stage = "ExtSend", ![t].cseq = extCSeq]
    /\ UNCHANGED <<callIs, answered, locked, ngnCSeq, ngnSeen, ngnUnacked, extUnacked, disorder>>

\* The BYE of a transfer is sent by a task that nobody waits for.
ExtSends(t) ==
    /\ Stands(t, "ExtSend")
    /\ Go(t, IF t = "Refer" /\ chore[t].send = "BYE" THEN "Remove" ELSE "ExtWait")
    /\ UNCHANGED <<callIs, answered>> /\ Dialogs

\* send_request returns the 2xx of a re-INVITE, and handle_ngn_reinvite sends no
\* ACK for it.
ExtTwoHundred(t, reply) ==
    extUnacked \/ (chore[t].send = "INVITE" /\ reply = "200")

\* A response, or none: 32 s, 4 s for a NOTIFY.
ExtReplies(t, reply) ==
    /\ Stands(t, "ExtWait")
    /\ extUnacked' = ExtTwoHundred(t, reply)
    /\ CASE t = "NgnRe" -> IF reply = "200" THEN Go(t, "Contact") /\ UNCHANGED answered
                           ELSE Go(t, "Done") /\ Answer(t)
         [] t = "NgnBye" -> Go(t, "Done") /\ UNCHANGED answered
         [] t = "Refer" -> /\ UNCHANGED answered
                           /\ CASE chore[t].send = "NOTIFY" -> Go(t, "Invite")
                                [] chore[t].ok -> GoSend(t, "Lock", "BYE")
                                [] OTHER -> Go(t, "Done")
    /\ UNCHANGED <<callIs, locked, ngnCSeq, extCSeq, ngnSeen, ngnUnacked, disorder>>

\* The 200 for the NGN needs the Contact of the NGN dialog, which may be locked
\* by a re-INVITE that waits for the NGN.
TakeContact ==
    /\ Stands("NgnRe", "Contact") /\ locked = {}
    /\ Go("NgnRe", "Done") /\ Answer("NgnRe")
    /\ UNCHANGED callIs /\ Dialogs

\* The transfer is over: the entry goes, if it is still there.
RemoveTransferred ==
    /\ Stands("Refer", "Remove")
    /\ Go("Refer", "Done")
    /\ callIs' = "Gone"
    /\ UNCHANGED answered /\ Dialogs
-----------------------------------------------------------------------------
\* "Refused": a refusal, which is relayed, or no answer, which becomes 408 or 500.
Replies == {"200", "Refused"}

MidHandle(t) ==
    \/ t = "ExtRe" /\ HandleExtReinvite
    \/ t = "NgnRe" /\ HandleNgnReinvite
    \/ t = "ExtBye" /\ HandleExtBye
    \/ t = "NgnBye" /\ HandleNgnBye
    \/ t = "Refer" /\ HandleExtRefer

MidStep(t) ==
    \/ t = "NgnRe" /\ TakeContact
    \/ t = "Refer" /\ (InviteTransferee \/ RemoveTransferred)
    \/ NgnBuild(t) \/ NgnSends(t) \/ ExtBuild(t) \/ ExtSends(t)
    \/ NgnReplies(t) \/ \E r \in Replies : ExtReplies(t, r)

MidNext == CallUp \/ \E t \in Chore : MidHandle(t) \/ MidStep(t)

MidSpec == MidInit /\ [][MidNext]_midVars

MidTypeOK ==
    /\ callIs \in {"Pending", "Up", "Gone"}
    /\ chore \in [Chore -> [stage : ChoreStages, send : Sendable, cseq : 0..MaxCSeq, ok : BOOLEAN]]
    /\ answered \subseteq Chore
    /\ locked \subseteq Chore /\ Cardinality(locked) <= 1
    /\ ngnCSeq \in 2..(MaxCSeq + 1) /\ extCSeq \in 1..(MaxCSeq + 1) /\ ngnSeen \in 1..(ngnCSeq - 1)
    /\ ngnUnacked \subseteq 2..MaxCSeq /\ extUnacked \in BOOLEAN
    /\ disorder \in BOOLEAN

\* However the tasks interleave, the NGN gets the requests of the dialog in the
\* order of their CSeq and one at a time: a re-INVITE is acknowledged before the
\* next request, whoever sends it.
NgnInOrder ==
    /\ ~disorder
    /\ Cardinality(ngnUnacked) <= 1
    /\ ngnUnacked # {} => \A t \in Chore : chore[t].stage = "NgnSend" => chore[t].cseq \in ngnUnacked

\* Every request inside the call gets its final response and every task ends,
\* though the tasks wait for one another's locks and for both peers.
MidCallAnswered ==
    <>[](\A t \in Chore : Stands(t, "Idle") \/ (Stands(t, "Done") /\ t \in answered))

\* Each leg gets its ACK: a 2xx to a re-INVITE is acknowledged by the time its
\* handler has ended.
EveryLegAcked == (\A t \in Chore : Stands(t, "Done")) => ngnUnacked = {} /\ ~extUnacked
=============================================================================
