------------------------------ MODULE Startup -------------------------------
(***************************************************************************)
(* The start of the program (main.rs run_register, config/mod.rs): the     *)
(* configuration is read, the optional features are made, the sockets are  *)
(* bound, the handlers are made and given the features one after the       *)
(* other, the tasks that serve the NGN, the extensions and the browsers    *)
(* are spawned, and last the number is registered.                         *)
(*                                                                         *)
(* A feature that cannot be made is left out, a socket that cannot be      *)
(* bound ends the program.  A process that starts again may be known to    *)
(* the NGN from before.                                                    *)
(***************************************************************************)
EXTENDS Naturals, Sequences, SequencesExt

CONSTANT MaxRestarts    \* bound: starts after the first

ASSUME StartupAssumption == MaxRestarts \in Nat

VARIABLES
    conf,       \* Config: the features that are enabled, [uas], webrtc.secret_hex
    stage,      \* what run_register does next
    made,       \* the features that exist
    given,      \* <<entry point, feature>>: what a handler has been given
    serving,    \* the entry points whose task runs
    asked,      \* a request of the NGN is queued
    known,      \* the NGN has a binding of this number
    missed,     \* a request of the NGN was handled without a feature that exists
    restarts

startVars == <<conf, stage, made, given, serving, asked, known, missed, restarts>>

Feature == {"transcription", "recording", "push", "voicemail", "sms"}
EnvFlag == Feature \ {"recording"}     \* no variable switches recording
Stages == <<"config", "transcription", "recording", "push", "voicemail", "sms", "ngn", "uas", "inbound",
            "give log", "give forwarder", "give push", "give recording", "give sms",
            "spawn", "http", "register", "run">>
GiveStage == [log |-> "give log", forwarder |-> "give forwarder", push |-> "give push",
              recording |-> "give recording", sms |-> "give sms"]
After(s) == Stages[(CHOOSE i \in DOMAIN Stages : Stages[i] = s) + 1]
Bound == ~Contains(SubSeq(Stages, 1, 7), stage) /\ stage # "exited"

\* What an entry point uses: the NGN's requests, the extensions', HTTP and the WebSocket.
Uses == [Ngn  |-> {"log", "forwarder", "push", "recording", "sms", "voicemail"},
         Uas  |-> {"log", "recording", "sms"},
         Http |-> {"log", "push", "recording", "sms", "voicemail"},
         Ws   |-> {"push", "recording", "sms"}]

Give(e, fs) == {e} \X (fs \cap made \cap Uses[e])

NoConf == [on |-> {}, uas |-> FALSE, secret |-> "none"]

StartInit ==
    /\ conf = NoConf /\ stage = "config" /\ made = {} /\ given = {} /\ serving = {}
    /\ asked = FALSE /\ known = FALSE /\ missed = FALSE /\ restarts = 0

Goes(s) == stage = s /\ stage' = After(s)
Exits == stage' = "exited"
-----------------------------------------------------------------------------
(* The configuration                                                       *)

\* apply_env_overrides, a flag: whatever is set and is not a yes is a no.
Flag(file, v) == IF v = "unset" THEN file ELSE v = "yes"
\* apply_env_overrides, a value: what cannot be read is ignored.
Parsed(file, v) == IF v = "good" THEN TRUE ELSE file
\* apply_env_overrides, an optional value: empty takes the file's away.
Optional(file, v) == IF v = "unset" THEN file ELSE IF v = "empty" THEN "none" ELSE v

\* from_env_only: the defaults, with the features off.
FromEnvOnly == NoConf

Overridden(file, flags, uas, secret) ==
    [on     |-> {f \in Feature : IF f \in EnvFlag THEN Flag(f \in file.on, flags[f]) ELSE f \in file.on},
     uas    |-> Parsed(file.uas, uas),
     secret |-> Optional(file.secret, secret)]

\* Config::load; an unreadable file, a required variable without a file, a local
\* address that cannot be found or a routing rule that is not valid end the program.
Load(file, flags, uas, secret) ==
    /\ Goes("config") /\ conf' = Overridden(file, flags, uas, secret)
    /\ UNCHANGED <<made, given, serving, asked, known, missed, restarts>>

LoadFails ==
    /\ stage = "config" /\ Exits
    /\ UNCHANGED <<conf, made, given, serving, asked, known, missed, restarts>>
-----------------------------------------------------------------------------
(* Features and sockets                                                    *)

\* A backend, a directory, the VAPID keys or the notifier may fail; the message log cannot.
MakeFeature(f, works) ==
    /\ Goes(f)
    /\ f = "sms" => works
    /\ made' = IF f \in conf.on /\ works THEN made \cup {f} ELSE made
    /\ given' = IF f \in conf.on /\ works /\ f \in {"recording", "voicemail"} /\ "transcription" \in made
                THEN given \cup {<<f, "transcription">>} ELSE given
    /\ UNCHANGED <<conf, serving, asked, known, missed, restarts>>

\* The NGN's socket and its TransactionLayer: from now on requests are queued.
BindNgn(works) ==
    /\ IF works THEN Goes("ngn") ELSE stage = "ngn" /\ Exits
    /\ made' = made \cup {"log", "forwarder"}
    /\ UNCHANGED <<conf, given, serving, asked, known, missed, restarts>>

\* ExtensionUas, with the message log, and UasEventHandler, with the call log.
BindUas(works) ==
    /\ IF conf.uas => works THEN Goes("uas") ELSE stage = "uas" /\ Exits
    /\ given' = given \cup Give("Uas", {"log"}) \cup IF conf.uas THEN Give("Uas", {"sms"}) ELSE {}
    /\ UNCHANGED <<conf, made, serving, asked, known, missed, restarts>>
-----------------------------------------------------------------------------
(* Wiring                                                                  *)

\* wire_ngn_inbound_...: the receive loop runs at once, with the voicemail; without
\* extensions the receiver is dropped and with it what is queued.
WireInbound ==
    /\ Goes("inbound")
    /\ serving' = IF conf.uas THEN serving \cup {"Ngn"} ELSE serving
    /\ given' = IF conf.uas THEN given \cup Give("Ngn", {"voicemail"}) ELSE given
    /\ asked' = (asked /\ conf.uas)
    /\ UNCHANGED <<conf, made, known, missed, restarts>>

\* set_call_log, set_outbound_forwarder and set_push of NgnInboundHandler.
GiveInbound(f) ==
    /\ Goes(GiveStage[f])
    /\ given' = IF "Ngn" \in serving THEN given \cup Give("Ngn", {f}) ELSE given
    /\ UNCHANGED <<conf, made, serving, asked, known, missed, restarts>>

\* Mutant: the handler of the NGN's requests is forgotten.
GiveUasOnly(f) ==
    /\ Goes(GiveStage[f])
    /\ given' = given \cup Give("Uas", {f})
    /\ UNCHANGED <<conf, made, serving, asked, known, missed, restarts>>

\* set_recording_recorder and set_message_log, of both handlers.
GiveBoth(f) ==
    /\ Goes(GiveStage[f])
    /\ given' = given \cup Give("Uas", {f}) \cup IF "Ngn" \in serving THEN Give("Ngn", {f}) ELSE {}
    /\ UNCHANGED <<conf, made, serving, asked, known, missed, restarts>>

\* UasEventHandler::spawn and ExtensionUas::run, with the intercom and the aliases set.
SpawnUas ==
    /\ Goes("spawn")
    /\ serving' = IF conf.uas THEN serving \cup {"Uas"} ELSE serving
    /\ UNCHANGED <<conf, made, given, asked, known, missed, restarts>>

\* The browsers are served with a secret that can be decoded, and with extensions.
Gateway == conf.secret = "good" /\ conf.uas

\* Mutant: the public key is served and subscriptions are taken though nothing can send.
OffersPushAnyway ==
    /\ Goes("http")
    /\ given' = given \cup Give("Http", Uses.Http) \cup {<<"Http", "push">>}
                      \cup IF Gateway THEN Give("Ws", Uses.Ws) \cup {<<"Ws", "push">>} ELSE {}
    /\ serving' = serving \cup {"Http"} \cup IF Gateway THEN {"Ws"} ELSE {}
    /\ UNCHANGED <<conf, made, asked, known, missed, restarts>>

\* HealthState and SignalingState are complete before the server's task is spawned.
StartHttp ==
    /\ Goes("http")
    /\ given' = given \cup Give("Http", Uses.Http) \cup IF Gateway THEN Give("Ws", Uses.Ws) ELSE {}
    /\ serving' = serving \cup {"Http"} \cup IF Gateway THEN {"Ws"} ELSE {}
    /\ UNCHANGED <<conf, made, asked, known, missed, restarts>>

\* Mutant: the registration is started with the sockets.
RegistersEarly ==
    /\ Bound /\ ~known /\ known' = TRUE
    /\ stage' = IF stage = "register" THEN "run" ELSE stage
    /\ UNCHANGED <<conf, made, given, serving, asked, missed, restarts>>

\* Registrar::run.
Register ==
    /\ Goes("register") /\ known' = TRUE
    /\ UNCHANGED <<conf, made, given, serving, asked, missed, restarts>>

\* A server's task ends with an error, which is logged.
ServerEnds(e) ==
    /\ e \in serving \ {"Ngn"} /\ stage # "exited"
    /\ serving' = serving \ IF e \in {"Http", "Ws"} THEN {"Http", "Ws"} ELSE {e}
    /\ UNCHANGED <<conf, stage, made, given, asked, known, missed, restarts>>
-----------------------------------------------------------------------------
(* The NGN, and the end of the process                                     *)

NgnAsks ==
    /\ known /\ Bound /\ ~asked
    /\ stage \in {"uas", "inbound"} \/ "Ngn" \in serving
    /\ asked' = TRUE
    /\ UNCHANGED <<conf, stage, made, given, serving, known, missed, restarts>>

\* NgnInboundHandler takes a request for which it looks f up.
NgnServed(f) ==
    /\ asked /\ "Ngn" \in serving
    /\ asked' = FALSE
    /\ missed' = (missed \/ (f \in made /\ <<"Ngn", f>> \notin given))
    /\ UNCHANGED <<conf, stage, made, given, serving, known, restarts>>

\* The process is killed, or ended, and is started again; nothing unregisters the number.
Restart ==
    /\ stage # "config" /\ restarts < MaxRestarts
    /\ restarts' = restarts + 1
    /\ conf' = NoConf /\ stage' = "config" /\ made' = {} /\ given' = {} /\ serving' = {}
    /\ asked' = FALSE
    /\ UNCHANGED <<known, missed>>

\* The binding runs out while nobody refreshes it.
BindingExpires ==
    /\ known /\ stage # "run" /\ known' = FALSE
    /\ UNCHANGED <<conf, stage, made, given, serving, asked, missed, restarts>>

Secrets == {"none", "bad", "good"}
File == [on : SUBSET Feature, uas : BOOLEAN, secret : {"none", "good"}]

StartNext ==
    \/ stage = "config"
       /\ \E file \in File \cup {FromEnvOnly}, flags \in [EnvFlag -> {"unset", "yes"}] \cup {[f \in EnvFlag |-> "bad"]},
             uas \in {"unset", "good", "bad"}, secret \in Secrets \cup {"unset", "empty"} :
             Load(file, flags, uas, secret)
    \/ LoadFails
    \/ \E works \in BOOLEAN : BindNgn(works) \/ BindUas(works) \/ \E f \in Feature : MakeFeature(f, works)
    \/ WireInbound
    \/ \E f \in {"log", "forwarder", "push"} : GiveInbound(f)
    \/ \E f \in {"recording", "sms"} : GiveBoth(f)
    \/ SpawnUas \/ StartHttp \/ Register
    \/ \E e \in {"Uas", "Http", "Ws"} : ServerEnds(e)
    \/ NgnAsks \/ \E f \in Uses.Ngn : NgnServed(f)
    \/ Restart \/ BindingExpires
-----------------------------------------------------------------------------
StartTypeOK ==
    /\ stage \in Range(Stages) \cup {"exited"}
    /\ made \subseteq Feature \cup {"log", "forwarder"}
    /\ serving \subseteq DOMAIN Uses
    /\ restarts \in 0..MaxRestarts /\ missed \in BOOLEAN

Complete(e) == \A f \in made \cap Uses[e] : <<e, f>> \in given

\* A feature is everywhere or nowhere: one that could not be made is offered at no
\* entry point, so that a browser never subscribes to notifications nobody sends;
\* whoever serves the extensions or the browsers has all there is from its first
\* request on; and so has the handler of the NGN's requests before the number is
\* registered (main.rs run_register).
FeatureEverywhere ==
    /\ \A g \in given : g[2] \in made
    /\ \A e \in serving \ {"Ngn"} : Complete(e)
    /\ stage \in {"register", "run"} /\ "Ngn" \in serving => Complete("Ngn")
    /\ "Ws" \in serving /\ "push" \in made => <<"Ngn", "push">> \in given

\* A program that starts for the first time handles no request of the NGN with
\* handlers it has not finished; one that starts again may, since the NGN still knows
\* it (main.rs run_register, wire_ngn_inbound_with_manager_metrics_and_outbound_table).
FirstStartMissesNothing == restarts = 0 => ~missed
=============================================================================
