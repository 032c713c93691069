---------------------------- MODULE CallRouting -----------------------------
(***************************************************************************)
(* Whom a call is for.  A call from the NGN goes to the extensions the     *)
(* routing rules name (call/routing.rs); a number an extension or a        *)
(* browser dials is an extension's, by its name or by an alias, or one of  *)
(* the NGN's (call/intercom.rs, call/orchestrator.rs).                     *)
(*                                                                         *)
(* A day has Hours hours; what is dialled is a name.                       *)
(***************************************************************************)
EXTENDS Naturals, Sequences, SequencesExt, FiniteSetsExt

CONSTANTS
    Hours,       \* bound: hours of a day
    Weekday,
    Number,      \* callers on the NGN
    Name,        \* names of extensions
    Alias,       \* dial_aliases: what is dialled -> the extension's name
    IntercomOn   \* IntercomConfig.enabled

ASSUME RoutingAssumption ==
    /\ Hours \in Nat \ {0, 1} /\ IsFiniteSet(Name) /\ DOMAIN Alias \cap Name = {}
    /\ IntercomOn \in BOOLEAN

VARIABLES
    rules,      \* RoutingRules; <<>>: none configured
    started,    \* Config::load has succeeded
    present,    \* ExtensionRegistrar: the extensions registered, in the order of a snapshot
    incoming,   \* the call from the NGN just routed: day, hour, from and who is rung
    dialled     \* the call out just routed: who, what and where it went

routingVars == <<rules, started, present, incoming, dialled>>

NotGiven == "any"      \* a criterion that is not given
AnyTime == <<>>
Unreadable == <<Hours, Hours>>
Spans == {AnyTime, Unreadable, <<0, 0>>, <<0, Hours - 1>>, <<Hours - 1, 1>>}

NoCall == [day |-> NotGiven, hour |-> 0, from |-> NotGiven, rung |-> <<>>, rule |-> 0]
NoDial == [by |-> NotGiven, kind |-> NotGiven, target |-> NotGiven, to |-> "None", aor |-> NotGiven]

\* No call has been routed since somebody came or went.
Quiet == incoming = NoCall /\ dialled = NoDial

RoutingInit ==
    /\ rules = <<>> /\ started = FALSE /\ present = <<>>
    /\ incoming = NoCall /\ dialled = NoDial
-----------------------------------------------------------------------------
(* Routing rules                                                           *)

\* Mutant: a range over midnight is never open.
InRangeSameDay(h, span) == span[1] <= h /\ h < span[2]

\* time_in_range: start included, end not; over midnight if the end is earlier.
TimeInRange(h, span) ==
    /\ span[1] # span[2]
    /\ IF span[1] < span[2] THEN span[1] <= h /\ h < span[2] ELSE span[1] <= h \/ h < span[2]

\* RoutingRule::matches: every criterion given.
Matches(r, day, hour, from) ==
    /\ r.days = NotGiven \/ day = r.days
    /\ r.span = AnyTime \/ (r.span # Unreadable /\ TimeInRange(hour, r.span))
    /\ r.from = NotGiven \/ from = r.from

\* validate_rules, when the configuration is loaded: a range or a day that cannot be
\* read stops the program.
Valid(r) == r.span # Unreadable

\* filter_bindings_by_aor: in the order of the rule, those that are registered.
Filter(all, wanted) ==
    LET result[n \in 0..Len(wanted)] ==
            IF n = 0 THEN <<>>
            ELSE IF Contains(all, wanted[n]) THEN Append(result[n - 1], wanted[n]) ELSE result[n - 1]
    IN result[Len(wanted)]

\* The comparison of evaluate's sort_by, rules being named by their places.
Before(i, j) ==
    rules[i].priority > rules[j].priority \/ (rules[i].priority = rules[j].priority /\ i < j)

\* Mutant: rules of the same priority, the last first.
SortedLastFirst ==
    CHOOSE order \in [DOMAIN rules -> DOMAIN rules] : \A m, n \in DOMAIN rules : m < n =>
        \/ rules[order[m]].priority > rules[order[n]].priority
        \/ rules[order[m]].priority = rules[order[n]].priority /\ order[m] > order[n]

\* evaluate: by priority, the higher first, then as written.
Sorted ==
    CHOOSE order \in [DOMAIN rules -> DOMAIN rules] :
        \A m, n \in DOMAIN rules : m < n => Before(order[m], order[n])

\* The first that matches; 0: RoutingDecision::NoRule.
Evaluate(day, hour, from) ==
    LET found == {n \in DOMAIN rules : Matches(rules[Sorted[n]], day, hour, from)}
    IN IF found = {} THEN 0 ELSE Sorted[Min(found)]

\* Config::load.
LoadRules(rs) ==
    /\ ~started
    /\ \A i \in DOMAIN rs : Valid(rs[i])
    /\ rules' = rs /\ started' = TRUE
    /\ UNCHANGED <<present, incoming, dialled>>

\* handle_invite, from the snapshot of the registrar to the list that is forked to;
\* an empty list is for the voicemail, or 480.
CallComesIn(day, hour, from) ==
    LET found == Evaluate(day, hour, from)
    IN /\ started /\ Quiet
       /\ incoming' = [day |-> day, hour |-> hour, from |-> from,
                       rule |-> found,
                       rung |-> IF found = 0 THEN present ELSE Filter(present, rules[found].fork)]
       /\ UNCHANGED <<rules, started, present, dialled>>

Appear(a) ==
    /\ started /\ ~Contains(present, a) /\ present' = Append(present, a)
    /\ incoming' = NoCall /\ dialled' = NoDial
    /\ UNCHANGED <<rules, started>>

Leave(a) ==
    /\ \E i \in DOMAIN present : present[i] = a /\ present' = RemoveAt(present, i)
    /\ incoming' = NoCall /\ dialled' = NoDial
    /\ UNCHANGED <<rules, started>>
-----------------------------------------------------------------------------
(* Dialling                                                                *)

\* ExtensionAliases::resolve.
Resolve(t) == IF t \in DOMAIN Alias THEN Alias[t] ELSE t

\* is_valid_dial_target: the browser dials digits, an extension's name is not one.
Dialable(t) == t \notin Name

\* classify_dial_target: the NGN is asked for what was dialled, not for its alias.
Classify(t) ==
    IF Contains(present, Resolve(t)) THEN [to |-> "Internal", aor |-> Resolve(t)] ELSE [to |-> "Ngn", aor |-> t]

\* Mutant: only what was dialled is compared with the caller.
SelfByName(by, t) == t = by
\* handle_invite: the caller itself, by name or alias.
IsSelf(by, t) == Resolve(t) = by \/ t = by

\* UasEventHandler::handle_invite; an extension is never dialled through the NGN
\* while it is there.
ExtensionDials(by, t) ==
    /\ started /\ Quiet /\ Contains(present, by)
    /\ dialled' = [by |-> by, kind |-> "Sip", target |-> t,
                   to |-> IF IsSelf(by, t) THEN "480"
                          ELSE IF Classify(t).to = "Internal" /\ ~IntercomOn THEN "480" ELSE Classify(t).to,
                   aor |-> Classify(t).aor]
    /\ UNCHANGED <<rules, started, present, incoming>>

\* handle_pwa_outbound_offer_impl: with the intercom off everything is the NGN's.
BrowserDials(by, t) ==
    /\ started /\ Quiet /\ Contains(present, by)
    /\ dialled' = [by |-> by, kind |-> "Web", target |-> t,
                   to |-> IF ~Dialable(t) THEN "invalid_target"
                          ELSE IF IntercomOn THEN Classify(t).to ELSE "Ngn",
                   aor |-> IF IntercomOn THEN Classify(t).aor ELSE t]
    /\ UNCHANGED <<rules, started, present, incoming>>

Rule == [priority : {0, 1}, days : {NotGiven} \cup {CHOOSE d \in Weekday : TRUE}, span : Spans,
         from : {NotGiven} \cup {CHOOSE n \in Number : TRUE}, fork : {<<>>, Reverse(SetToSeq(Name))}]

RoutingNext ==
    \/ ~started /\ \E r \in Rule, q \in {s \in Rule : s.span = AnyTime /\ s.days = NotGiven} :
           \E rs \in {<<>>, <<r>>, <<r, q>>} : LoadRules(rs)
    \/ \E d \in Weekday, h \in 0..Hours - 1, n \in Number : CallComesIn(d, h, n)
    \/ \E a \in Name : Appear(a) \/ Leave(a)
    \/ \E by \in Name, t \in Name \cup DOMAIN Alias \cup Number : ExtensionDials(by, t) \/ BrowserDials(by, t)
-----------------------------------------------------------------------------
RoutingTypeOK ==
    /\ Range(present) \subseteq Name
    /\ incoming.rule \in 0..Len(rules)
    /\ dialled.to \in {"None", "480", "invalid_target", "Internal", "Ngn"}

\* Hours that pass from start to h, the day being a circle.
Since(start, h) == (h + Hours - start) % Hours

\* What a rule means, without an order of evaluation: of the rules whose day, span
\* and caller fit, the one no other goes before; its extensions that are there, as it
\* names them; and everyone if no rule fits.  A span is the hours from its start that
\* are fewer than its length.
RoutedAsWritten ==
    LET fits == {i \in DOMAIN rules :
                    /\ rules[i].days \in {NotGiven, incoming.day} /\ rules[i].from \in {NotGiven, incoming.from}
                    /\ rules[i].span # AnyTime =>
                           Since(rules[i].span[1], incoming.hour) < Since(rules[i].span[1], rules[i].span[2])}
        first == {i \in fits : \A j \in fits \ {i} :
                    rules[j].priority < rules[i].priority \/ (rules[j].priority = rules[i].priority /\ i < j)}
    IN incoming # NoCall =>
        IF fits = {} THEN incoming.rung = present
        ELSE /\ first = {incoming.rule}
             /\ \A a \in Name : Contains(incoming.rung, a)
                    <=> Contains(rules[incoming.rule].fork, a) /\ Contains(present, a)
             /\ IsPrefix(incoming.rung, Filter(incoming.rung, rules[incoming.rule].fork))

\* A call between extensions stays in the house: an extension's call to one that is
\* there, by its name or an alias, does not go to the NGN, nobody calls himself by
\* SIP, and what does go to the NGN is what was dialled.
StaysInTheHouse ==
    /\ dialled.to = "Ngn" => dialled.aor = dialled.target
    /\ dialled.kind = "Sip" => /\ dialled.to = "Ngn" => ~Contains(present, Resolve(dialled.target))
                               /\ dialled.to = "Internal" => dialled.aor # dialled.by
    /\ dialled.to = "Internal" => Contains(present, dialled.aor)
=============================================================================
