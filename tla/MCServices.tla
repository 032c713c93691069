------------------------------ MODULE MCServices ------------------------------
(***************************************************************************)
(* Finite instances of the services that run as tasks of their own and do  *)
(* not share state with one another.  A behaviour is a behaviour of one of *)
(* them, the one in focus.                                                 *)
(***************************************************************************)
EXTENDS PwaCall, NgnRegistration, ExtensionUas, InternalCall, Recording,
        MidCall

VARIABLE focus

vars == <<focus, pwaVars, regVars, uasVars, internalVars, recVars, midVars>>

Init ==
    /\ focus \in {"Pwa", "Reg", "Uas", "Internal", "Rec", "MidCall"}
    /\ PwaInit
    /\ RegInit
    /\ UasInit
    /\ InternalInit
    /\ RecInit
    /\ MidInit

PwaStep(A) ==
    /\ focus = "Pwa" /\ A
    /\ UNCHANGED <<focus, regVars, uasVars, internalVars, recVars, midVars>>
RegStep(A) ==
    /\ focus = "Reg" /\ A
    /\ UNCHANGED <<focus, pwaVars, uasVars, internalVars, recVars, midVars>>
UasStep(A) ==
    /\ focus = "Uas" /\ A
    /\ UNCHANGED <<focus, pwaVars, regVars, internalVars, recVars, midVars>>
InternalStep(A) ==
    /\ focus = "Internal" /\ A
    /\ UNCHANGED <<focus, pwaVars, regVars, uasVars, recVars, midVars>>
RecStep(A) ==
    /\ focus = "Rec" /\ A
    /\ UNCHANGED <<focus, pwaVars, regVars, uasVars, internalVars, midVars>>
MidCallStep(A) ==
    /\ focus = "MidCall" /\ A
    /\ UNCHANGED <<focus, pwaVars, regVars, uasVars, internalVars, recVars>>

Next ==
    \/ PwaStep(PwaNext)
    \/ RegStep(RegNext)
    \/ UasStep(UasNext)
    \/ InternalStep(InternalNext)
    \/ RecStep(RecNext)
    \/ MidCallStep(MidNext)

\* Every task runs while it can, and time passes for a task that sleeps.  A
\* deadline that has passed is ready whenever its select! is polled, and select!
\* chooses among the ready branches at random.  Only the tasks of the component
\* in focus are ever enabled, so one formula does for a task of each of them.
FirstTask ==
    \/ \E s \in Session : PwaStep(RecvRuns(s))
    \/ RegStep(RegTask)
    \/ UasStep(PurgeTask)
    \/ \E c \in InternalId : InternalStep(InternalTask(c))
    \/ \E r \in Rec : RecStep(RecTask(r))
    \/ \E t \in Chore : MidCallStep(MidStep(t))

SecondTask ==
    \/ \E s \in Session : PwaStep(KeepRuns(s))
    \/ RegStep(RegTick)
    \/ UasStep(RegisterTask)
    \/ \E r \in Rec : RecStep(StopTask(r))

Fairness ==
    /\ WF_vars(FirstTask)
    /\ WF_vars(SecondTask)
    /\ \A r \in Rec : SF_vars(RecStep(RecDeadline(r)))

Spec == Init /\ [][Next]_vars /\ Fairness

TypeOK ==
    /\ PwaTypeOK
    /\ RegTypeOK
    /\ UasTypeOK
    /\ InternalTypeOK
    /\ RecTypeOK
    /\ MidTypeOK

\* The calls of the browsers are in the tables exactly while they exist (PwaCall),
\* and requests reach the NGN's dialog in the order of their numbers, whichever
\* task sends them (MidCall).
CallsKept == PwaCallsKept /\ NgnInOrder

\* The gateway registers with the NGN again and again, whatever the answers
\* (NgnRegistration), and its own count of registered extensions catches up with
\* the bindings (ExtensionUas).
RegistrationsKept == RegistrationKept /\ ExtGaugeCatchesUp
=============================================================================
