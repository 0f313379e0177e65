---------------------------- MODULE AtomicSettings ----------------------------
(***************************************************************************)
(* What a settings change promises (SettingsTransaction, apply_settings    *)
(* patch): the settings that survive a restart change as one, a request    *)
(* answered "saved" has taken effect, a request answered "rejected" has    *)
(* not, and only a request without a definite answer may have done either. *)
(***************************************************************************)
EXTENDS Naturals

CONSTANTS Targets, None

VARIABLES
    settings,   \* target -> the generation that survives a restart
    asked,      \* the request being served: [base, want], or None
    reply       \* how the last request ended

vars == <<settings, asked, reply>>

Init ==
    /\ settings = [t \in Targets |-> 0]
    /\ asked = None
    /\ reply = "none"

Ask ==
    /\ asked = None
    /\ asked' \in [base : {settings}, want : [Targets -> Nat]]
    /\ reply' = "none"
    /\ UNCHANGED settings

\* While the request is served the settings may go over, and back.
TakeEffect ==
    /\ asked # None
    /\ settings' \in {asked.base, asked.want}
    /\ UNCHANGED <<asked, reply>>

\* The answer; a request that ends without a definite one may still go over, or back.
Answer ==
    /\ asked # None
    /\ reply' \in {"saved", "rejected", "recovery", "crashed"}
    /\ settings' \in {asked.base, asked.want}
    /\ reply' = "saved" => settings' = asked.want
    /\ reply' = "rejected" => settings' = asked.base
    /\ asked' = None

\* A single value learnt outside a request.
Learn ==
    /\ asked = None
    /\ settings' \in [Targets -> Nat]
    /\ \E t \in Targets : settings' = [settings EXCEPT ![t] = settings'[t]]
    /\ UNCHANGED <<asked, reply>>

Next == Ask \/ TakeEffect \/ Answer \/ Learn

Spec == Init /\ [][Next]_vars
===============================================================================
