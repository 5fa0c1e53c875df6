------------------------------- MODULE Access -------------------------------
(***************************************************************************)
(* Who gets in, and what administrators set: the accounts and the tokens   *)
(* the API signs, the session the mini program keeps with one of them, and *)
(* the system configuration in the administrators' forms.  They share no   *)
(* variable, so a run examines one of them.                                *)
(***************************************************************************)
EXTENDS Accounts, Session, SystemConfig

VARIABLE part  \* what is examined

accessVars == <<accountsVars, sessionVars, configVars, part>>

\* The parts that are not examined stay as they are: a player with a good session.
Init ==
    /\ AccountsInit /\ SessionInit /\ ConfigInit
    /\ part \in {"accounts", "session", "config"} /\ (part # "session" => token = "good")

KeepsAccounts == part = "accounts" /\ AccountsNext /\ UNCHANGED <<sessionVars, configVars, part>>
KeepsASession == part = "session" /\ SessionNext /\ UNCHANGED <<accountsVars, configVars, part>>
KeepsTheConfig == part = "config" /\ ConfigNext /\ UNCHANGED <<accountsVars, sessionVars, part>>
Next == KeepsAccounts \/ KeepsASession \/ KeepsTheConfig

Spec == Init /\ [][Next]_accessVars

\* The parts that are not examined have nothing to do.
FairSpec == Spec /\ AccountsFairness /\ SessionFairness /\ SF_sessionVars(part = "session" /\ OnShow)

----------------------------------------------------------------------------
(* Properties *)

\* The three parts' state is well-formed.
TypeOK == AccountsTypeOK /\ SessionTypeOK /\ ConfigTypeOK
=============================================================================
