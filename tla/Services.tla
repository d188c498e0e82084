------------------------------ MODULE Services ------------------------------
(***************************************************************************)
(* The services beside the credits and the vault, and the credits as a     *)
(* whole.  They share no state, so a behaviour is of one of them, the      *)
(* focus, while the others rest.                                           *)
(***************************************************************************)
EXTENDS CreditsSystem, GasBank, PublishApproval, Sponsorship, WalletLogin

CONSTANT Focus

VARIABLE focus

servicesVars == <<focus, systemVars, bankVars, publishVars, sponsorVars, loginVars>>

ServicesInit ==
  /\ focus \in Focus
  /\ SystemInit /\ BankInit /\ PublishInit /\ SponsorInit /\ LoginInit
  /\ focus = "publish" \/ app = NoRow

ServicesNext ==
  \/ focus = "system" /\ SystemNext
     /\ UNCHANGED <<focus, bankVars, publishVars, sponsorVars, loginVars>>
  \/ focus = "bank" /\ BankNext
     /\ UNCHANGED <<focus, systemVars, publishVars, sponsorVars, loginVars>>
  \/ focus = "publish" /\ PublishNext
     /\ UNCHANGED <<focus, systemVars, bankVars, sponsorVars, loginVars>>
  \/ focus = "sponsor" /\ SponsorNext
     /\ UNCHANGED <<focus, systemVars, bankVars, publishVars, loginVars>>
  \/ focus = "login" /\ LoginNext
     /\ UNCHANGED <<focus, systemVars, bankVars, publishVars, sponsorVars>>

ServicesSpec == ServicesInit /\ [][ServicesNext]_servicesVars

-----------------------------------------------------------------------------
\* Correctness: the properties of the services, and that the variables of each
\* have their types.
TypeOK ==
  /\ focus \in Focus
  /\ SystemTypeOK /\ BankTypeOK /\ PublishTypeOK /\ SponsorTypeOK /\ LoginTypeOK
=============================================================================
