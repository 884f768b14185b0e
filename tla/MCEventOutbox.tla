--------------------------- MODULE MCEventOutbox ---------------------------
(***************************************************************************)
(* EventOutbox for TLC: two dispatchers, so that a lapsed lease lets one   *)
(* overtake the other, two handlers, so that a delivery can fail half way, *)
(* and two attempts, so that a retry and a dead letter both occur.  Beside *)
(* it the sign-in of one account and the catalogue of packages, whose rows *)
(* no event touches: part says which of them a behaviour exercises.        *)
(***************************************************************************)
EXTENDS EventOutbox, AuthFactors, TourPackages, TLC

VARIABLE part

Symmetry == Permutations(Events) \cup Permutations(Handlers) \cup Permutations(Dispatchers)

Parts == {"outbox", "lockout", "factors", "catalogue", "programme"}

(* An account has a second factor or not, and its role requires one or     *)
(* not; a guesser meets one that has it or has to set it up.               *)
MCInit ==
    /\ part \in Parts
    /\ Init /\ AuthInit /\ PackagesInit
    /\ part \notin {"lockout", "factors"} => ~acct.mfa /\ ~acct.required
    /\ part = "lockout" => acct.mfa # acct.required

MCNext ==
    \/ part = "outbox" /\ Next /\ UNCHANGED <<part, authVars, packageVars>>
    \/ part = "lockout" /\ LockoutNext /\ UNCHANGED <<part, vars, packageVars>>
    \/ part = "factors" /\ FactorNext /\ UNCHANGED <<part, vars, packageVars>>
    \/ part = "catalogue" /\ CatalogueNext /\ UNCHANGED <<part, vars, authVars>>
    \/ part = "programme" /\ AskProgramme /\ UNCHANGED <<part, vars, authVars>>

MCSpec == MCInit /\ [][MCNext]_<<part, vars, authVars, packageVars>>

-----------------------------------------------------------------------------
(* The catalogue holds together while desks edit it: a package keeps its   *)
(* tiers and whom it is for, a programme is stable under another save, the *)
(* costs an agent does not see stay with it, and its figures are those of  *)
(* its rows (SetPackageTiers, NormalizeSpec, KeepVisaNets).                *)
CatalogueHolds ==
    part \in {"catalogue", "programme"} =>
      PackagesTypeOK /\ CatalogueCoherent /\ ProgrammeStable /\ CostsKept /\ FiguresHonest
=============================================================================
