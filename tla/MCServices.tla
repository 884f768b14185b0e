---------------------------- MODULE MCServices ----------------------------
(***************************************************************************)
(* SessionCache and Sessions for TLC, side by side: they share no state,   *)
(* so each behaviour exercises one of them, which part names.              *)
(***************************************************************************)
EXTENDS SessionCache, TLC

VARIABLE part

MCInit ==
    /\ part \in {"cache", "sessions"}
    /\ Init
    /\ SessionsInit

MCNext ==
    \/ part = "cache" /\ Next /\ UNCHANGED <<part, sessionVars>>
    \/ part = "sessions" /\ SessionsNext /\ UNCHANGED <<part, vars>>

MCSpec == MCInit /\ [][MCNext]_<<part, vars, sessionVars>>

Symmetry == Permutations(Procs) \cup Permutations(Passwords)

(* Ids are interchangeable UUIDs: rows take the lowest free one.           *)
InOrder ==
    /\ \A s \in SessionIds : sess[s] # None => \A r \in SessionIds : r < s => sess[r] # None
    /\ \A t \in TokenIds : tok[t] # None => \A r \in TokenIds : r < t => tok[r] # None
=============================================================================
