----------------------------- MODULE AccessMatrix -----------------------------
(***************************************************************************)
(* The access matrix (security/mod.rs) with the calls that reach it, and   *)
(* login and logout, which change the domain a task acts in (dispatch.rs). *)
(* Each call is one step: the matrix is used under its lock.  Rights are   *)
(* sets; an access-list entry with no rights is the same as none.          *)
(***************************************************************************)
EXTENDS Integers

CONSTANTS Task, Domain, Object, Right,
          Owner, Control, Copy,   \* the rights that govern the others
          RoleRights,    \* what the role of each domain gives it on all objects
          InitAcl,       \* set_rights at boot
          Password, Secret  \* what tasks may enter, and what is right for a domain

ASSUME MatrixAssumption ==
    /\ {Owner, Control, Copy} \subseteq Right
    /\ 0 \in Domain
    /\ RoleRights \in [Domain -> SUBSET Right]
    /\ InitAcl \in [Domain -> [Object -> SUBSET Right]]

VARIABLES acl,   \* the access lists
          uid    \* the domain of each task

vars == <<acl, uid>>

TypeOK == acl \in [Domain -> [Object -> SUBSET Right]] /\ uid \in [Task -> Domain]

Init == acl = InitAcl /\ uid = [t \in Task |-> 0]

\* access: the list and the role together.
Access(d, o) == acl[d][o] \cup RoleRights[d]

\* Mutant: a holder of Copy passes on what it does not have.
MayGrantAny(d, o, rights) ==
    {Owner, Control} \cap Access(d, o) # {} \/ Copy \in Access(d, o)

\* What grant checks: owner or control, or copy of what one has.
MayGrant(d, o, rights) ==
    \/ {Owner, Control} \cap Access(d, o) # {}
    \/ Copy \in Access(d, o) /\ rights \subseteq Access(d, o)

Grant(t, d, o, rights) ==
    /\ MayGrant(uid[t], o, rights)
    /\ acl' = [acl EXCEPT ![d][o] = @ \cup rights]
    /\ UNCHANGED uid

\* Mutant: revoke takes the rights from all domains' lists of all objects.
RevokeEverywhere(t, d, o, rights) ==
    /\ {Owner, Control} \cap Access(uid[t], o) # {}
    /\ acl' = [e \in Domain |-> [b \in Object |-> acl[e][b] \ rights]]
    /\ UNCHANGED uid

Revoke(t, d, o, rights) ==
    /\ {Owner, Control} \cap Access(uid[t], o) # {}
    /\ acl' = [acl EXCEPT ![d][o] = @ \ rights]
    /\ UNCHANGED uid

\* login checks the password of the domain in auth.db.
Login(t, d, pw) ==
    /\ pw = Secret[d]
    /\ uid' = [uid EXCEPT ![t] = d]
    /\ UNCHANGED acl

Logout(t) == uid' = [uid EXCEPT ![t] = 0] /\ UNCHANGED acl

Next ==
    \E t \in Task :
        \/ Logout(t)
        \/ \E d \in Domain :
              \/ \E pw \in Password : Login(t, d, pw)
              \/ \E o \in Object, rights \in SUBSET Right : Grant(t, d, o, rights) \/ Revoke(t, d, o, rights)

Spec == Init /\ [][Next]_vars
-----------------------------------------------------------------------------
\* Nobody governs object o: no domain is its owner or controls it.
Ungoverned(o) == \A d \in Domain : {Owner, Control} \cap Access(d, o) = {}

\* The rights that some domain has on o.
Present(o) == UNION {Access(d, o) : d \in Domain}

\* An object that nobody governs gets no new rights and no governor: holders of
\* copy pass on what is there, in any number of steps through any domains.
RightsAreConserved ==
    \A o \in Object :
        (\A d \in Domain : {Owner, Control} \cap (InitAcl[d][o] \cup RoleRights[d]) = {})
            => /\ Ungoverned(o)
               /\ Present(o) = UNION {InitAcl[d][o] \cup RoleRights[d] : d \in Domain}

\* Rights on an object are taken away by a domain that governs it, from no other
\* object: what another task or domain may do there is not disturbed.
OnlyGovernedShrinks ==
    [][\A d \in Domain, o \in Object : ~(acl[d][o] \subseteq acl'[d][o]) => ~Ungoverned(o)]_vars
=============================================================================
