------------------------------ MODULE MCHost ------------------------------
(* Small instances, for model checking, of what a host keeps around its     *)
(* chat clients: who is signed in, the connections of that user, and the    *)
(* conversations cached for him.  They share no state, so one of them moves *)
(* in a behavior (part) and the others stay in their initial state.         *)
EXTENDS AuthClient, ManagerClient, MCConversationCache, TLC

CONSTANTS q1, q2, q3, x, y

VARIABLE part

-----------------------------------------------------------------------------
(* What the host does with an AuthClient: the calls it makes, whether it    *)
(* gives it a store, which may fail, and whether somebody is signed in.     *)

SignsIn == [ops |-> {"login", "restore"}, store |-> TRUE, storeFails |-> FALSE,
            signedIn |-> FALSE, tokens |-> 2]

Selects == [SignsIn EXCEPT !.ops = {"login", "select", "restore", "dispose"}, !.store = FALSE]

\* Accounts of which one is kept in the store.
Switches == [SignsIn EXCEPT !.ops = {"switch", "restore"}, !.signedIn = TRUE]

\* A page that is opened again and renews a session it finds in the store.
Reopens == [Switches EXCEPT !.ops = {"restore", "refresh", "restart", "invalidate"},
                            !.tokens = 3]

\* Requests that find their session expired, again and again, and while the
\* account is switched.
Expiring == [Switches EXCEPT !.ops = {"retry"}, !.store = FALSE, !.tokens = 3]
Requesting == [Expiring EXCEPT !.ops = {"retry", "switch"}, !.tokens = 2]

\* A store that fails while a session is renewed or given up.
Failing == [Switches EXCEPT !.ops = {"session", "refresh", "logout", "restore"},
                            !.storeFails = TRUE]

HostSetups == {SignsIn, Selects, Switches, Reopens, Expiring, Requesting, Failing}

-----------------------------------------------------------------------------
hostVars == <<part, authVars, managerVars, cacheVars>>

\* What does not move has one initial state.  The ManagerClient is made for x.
HostInit ==
    /\ part \in {"auth", "manager", "cache"}
    /\ AuthInit /\ (part # "auth" => authSetup = Requesting)
    /\ ManagerInit /\ identity.who = x
    /\ CacheInit /\ (part # "cache" => setup = Sharing)

HostNext ==
    \/ part = "auth" /\ AuthNext /\ UNCHANGED <<part, managerVars, cacheVars>>
    \/ part = "manager" /\ ManagerNext /\ UNCHANGED <<part, authVars, cacheVars>>
    \/ part = "cache" /\ CacheNext /\ UNCHANGED <<part, authVars, managerVars>>

HostSpec == HostInit /\ [][HostNext]_hostVars

\* Calls are interchangeable.
Symmetry == Permutations(AuthCalls)

=============================================================================
