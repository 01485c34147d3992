---------------------------- MODULE MCPluginClient ----------------------------
(***************************************************************************)
(* Model checking of PluginClient.                                         *)
(***************************************************************************)
EXTENDS PluginClient, TLC

\* Either the commands that touch the credentials meet each other, or two hooks
\* run: while the user signs in as somebody else, or while the access token
\* lapses and the machine is given a service credential.
Counted == {"call", "hook", "login", "logout", "set", "unset", "change", "age"}

Plan(counts) == [c \in Counted |-> IF c \in DOMAIN counts THEN counts[c] ELSE 0]

MCPlans == {Plan([call |-> 2, login |-> 1, logout |-> 1, set |-> 1, unset |-> 1, age |-> 2]),
            Plan([hook |-> 2, login |-> 1, change |-> 2]),
            Plan([hook |-> 2, set |-> 1, change |-> 1, age |-> 1])}

\* The processes are interchangeable.
MCSymmetry == Permutations(Procs)

=============================================================================
