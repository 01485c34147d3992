-------------------------- MODULE MCBrowserSession --------------------------
(* BrowserSession with two tabs, two users and two sign-ins.               *)
EXTENDS BrowserSession, TLC

CONSTANTS p1, p2, u1, u2, f1, f2

MCPages == {p1, p2}
MCUsers == {u1, u2}
MCFamilies == {f1, f2}
MCContracts == {TRUE, FALSE}
Names == Permutations(MCPages) \cup Permutations(MCUsers) \cup Permutations(MCFamilies)
=============================================================================
