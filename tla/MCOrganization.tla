---------------------------- MODULE MCOrganization ----------------------------
(* Two parts of what an organization holds: who belongs to it, and what of its *)
(* medical content leaves Seoul.  MedicalRoute takes the authority of a caller *)
(* as something that may end at any moment, so the two share no state and a    *)
(* behaviour is of one of them.  MedicalRoute has an ingest, its retry, and a  *)
(* search of the same Space, a call whose decision is locked to Seoul, and two *)
(* administrators; Accounts two subjects.                                      *)
EXTENDS MedicalRoute, Accounts, TLC

CONSTANTS c1, c2, c3, c4, o1, o2, o3, a1, a2, s1, s2

Medical == [classification |-> "medical", consent |-> TRUE, seoul |-> FALSE, destination |-> "none"]
Locked == [Medical EXCEPT !.seoul = TRUE]

MCCalls == {c1, c2, c3, c4}
MCKind == c1 :> "ingest" @@ c2 :> "ingest" @@ c3 :> "search" @@ c4 :> "search"
MCOperation == c1 :> o1 @@ c2 :> o1 @@ c3 :> o2 @@ c4 :> o3
MCContent == [c \in MCCalls |-> "text"]
MCDecision == [c \in MCCalls |-> IF c = c4 THEN Locked ELSE Medical]
MCAdmins == {a1, a2}
MCSubjects == {s1, s2}
MCSymmetry == Permutations(MCSubjects)

VARIABLE subject  \* the part this behaviour is of

Started == {c \in MCCalls : at[c] = "start"}

(* Fewer calls are calls that take no step, and a retry is never alone. *)
OrganizationInit ==
  /\ Init /\ AccountsInit
  /\ \/ subject = "accounts" /\ Started = {}
     \/ /\ subject = "content"
        /\ Cardinality(Started) = MaxStarted
        /\ c2 \in Started => c1 \in Started

OrganizationNext ==
  /\ UNCHANGED subject
  /\ \/ subject = "content" /\ Next /\ UNCHANGED accountVars
     \/ subject = "accounts" /\ AccountsNext /\ UNCHANGED vars

OrganizationSpec == OrganizationInit /\ [][OrganizationNext]_<<vars, accountVars, subject>>
===============================================================================
