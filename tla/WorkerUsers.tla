---------------------------- MODULE WorkerUsers ----------------------------
(* Who the personal product serves, and the value that stands for null.    *)
CONSTANTS Users, None

ASSUME UserAssumption == None \notin Users

Maybe(S) == S \cup {None}
=============================================================================
