----------------------------- MODULE LedgerClock -----------------------------
(* What the ledger of a Space and the budget of a deployment have in common: *)
(* the clock of their host, the month it is in, the requests they account    *)
(* for and the outcomes these can have.                                      *)
EXTENDS Integers, FiniteSets

CONSTANTS
  MonthLength,  \* ticks of the clock in a month
  Deadlines,    \* bound: the authorityExpiresAtMs values callers bring
  MaxClock      \* bound: the last tick of the clock

VARIABLE clock  \* Date.now()

Kinds == {"memory_ingest", "memory_search"}
Terminal == {"accepted", "unknown", "read_failed", "not_dispatched"}

(* A table with one more row, or with a row replaced. *)
WithRow(table, key, row) ==
  [k \in DOMAIN table \cup {key} |-> IF k = key THEN row ELSE table[k]]

Earliest(s, t) == IF s <= t THEN s ELSE t
Month(t) == t \div MonthLength
==============================================================================
