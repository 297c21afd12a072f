------------------------------- MODULE Tables -------------------------------
\* A table, or a dictionary of the program, is a function from keys to rows. (The
\* operators :> and @@ of TLC would say the same, but the proof system does not
\* know them.)

\* INSERT, ON CONFLICT DO UPDATE, or table[key] = row: the row is added or
\* replaces the one under its key.
With(table, key, row) ==
  [k \in {key} \union DOMAIN table |-> IF k = key THEN row ELSE table[k]]
=============================================================================
