---------------------------- MODULE MCPrintJobs ----------------------------
(* Small instances of PrintJobs for TLC. *)
EXTENDS PrintJobs

CONSTANTS p, q, v, s1, s2, s3, j1, j2, c1, c2,
    C1Kinds, C2Kinds

Plain(spools) == [ver |-> 0, gross |-> None, parent |-> None, spools |-> spools]
Legacy(w) == [ver |-> 0, gross |-> w, parent |-> None, spools |-> <<>>]

\* A filament with a spool that has been used for a job and once by hand and a
\* spool that has not, and a roll from before there were spools.
Used == [id |-> s1, weight |-> 2,
         ledger |-> <<[job |-> j1, grams |-> 1, debited |-> 1],
                      [job |-> None, grams |-> 1, debited |-> 1]>>]
Fresh == [id |-> s2, weight |-> 1, ledger |-> <<>>]
UsedAndLegacy ==
    [f \in Fils |-> CASE f = p -> Plain(<<Used, Fresh>>) [] f = q -> Legacy(2) [] OTHER -> NoFil]
OneJob ==
    [j \in Jobs |-> IF j # j1 THEN NoRow
        ELSE [rows |-> <<[fil |-> p, spool |-> s1, grams |-> 1, debited |-> 1]>>, live |-> TRUE]]

Use(f, s, g) == [fil |-> f, spool |-> s, grams |-> g]
\* One filament, with two rows of one spool that ask for more than there is and one
\* of the other, or both filaments.
OneOrBoth ==
    {<<Use(p, s1, 1), Use(p, s1, 2), Use(p, s2, 1)>>, <<Use(p, None, 1), Use(q, None, 1)>>}

PerClient == [c \in Clients |-> IF c = c1 THEN C1Kinds ELSE C2Kinds]

=============================================================================
