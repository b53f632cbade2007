------------------------------ MODULE MCIngest ------------------------------
(***************************************************************************)
(* Small instance of Ingest for TLC: two timeframes, two years, two        *)
(* versions.  One content is enough: a file that is replaced is Partial in *)
(* between, which no manifest records.                                     *)
(***************************************************************************)
EXTENDS Ingest

CONSTANTS s1, s2, v1, v2, c1

MCStack == <<"1m", "1h">>

\* An ingest of a derived and a base series, and a backfill of both symbols:
\* requests that share a symbol, a series, or years of one.
MCIngestRequests == {{<<s1, "1h">>, <<s2, "1m">>}}
MCBackfillRequests == {{s1}, {s1, s2}}

Symmetry == Permutations({v1, v2})
=============================================================================
