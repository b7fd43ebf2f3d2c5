------------------------------- MODULE Bisect -------------------------------
(***************************************************************************)
(* Binary search: index_lower_bound of _native.c, and the plain form of    *)
(* Rust's slice::partition_point.                                          *)
(***************************************************************************)
EXTENDS Integers

\* One probe of a search that has narrowed the answer down to p[1] .. p[2].
Halved(p, yes) ==
  LET m == (p[1] + p[2]) \div 2
  IN IF p[1] = p[2] THEN p
     ELSE IF m + 1 \in yes THEN <<m + 1, p[2]>> ELSE <<p[1], m>>

\* How many of n elements come first and satisfy the predicate, yes the indexes of
\* those that do (n probes are enough).  On elements the predicate does not
\* partition it still answers an index.
PartitionPoint(n, yes) ==
  LET ends[k \in 0 .. n] == IF k = 0 THEN <<0, n>> ELSE Halved(ends[k - 1], yes)
  IN ends[n][1]
=============================================================================
