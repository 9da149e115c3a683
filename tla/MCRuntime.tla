------------------------------ MODULE MCRuntime ------------------------------
EXTENDS RuntimeProperties

\* An engine whose state is a digest of the commands applied, in order: it
\* tells a missed, repeated or swapped command apart.
DigestModulus == 729
Digests == 0 .. DigestModulus - 1
Digest(e, c) == (3 * e + (IF c = "trade" THEN 1 ELSE 2)) % DigestModulus
DigestApply(e, c) ==
  [engine |-> Digest(e, c), batch |-> IF c = "trade" THEN Digest(e, c) ELSE None]
=============================================================================
