---------------------------- MODULE MCSimilarity ----------------------------
EXTENDS Similarity, TLC

CONSTANTS t1, t2, t3

\* t1 and t2 differ and are near each other; t3 is near only to itself.
NearTexts == {<<t, t>> : t \in Texts} \union {<<t1, t2>>, <<t2, t1>>}

Symmetry == Permutations(Invoices) \union Permutations({t1, t2}) \union Permutations(Models)
=============================================================================
