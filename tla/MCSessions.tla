----------------------------- MODULE MCSessions -----------------------------
EXTENDS Sessions

MCQueries == {"query"}
MCMutations == {"mutation"}
MCSignOuts == {"button"}
=============================================================================
