---------------------------- MODULE MCProposalBatch ----------------------------
EXTENDS ProposalBatch

\* A governor's lifecycle, less the states that make no difference to a batch:
\* one that is left again, and one end - the one the cache knows in the run
\* that passes, one that it does not know in the other.
MCMoves == {<<"none", "Active">>, <<"Active", "Executed">>}
MCMovesToCanceled == {<<"none", "Active">>, <<"Active", "Canceled">>}
=============================================================================
