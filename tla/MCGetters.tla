----------------------------- MODULE MCGetters -----------------------------
EXTENDS ReceiveGetters

\* One version on either side of every gate of setupRecipes.
GateVersions == {<<3, 3, 0>>, <<3, 4, 0>>, <<3, 11, 0>>, <<3, 15, 0>>,
                 <<5, 2, 0>>, <<5, 4, 0>>, <<5, 5, 0>>, <<5, 5, 1>>, <<5, 11, 0>>}
=============================================================================
