---------------------------- MODULE MCModuleClient ----------------------------
EXTENDS ModuleClient

\* No bounds, a start, and a start and an end.
MCBounds == {<<0, 0>>, <<2, 0>>, <<1, 4>>}

=============================================================================
