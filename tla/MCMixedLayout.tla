---------------------------- MODULE MCMixedLayout ----------------------------
\* Model-checking instance of MixedLayout: everything is in the .cfg files.
EXTENDS MixedLayout
=============================================================================
