--------------------------- MODULE MCWidgetSystem ---------------------------
EXTENDS WidgetSystem

\* Builds are only ever compared for equality.
BuildSymmetry == Permutations(Builds)
=============================================================================
