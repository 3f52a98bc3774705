--------------------------- MODULE MCRouteSelection ---------------------------
\* Instance of RouteSelection for TLC: every chunk of up to seven two-bit
\* values, so that deltas wrap and each gate can go either way.
EXTENDS RouteSelection

MCValue == 0..3

=============================================================================
