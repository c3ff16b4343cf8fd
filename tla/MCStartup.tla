----------------------------- MODULE MCStartup -----------------------------
(* Two API processes start with everything asked for by the settings or with *)
(* nothing, against one account of each provider.                            *)
EXTENDS Startup

AllOrNothing == {{"hh", "avito", "operator"}, {}}

=============================================================================
