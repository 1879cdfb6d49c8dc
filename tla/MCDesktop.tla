----------------------------- MODULE MCDesktop ------------------------------
(***************************************************************************)
(* Model values for Desktop: the window sends the default configuration,   *)
(* one with both flags set, and one that Config::validate refuses.         *)
(***************************************************************************)
EXTENDS Desktop

MCInputs == {default_config,
             [default_config EXCEPT !.login = TRUE, !.quit = TRUE],
             [default_config EXCEPT !.wellFormed = FALSE]}

=============================================================================
