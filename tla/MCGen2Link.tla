------------------------------- MODULE MCGen2Link ------------------------------
(* The instance of Gen2Link that is model-checked: the logon session, which *)
(* may be started twice and become the guard, and the retry session.        *)
EXTENDS Gen2Link

MCManual == {}
=============================================================================
