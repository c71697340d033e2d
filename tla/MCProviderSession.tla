-------------------------- MODULE MCProviderSession --------------------------
(* Small instances of ProviderSession; every bound is a constant of it.    *)
EXTENDS ProviderSession
=============================================================================
