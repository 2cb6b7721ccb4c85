-------------------------- MODULE MCServiceRuntime --------------------------
(* Small instances of ServiceRuntime.                                      *)
EXTENDS ServiceRuntime

\* Two runners in the secrets service, one in the sink; the first has more
\* than one migration, as in the code.
FewMigrations == [secrets |-> <<2, 1>>, sink |-> <<1>>]

=============================================================================
