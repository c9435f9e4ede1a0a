------------------------------- MODULE MCConsole -------------------------------
(***************************************************************************)
(* The console: its records and the ways an account comes in.  The         *)
(* instance has two of what must be told apart, rings and windows of two,  *)
(* so that they wrap, and one saver, as two write torn files.              *)
(***************************************************************************)
EXTENDS ConsoleRecords, ConsoleLogins, TLC

ConsoleInit == part \in Parts /\ RecordsInit /\ LoginsInit
ConsoleNext == RecordsNext /\ LoginsNext
ConsoleSpec == ConsoleInit /\ [][ConsoleNext]_<<part, records, logins>>

\* Each component's variables keep their types.
ConsoleTypeOK == RecordsTypeOK /\ LoginsTypeOK

----------------------------------------------------------------------------
(* The instance                                                            *)

AllParts == {"statistics", "keys", "models", "stored", "microsoft", "hosted", "import"}

Report(provider, ip, status, outcome) ==
    [provider |-> provider, account |-> IF provider = "pool" THEN "x" ELSE None, route |-> "r",
     ip |-> ip, status |-> status, outcome |-> outcome]
Reports == {Report("q", "a", 200, "success"), Report("q", "b", 200, "canceled"), Report("pool", "a", 500, "failed")}

Fails  == {{"fail"}, {"settings"}}
Sweeps == {{"sweep", "switch"}, {"fetch", "switch", "reload"}, {"fetch", "ban", "sweep"},
           {"delete", "fetch", "switch", "reload"}, {"edit", "fetch"}, {"edit", "switch"}}
Ages   == {{"expire"}, {"toggle"}, {"legacy", "fail"}}
WaysIn == {{"import", "fail"}, {"import", "edit"}, {"login", "fail"}, {"login", "keys"}, {"local"}, {"import", "pin"}}

\* Callers, logins and the values of keys are interchangeable.
Interchangeable ==
    {f @@ g : f \in Permutations(Callers), g \in Permutations(Logins)} \cup Permutations(KeyValues)
================================================================================
