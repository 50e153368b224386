----------------------------- MODULE MCDriveRun -----------------------------
(* Instances of DriveRun for TLC: both flags, or --db-load alone. *)
EXTENDS DriveRun

Both   == <<"db", "fuzz">>
DBOnly == <<"db">>
=============================================================================
