------------------------------- MODULE MCPlans -------------------------------
(* An instance of Plans for TLC. *)
EXTENDS Plans

\* The storage of the free and the Pro plan, the Pro plan itself, and the defaults.
MCFeatures == {"cloud_storage", "file_sharing"}
MCRows == {<<"basic", "cloud_storage">>, <<"pro", "cloud_storage">>}
MCPlans == {"pro"}

\* Nothing, no limit, and a storage limit with the file size left to the default.
MCHandMade == [c \in Codes |->
    IF c = "cloud_storage" THEN {Empty, Storage(Null, Junk), [max_storage_mb |-> -1]} ELSE {Empty}]
=============================================================================
