---------------------------- MODULE MCAdminCommands ----------------------------
(***************************************************************************)
(* Two operators on a server with two tenants of one device each.  Both    *)
(* secure and provision; one of them also exports and checks the tokens.   *)
(***************************************************************************)
EXTENDS AdminCommands

MCTenants == {"heliostat", "other"}
MCDevices == {"boreas", "zephyr"}
MCHome == [d \in MCDevices |-> IF d = "boreas" THEN "heliostat" ELSE "other"]
MCTurbines == <<"boreas">>
MCSubsystems == <<"bearing">>
MCDuties == [o \in {"a", "b"} |-> IF o = "a" THEN {"secure", "provision"}
                                  ELSE {"secure", "provision", "export", "check"}]
===============================================================================
