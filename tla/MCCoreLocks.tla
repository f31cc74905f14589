---------------------------- MODULE MCCoreLocks ----------------------------
(***************************************************************************)
(* CoreLocks with the export of a backup, which takes audit_log before     *)
(* identity, beside the setting of the nickname and the maintenance.       *)
(***************************************************************************)
EXTENDS CoreLocks

MCCallsOf ==
    [t \in Threads |-> CASE t = "app"     -> {"export_backup"}
                         [] t = "service" -> {"set_nickname", "maintenance"}]
=============================================================================
