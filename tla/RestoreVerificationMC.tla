----------------------- MODULE RestoreVerificationMC -----------------------
(***************************************************************************)
(* Instances of RestoreVerification for TLC: three tables in alphabetical  *)
(* order, so that assets are restored before the users they belong to and  *)
(* notifications after their assets.                                       *)
(***************************************************************************)
EXTENDS RestoreVerification

MCTables == <<"assets", "notifications", "users">>

MCParent == [t \in {"assets", "notifications", "users"} |->
                CASE t = "assets" -> "users"
                  [] t = "notifications" -> "assets"
                  [] OTHER -> Null]

MCRow(id, ref) == [id |-> id, ref |-> ref, content |-> 0]
MCRows(assets, notifications, users) ==
    [assets |-> assets, notifications |-> notifications, users |-> users]
MCBackup(rows, sentinels) ==
    [rows |-> rows, manifest |-> [t \in sentinels |-> First(rows[t])], fits |-> TRUE]

(* References in both directions of the order: needs the fallback. *)
MCOwned == MCBackup(MCRows({MCRow(1, 1)}, {MCRow(1, 1)}, {MCRow(1, Null), MCRow(2, Null)}),
                    {"assets", "users"})
(* Nobody owns the asset: restored with foreign keys on. *)
MCFree == MCBackup(MCRows({MCRow(1, Null)}, {MCRow(2, 1)}, {MCRow(1, Null)}),
                   {"assets", "notifications", "users"})
(* The asset of a notification is missing. *)
MCDangling == MCBackup(MCRows({MCRow(1, Null)}, {MCRow(1, 2)}, {}), {"assets"})
(* The first user changed between manifest and dump. *)
MCChanged == [MCFree EXCEPT !.manifest["users"].content = 1]
(* The only user went between manifest and dump. *)
MCGone == [MCFree EXCEPT !.rows["users"] = {}]
(* Another schema. *)
MCUnfit == [MCFree EXCEPT !.fits = FALSE]
(* An empty database. *)
MCNothing == MCBackup(MCRows({}, {}, {}), {})

MCArtifact == {MCOwned, MCFree, MCDangling, MCChanged, MCGone, MCUnfit, MCNothing}
MCTwoGood == {MCOwned, MCFree}
=============================================================================
