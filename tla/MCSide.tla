-------------------------------- MODULE MCSide --------------------------------
(***************************************************************************)
(* Side for TLC: two clients that may share an address or an identity,     *)
(* role and extension files with a clash each.                             *)
(***************************************************************************)
EXTENDS Side, TLC

MCBanDurations == {-1, 2}
MCSymmetry == Permutations(Clients)
MCPenalties == {-1, 11}
MCAmbienceOf == [b \in Backgrounds |-> CHOOSE s \in Sounds : TRUE]

MCCommands ==
  ("setperms" :> {"modify_users"}) @@ ("removeperms" :> {"modify_users"})
    @@ ("reload" :> {"super"})
MCUpper == ("mod" :> "MOD") @@ ("MOD" :> "MOD") @@ ("SUPER" :> "SUPER") @@ ("NONE" :> "NONE")
Group(n, P) == [name |-> n, permissions |-> P]
MCRoleFiles ==
  {<<>>,
   <<Group("MOD", {"modify_users"}), Group("NONE", {"super"})>>,
   <<Group("MOD", {}), Group("mod", {"super"})>>}
Extension(cmd, A, P) == [command |-> cmd, aliases |-> A, permissions |-> P]
MCExtensionFiles ==
  {<<>>,
   <<Extension("reload", {"again"}, {"modify_users", "typo"}),
     Extension("setperms", {"again", "rank"}, {}),
     Extension("unknown", {"rank"}, {"none"})>>}
=============================================================================
