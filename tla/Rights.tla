-------------------------------- MODULE Rights --------------------------------
(***************************************************************************)
(* Who may run which command: ACLRolesHandler (the roles of a file),       *)
(* CommandExtensionCollection (aliases and permissions of another file),   *)
(* the role of each user in the database, AOClient::handleCommand and the  *)
(* commands that change any of it.                                         *)
(*                                                                         *)
(* The case manager's permission in the own area is Roster's matter.  Both *)
(* files are read at start-up and by /reload; a file that cannot be read   *)
(* leaves things as they are.  A failed write of the database is refused   *)
(* and changes nothing.  A role file says true of what it names.           *)
(***************************************************************************)
EXTENDS Presence, Sequences

CONSTANTS
  Captions,      \* the permissions but for none and super
  Commands,      \* AOClient::COMMANDS: the permissions each command asks for
  Words,         \* what players may type: commands and aliases
  RoleNames,     \* names of roles as they are written
  Upper,         \* the role each of them means
  NoRole,
  RoleFiles,     \* sequences of groups [name, permissions]
  ExtensionFiles,\* sequences of groups [command, aliases, permissions]
  SuperUserIds   \* what the configuration may say of super_user_ids

ASSUME RightsConstants ==
  /\ Upper \in [RoleNames -> RoleNames]
  /\ {"SUPER", "NONE"} \subseteq RoleNames
  /\ NoRole \notin RoleNames
  /\ SuperUserIds \subseteq SUBSET Accounts

VARIABLES
  recorded,      \* the table roles: account -> role, NoRole without a row
  superUserIds,  \* ConfigManager::superUserIds()
  roles,         \* ACLRolesHandler::m_roles
  extensions,    \* CommandExtensionCollection::m_extensions
  role,          \* AOClient::m_acl_role_id, NoRole while not m_authenticated
  roleFile,      \* history: the role file that was read last
  extensionFile, \* history: the extension file that was read last
  stale          \* history: clients that were not told of a change

config == <<superUserIds, roles, extensions, roleFile, extensionFile>>
rightsVars == <<presence, recorded, config, role, stale>>

-----------------------------------------------------------------------------
(* ACLRolesHandler *)

ReadOnly == {"NONE", "SUPER"}
Everything == Captions \cup {"super"}
roleExists(n) == Upper[n] \in ReadOnly \cup DOMAIN roles

(* SUPER has every bit. *)
Granted(P) == IF "super" \in P THEN Everything ELSE P \cap Captions

getRoleById(n) ==
  IF n = NoRole THEN {}
  ELSE IF Upper[n] = "SUPER" THEN Everything
  ELSE IF Upper[n] \in DOMAIN roles THEN roles[Upper[n]]
  ELSE {}

(* The groups of a file that the code enters, the ones it finds repeated:  *)
(* those it never leaves, so that it finds nothing in the groups after.    *)
Entered(f) == {i \in DOMAIN f : Upper[f[i].name] \notin ReadOnly}
Repeated(f) == {i \in Entered(f) : \E j \in Entered(f) :
                                     j < i /\ Upper[f[j].name] = Upper[f[i].name]}

loadRoles(f) ==
  LET fresh == Entered(f) \ Repeated(f)
      group(n) == CHOOSE i \in fresh : Upper[f[i].name] = n
  IN [n \in {Upper[f[i].name] : i \in fresh} |->
        IF \E j \in Repeated(f) : j < group(n) THEN {}
        ELSE Granted(f[group(n)].permissions)]

-----------------------------------------------------------------------------
(* CommandExtensionCollection *)

(* Groups of known commands, the first of each. *)
Accepted(f) == {i \in DOMAIN f : /\ f[i].command \in DOMAIN Commands
                                 /\ \A j \in 1..i-1 : f[j].command # f[i].command}

(* An alias belongs to the first command that claims it. *)
Aliases(f, i) == f[i].aliases \ UNION {f[j].aliases : j \in {k \in Accepted(f) : k < i}}

(* Groups are in the order of their commands, as is m_extensions. *)
loadExtensions(f) ==
  {[rank |-> i, command |-> f[i].command, aliases |-> Aliases(f, i),
    permissions |-> f[i].permissions \cap (Everything \cup {"none"})] : i \in Accepted(f)}

Answering(word) == {e \in extensions : word = e.command \/ word \in e.aliases}
First(E) == {e \in E : \A d \in E : e.rank <= d.rank}

Target(word) == {e.command : e \in First(Answering(word))}
                  \cup (IF Answering(word) = {} THEN {word} ELSE {})
Required(word) ==
  LET own == UNION {e.permissions : e \in First(Answering(word))}
  IN IF own # {} THEN own ELSE UNION {Commands[t] : t \in Target(word) \cap DOMAIN Commands}

checkPermission(c, p) == p = "none" \/ p \in getRoleById(role[c])

(* handleCommand runs cmd for what c typed. *)
handleCommand(c, word, cmd) ==
  /\ c \in InSession
  /\ cmd \in Target(word)
  /\ \E p \in Required(word) : checkPermission(c, p)

MayRun(c) == {cmd \in DOMAIN Commands : \E word \in Words : handleCommand(c, word, cmd)}

-----------------------------------------------------------------------------
roleOf(u) == recorded[u]
setRole(u, n) == recorded' = [recorded EXCEPT ![u] = n]
clearRecordedRole(u) == recorded' = [recorded EXCEPT ![u] = NoRole]

(* The role a client gets when its session begins; read says whether the   *)
(* database could be asked.                                                *)
FirstRole(u, read) ==
  IF u \in superUserIds THEN "SUPER"
  ELSE IF u \in Accounts /\ read THEN roleOf(u)
  ELSE NoRole

beginSession(c, u, read) ==
  /\ Enters(c, u)
  /\ role' = [role EXCEPT ![c] = FirstRole(u, read)]
  /\ stale' = IF read THEN stale ELSE stale \cup {c}
  /\ UNCHANGED <<recorded, config>>

(* Mistake: only the client that was named gets the new role. *)
OnlyTarget(t) == {t}

(* All clients of the user of t *)
Affected(t) == clientsByUserId(account[t])

(* applyRole or clearRole of the clients of t, after the database *)
applyRole(t, n) ==
  /\ role' = [c \in Clients |-> IF c \in Affected(t) THEN n ELSE role[c]]
  /\ stale' = stale \ clientsByUserId(account[t])
  /\ UNCHANGED <<presence, config>>

SetPerms(m, word, t, n) ==
  /\ handleCommand(m, word, "setperms")
  /\ roleExists(n)
  /\ n = "SUPER" => checkPermission(m, "super")
  /\ t \in Present /\ ~isGuest(t)
  /\ account[t] \notin superUserIds
  /\ setRole(account[t], n)
  /\ applyRole(t, n)

RemovePerms(m, word, t) ==
  /\ handleCommand(m, word, "removeperms")
  /\ t \in Present /\ ~isGuest(t)
  /\ account[t] \notin superUserIds
  /\ roleOf(account[t]) # NoRole
  /\ clearRecordedRole(account[t])
  /\ applyRole(t, NoRole)

(* Mistake: the roles are cleared before the file is known to be readable. *)
ClearThenRead ==
  \/ \E f \in RoleFiles : roles' = loadRoles(f) /\ roleFile' = f
  \/ roles' = <<>> /\ UNCHANGED roleFile

(* What the file says now, unless it cannot be read *)
loadRoleFile ==
  \/ \E f \in RoleFiles : roles' = loadRoles(f) /\ roleFile' = f
  \/ UNCHANGED <<roles, roleFile>>

loadExtensionFile ==
  \/ \E f \in ExtensionFiles : extensions' = loadExtensions(f) /\ extensionFile' = f
  \/ UNCHANGED <<extensions, extensionFile>>

(* /reload: nobody is given the role that a change of super_user_ids means *)
Reload(m, word) ==
  /\ handleCommand(m, word, "reload")
  /\ superUserIds' \in SuperUserIds
  /\ loadRoleFile
  /\ loadExtensionFile
  /\ stale' = stale \cup {c \in Present :
                            account[c] \in (superUserIds \ superUserIds')
                                              \cup (superUserIds' \ superUserIds)}
  /\ UNCHANGED <<presence, recorded, role>>

LeaveSession(c) ==
  /\ c \in InSession
  /\ drop({c})
  /\ UNCHANGED <<recorded, config, role, stale>>

Deregister(c) ==
  /\ Removal(c)
  /\ role' = [role EXCEPT ![c] = NoRole]
  /\ stale' = stale \ {c}
  /\ UNCHANGED <<recorded, config>>

(* Crash or shutdown, and a start with what is configured then *)
StartProgram ==
  /\ ProgramEnds
  /\ superUserIds' \in SuperUserIds
  /\ role' = [c \in Clients |-> NoRole]
  /\ stale' = {}
  /\ loadRoleFile
  /\ loadExtensionFile
  /\ UNCHANGED recorded

-----------------------------------------------------------------------------
RightsInit ==
  /\ PresenceInit
  /\ recorded = [u \in Accounts |-> NoRole]
  /\ superUserIds \in SuperUserIds
  /\ roleFile \in RoleFiles /\ roles = loadRoles(roleFile)
  /\ extensionFile \in ExtensionFiles /\ extensions = loadExtensions(extensionFile)
  /\ role = [c \in Clients |-> NoRole]
  /\ stale = {}

RightsNext ==
  \/ \E c \in Clients, u \in Accounts \cup {Guest}, read \in BOOLEAN : beginSession(c, u, read)
  \/ \E c \in Clients : LeaveSession(c) \/ Deregister(c)
  \/ \E m \in Clients, word \in Words :
       \/ \E t \in Clients, n \in RoleNames : SetPerms(m, word, t, n)
       \/ \E t \in Clients : RemovePerms(m, word, t)
       \/ Reload(m, word)
  \/ StartProgram

RightsSpec == RightsInit /\ [][RightsNext]_rightsVars

-----------------------------------------------------------------------------
(* Every variable holds a value of its kind. *)
RightsTypeOK ==
  /\ PresenceTypeOK
  /\ recorded \in [Accounts -> RoleNames \cup {NoRole}]
  /\ superUserIds \subseteq Accounts
  /\ role \in [Clients -> RoleNames \cup {NoRole}]
  /\ stale \subseteq Present

(* All clients of a user have the role that the configuration or the       *)
(* database gives the user, and guests have none, whoever changed it and   *)
(* whenever they came.  Only a client whose session began while the        *)
(* database could not be read, or that was there while super_user_ids      *)
(* changed, may differ, until its role is set again.                       *)
RoleAsRecorded ==
  \A c \in Present \ stale : role[c] = FirstRole(account[c], TRUE)

(* What a client that stays may run changes only when the recorded role of *)
(* its user does, when its role is brought up to date, or when a file was  *)
(* read: a file that cannot be read takes nobody's rights away, the ones   *)
(* to fix it and reload among them.                                        *)
RightsChangeByRecord ==
  [][\A c \in InSession \cap InSession' :
       \/ account[c] \in Accounts /\ recorded'[account[c]] # recorded[account[c]]
       \/ c \in stale \ stale'
       \/ roleFile' # roleFile
       \/ extensionFile' # extensionFile
       \/ MayRun(c)' = MayRun(c)]_rightsVars
=============================================================================
