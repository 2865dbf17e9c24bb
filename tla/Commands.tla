------------------------------ MODULE Commands -----------------------------
(***************************************************************************)
(* The commands that change what the program keeps outside a vault         *)
(* (internal/cli, internal/config): login and logout, sync-setup,          *)
(* sync-config --state-path, sync-unlink and sync for an encrypted vault,  *)
(* and publish.  A command is a list of steps that are done one after the  *)
(* other, each of which is one change of a file, of a store or on the      *)
(* server; a process may end between any two.  Secrets are kept by         *)
(* SecretStore, pages are published by Publish.                            *)
(***************************************************************************)
EXTENDS SecretStore, Publish, Sequences

CONSTANTS
  Folders,      \* local folders that the vault may be attached to
  Uses          \* what a behaviour is about: syncing, publishing

(***************************************************************************)
(*   reattached    sync-setup for a vault that is attached to a folder     *)
(*                 attaches it to another                                  *)
(*   customLeft    sync-unlink, or sync-setup with another --state-path,   *)
(*                 leaves a state database of the vault behind             *)
(*   diesInMove    the program ends after it moved the state database and  *)
(*                 before it wrote the new path into the configuration     *)
(*   diesInFile    it ends while it writes or removes the configuration    *)
(*   editInRun     the user edits a file while it is being published       *)
(***************************************************************************)
AllTroubles == StoreTroubles \cup
  {"reattached", "customLeft", "diesInMove", "diesInFile", "editInRun"}

Token == "auth_token"
Key == "encryption_key"
Salt == "encryption_salt"

CommandsAssumption == /\ Names = {Token, Key, Salt}
                      /\ MaxSecret \in Nat \ {0}
                      /\ Troubles \subseteq AllTroubles
                      /\ Uses \subseteq {"sync", "publish"}
                      /\ "none" \notin Folders
ASSUME CommandsAssumption

VARIABLES
  use,
  todo,         \* what the command has yet to do
  holding,      \* the token it has in memory
  tokens,       \* tokens the server has given out
  sessions,     \* those of them that are valid
  config,       \* the vault's config.json: its folder and where its state is
  want,         \* the configuration that the command is to write
  state         \* the state databases: the folder that each was saved for

account == <<tokens, sessions>>
attachment == <<config, want, state>>
vars == <<store, publishVars, use, todo, holding, account, attachment>>

StatePaths == {"default", "custom"}
NoConfig == [folder |-> "none", path |-> "default"]
Configs == {NoConfig} \cup [folder : Folders, path : StatePaths]

Init ==
  /\ StoreInit /\ PublishInit
  /\ use \in Uses
  /\ todo = <<>> /\ holding = None /\ tokens = 0 /\ sessions = {}
  /\ config = NoConfig /\ want = NoConfig /\ state = [p \in StatePaths |-> "none"]

(* A step is what is done and, of a secret, its name.  A call of the       *)
(* configuration manager opens the keyring anew.                           *)
Do(step) == <<step, "">>
Open == Do("open")
Save(n) == <<"store", n>>
Remove(n) == <<"remove", n>>
Clear(n) == <<"clear", n>>
Exit == Do("exit")
Kinds == {"signOut", "signIn", "open", "store", "remove", "clear", "writeConfig", "removeConfig",
          "moveState", "list", "scan", "transfer", "writeCache", "exit"}

(* A command starts in a process of its own.                               *)
Idle == todo = <<>>
Starts(steps) == Idle /\ todo' = steps /\ UNCHANGED store
LoggedIn == Get(Token, up) # None
Attached(f) == config.folder = f

-----------------------------------------------------------------------------
(* The commands.                                                           *)

LoginSteps == <<Do("signIn"), Open, Save(Token), Exit>>
LogoutSteps == <<Do("signOut"), Open, Remove(Token), Clear(Token), Exit>>
LogoutLoginSteps == <<Do("signOut"), Open, Remove(Token), Clear(Token),
                      Do("signIn"), Open, Save(Token), Exit>>

(* The old token is to be cleared before; that it cannot be is ignored.    *)
Unopened(steps, rest) == {steps} \cup IF "openFails" \in Troubles THEN {rest} ELSE {}
LoginAnyway == <<Do("signOut"), Do("signIn"), Open, Save(Token), Exit>>

Login ==
  /\ tokens < MaxSecret
  /\ \E steps \in IF LoggedIn THEN Unopened(LogoutLoginSteps, LoginAnyway) ELSE {LoginSteps} :
       Starts(steps)
  /\ holding' = Get(Token, up)
  /\ UNCHANGED <<publishVars, use, account, attachment>>

Logout ==
  /\ Starts(IF LoggedIn THEN LogoutSteps ELSE <<Open, Remove(Token), Clear(Token), Exit>>)
  /\ holding' = Get(Token, up)
  /\ UNCHANGED <<publishVars, use, account, attachment>>

(* The server has accepted the token and the password before anything is   *)
(* written.                                                                *)
SyncSetup(f, p) ==
  /\ use = "sync" /\ Get(Token, up) \in sessions
  /\ Attached(f) \/ config = NoConfig \/ "reattached" \in Troubles
  /\ p = config.path \/ "customLeft" \in Troubles
  /\ Starts(<<Do("writeConfig"), Open, Save(Key), Save(Salt), Exit>>)
  /\ want' = [folder |-> f, path |-> p] /\ holding' = Get(Token, up)
  /\ UNCHANGED <<publishVars, use, account, config, state>>

SyncConfig(p) ==
  /\ use = "sync" /\ config # NoConfig /\ p # config.path
  /\ Starts(<<Do("moveState"), Do("writeConfig"), Exit>>)
  /\ want' = [config EXCEPT !.path = p]
  /\ UNCHANGED <<publishVars, use, holding, account, config, state>>

\* Mutant: as ClearAuthToken does, for one of the two secrets.
UnlinkKeepingSalt == <<Open, Remove(Key), Clear(Key), Do("removeConfig"), Exit>>

UnlinkSteps == <<Open, Remove(Key), Clear(Key), Remove(Salt), Clear(Salt),
                 Do("removeConfig"), Exit>>

(* Secrets that cannot be cleared are left, and nothing is said of it.     *)
UnlinkAnyway == <<Do("removeConfig"), Exit>>

SyncUnlink ==
  /\ use = "sync" /\ config # NoConfig
  /\ config.path = "default" \/ "customLeft" \in Troubles
  /\ \E steps \in Unopened(UnlinkSteps, UnlinkAnyway) : Starts(steps)
  /\ UNCHANGED <<publishVars, use, holding, account, attachment>>

(* One cycle, which is the subject of VaultSync: it takes the baseline out *)
(* of the state database, and replaces it.                                 *)
Sync(f) ==
  /\ use = "sync" /\ Idle /\ Attached(f)
  /\ Get(Token, up) \in sessions /\ Get(Key, up) # None /\ Get(Salt, up) # None
  /\ state' = [state EXCEPT ![config.path] = f]
  /\ UNCHANGED <<store, publishVars, use, todo, holding, account, config, want>>

PublishRun(everything) ==
  /\ use = "publish" /\ LoggedIn
  /\ Starts(<<Do("list"), Do("scan"), Do("transfer"), Do("writeCache"), Exit>>)
  /\ holding' = Get(Token, up) /\ all' = everything
  /\ UNCHANGED <<files, site, listing, scan, transferred, use, account, attachment>>

-----------------------------------------------------------------------------
(* Their steps.                                                            *)

Doing(step) == todo # <<>> /\ Head(todo)[1] = step
Name == Head(todo)[2]
Done == todo' = Tail(todo)

(* Whether the server hears of it or not.                                  *)
SignOut ==
  /\ Doing("signOut") /\ Done
  /\ sessions' \in {sessions, sessions \ {holding}}
  /\ UNCHANGED <<store, publishVars, use, holding, tokens, attachment>>

SignIn ==
  /\ Doing("signIn") /\ Done
  /\ tokens' = tokens + 1 /\ sessions' = sessions \cup {tokens'} /\ holding' = tokens'
  /\ UNCHANGED <<store, publishVars, use, attachment>>

Value(n) == IF n = Token THEN holding ELSE 1

OpenRing ==
  /\ Doing("open") /\ Done
  /\ OpenStore
  /\ UNCHANGED <<publishVars, use, holding, account, attachment>>

StoreSecret ==
  /\ Doing("store")
  /\ \/ StoreInRing(Name, Value(Name)) /\ todo' = <<Clear(Name)>> \o Tail(todo)
     \/ StoreInFallback(Name, Value(Name)) /\ Done
  /\ UNCHANGED <<publishVars, use, holding, account, attachment>>

RemoveSecret ==
  /\ Doing("remove") /\ Done
  /\ RemoveFromRing(Name)
  /\ UNCHANGED <<publishVars, use, holding, account, attachment>>

ClearSecret ==
  /\ Doing("clear") /\ Done
  /\ ClearFallback(Name)
  /\ UNCHANGED <<publishVars, use, holding, account, attachment>>

WriteConfig ==
  /\ Doing("writeConfig") /\ Done
  /\ config' = want
  /\ UNCHANGED <<store, publishVars, use, holding, account, want, state>>

\* Mutant: the configuration is removed and nothing else of its directory.
ForgetConfig ==
  /\ config' = NoConfig
  /\ UNCHANGED state

(* The whole directory of the vault: config.json, state.db and the log.    *)
RemoveDir ==
  /\ config' = NoConfig
  /\ state' = [state EXCEPT !["default"] = "none"]

RemoveConfig ==
  /\ Doing("removeConfig") /\ Done
  /\ RemoveDir
  /\ UNCHANGED <<store, publishVars, use, holding, account, want>>

(* If there is no database yet, nothing is moved.                          *)
MoveState ==
  /\ Doing("moveState") /\ Done
  /\ state' = IF state[config.path] = "none" THEN state
              ELSE [state EXCEPT ![want.path] = state[config.path], ![config.path] = "none"]
  /\ UNCHANGED <<store, publishVars, use, holding, account, config, want>>

PublishStep ==
  /\ \/ Doing("list") /\ holding \in sessions /\ Done /\ ListSite
     \/ Doing("scan") /\ Done /\ ScanVault
     \/ /\ Doing("transfer") /\ holding \in sessions /\ ~AllTransferred
        /\ \E f \in Files : UploadPage(f) \/ DeletePage(f)
        /\ todo' \in {todo, <<Exit>>}       \* the answer may be lost
     \/ Doing("transfer") /\ AllTransferred /\ Done /\ UNCHANGED publishVars
  /\ UNCHANGED <<store, use, holding, account, attachment>>

PublishDone ==
  /\ Doing("writeCache") /\ Done
  /\ UNCHANGED <<store, publishVars, use, holding, account, attachment>>

(* All is done, a step fails, or the process is stopped, which may leave a *)
(* configuration that cannot be read, or that is gone before the state is. *)
Ends ==
  /\ ~Idle
  /\ Doing("writeConfig") => Len(todo) > 2 \/ "diesInMove" \in Troubles
  /\ todo' = <<>> /\ holding' = None /\ want' = NoConfig
  /\ config' \in {config} \cup IF "diesInFile" \in Troubles
                                  /\ Head(todo)[1] \in {"writeConfig", "removeConfig"}
                               THEN {NoConfig} ELSE {}
  /\ CloseStore /\ RunOver
  /\ UNCHANGED <<use, account, state>>

Step == \/ SignOut \/ SignIn \/ OpenRing \/ StoreSecret \/ RemoveSecret \/ ClearSecret
        \/ WriteConfig \/ RemoveConfig \/ MoveState
        \/ PublishStep \/ PublishDone \/ Ends

-----------------------------------------------------------------------------
(* The environment.                                                        *)

Keyring == RingChanges /\ UNCHANGED <<publishVars, use, todo, holding, account, attachment>>

Expire(t) ==
  /\ t \in sessions
  /\ sessions' = sessions \ {t}
  /\ UNCHANGED <<store, publishVars, use, todo, holding, tokens, attachment>>

UserEdits(f, c) ==
  /\ use = "publish" /\ (Idle \/ "editInRun" \in Troubles)
  /\ files' = [files EXCEPT ![f] = c]
  /\ UNCHANGED <<store, site, listing, scan, transferred, all, use, todo, holding, account, attachment>>

(* Another device publishes what it may, or deletes a page.                *)
OtherPublishes(f, c) ==
  /\ use = "publish" /\ Idle
  /\ c \notin Private
  /\ site' = [site EXCEPT ![f] = PageOf(c)]
  /\ UNCHANGED <<store, files, listing, scan, transferred, all, use, todo, holding, account, attachment>>

Next ==
  \/ Login \/ Logout \/ SyncUnlink
  \/ \E f \in Folders : Sync(f)
  \/ \E f \in Folders, p \in StatePaths : SyncSetup(f, p)
  \/ \E p \in StatePaths : SyncConfig(p)
  \/ \E everything \in BOOLEAN : PublishRun(everything)
  \/ Step \/ Keyring
  \/ \E t \in sessions : Expire(t)
  \/ \E f \in Files, c \in Contents \cup {Absent} : UserEdits(f, c) \/ OtherPublishes(f, c)

Spec == Init /\ [][Next]_vars

-----------------------------------------------------------------------------
(* What the commands promise.                                              *)

TypeOK ==
  /\ StoreTypeOK /\ PublishTypeOK
  /\ use \in Uses /\ todo \in Seq(Kinds \X (Names \cup {""}))
  /\ holding \in Secrets /\ tokens \in Secrets /\ sessions \subseteq 1..MaxSecret
  /\ config \in Configs /\ want \in Configs
  /\ state \in [StatePaths -> Folders \cup {"none"}]

(* A process that starts now finds the secret that the last complete call  *)
(* of Set or Delete left, wherever that call put it, and whenever the      *)
(* keyring became available (secrets.go: Get, Set and Delete).             *)
SecretsAsLeft ==
  \A n \in Names : last[n] # Unknown => Get(n, up) = last[n]

(* Every variable has its type, and secrets are where they were left.      *)
SecretsInv == TypeOK /\ SecretsAsLeft

(* When sync-unlink is done neither place has a secret of the vault (the   *)
(* README: "remove stored credentials"), and no program that ended between *)
(* two steps has left one for it to miss.                                  *)
UnlinkForgets ==
  [][RemoveConfig => \A n \in {Key, Salt} : keyring[n] = None /\ fallback[n] = None]_vars

(* A sync takes its baseline from a sync of the same folder, or starts     *)
(* from none (engine.go: runSyncCycle, the initial sync); any other file   *)
(* would look deleted to it.                                               *)
SyncsFromOwnPast ==
  [][\A f \in Folders : Sync(f) => state[config.path] \in {f, "none"}]_vars

(* A publish run that returns without an error leaves the site as the      *)
(* vault and the selection ask for, whatever earlier runs left half done.  *)
PublishedAsWanted ==
  [][PublishDone => \A f \in Files : site[f] = Wanted(f)]_vars

(* What is marked publish: false is never on the site.                     *)
PrivateUnpublished ==
  \A f \in Files : site[f].body \notin Private

=============================================================================
