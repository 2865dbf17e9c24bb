---------------------------- MODULE SecretStore ----------------------------
(***************************************************************************)
(* Where secrets are kept, internal/config/secrets.go: in the keyring of   *)
(* the operating system if it can be had, otherwise in credentials.db,     *)
(* which is encrypted with master.key.  A call of Set or Delete makes one  *)
(* step in each of the two places; what the caller gets is a register per  *)
(* name only if the steps and the places work together.  Secrets are       *)
(* numbers, and None stands for no secret.                                 *)
(***************************************************************************)
EXTENDS Naturals

CONSTANTS
  Names,        \* names of secrets
  MaxSecret,    \* bound of the model on their values
  Troubles      \* what goes wrong, of AllTroubles

(***************************************************************************)
(*   ringGoes      a keyring that was available is not, for some time      *)
(*   refused       the keyring works, and refuses a call                   *)
(*   clearFails    credentials.db cannot be opened or written to           *)
(*   openFails     a store cannot be opened, for want of master.key        *)
(***************************************************************************)
StoreTroubles == {"ringGoes", "refused", "clearFails", "openFails"}

None == 0
Unknown == MaxSecret + 1
Secrets == 0..MaxSecret

VARIABLES
  keyring,      \* the secrets in the keyring
  fallback,     \* the secrets in credentials.db
  up,           \* the keyring is available
  opened,       \* it was, when the store was opened
  last          \* what the last complete call of Set or Delete left

store == <<keyring, fallback, up, opened, last>>

StoreInit ==
  /\ keyring = [n \in Names |-> None] /\ fallback = keyring /\ last = keyring
  /\ up \in BOOLEAN /\ opened = FALSE

StoreTypeOK ==
  /\ keyring \in [Names -> Secrets] /\ fallback \in [Names -> Secrets]
  /\ last \in [Names -> Secrets \cup {Unknown}]
  /\ up \in BOOLEAN /\ opened \in BOOLEAN

RingWorks == opened /\ up
May(trouble) == IF trouble \in Troubles THEN BOOLEAN ELSE {FALSE}

(* Get, by a store that has opened the keyring or has not.                 *)
Get(n, ring) == IF ring /\ keyring[n] # None THEN keyring[n] ELSE fallback[n]

(* Set: in the keyring, or else in credentials.db.                         *)
StoreInRing(n, v) ==
  /\ RingWorks
  /\ keyring' = [keyring EXCEPT ![n] = v] /\ last' = [last EXCEPT ![n] = v]
  /\ UNCHANGED <<fallback, up, opened>>

StoreInFallback(n, v) ==
  /\ RingWorks => "refused" \in Troubles
  /\ fallback' = [fallback EXCEPT ![n] = v] /\ last' = [last EXCEPT ![n] = v]
  /\ UNCHANGED <<keyring, up, opened>>

(* Delete, first half: what the keyring says to it is logged, no more.     *)
RemoveFromRing(n) ==
  /\ \E refused \in May("refused") :
       keyring' = IF RingWorks /\ ~refused THEN [keyring EXCEPT ![n] = None] ELSE keyring
  /\ last' = [last EXCEPT ![n] = Unknown]
  /\ UNCHANGED <<fallback, up, opened>>

\* Mutant: an entry is removed only if there is no keyring.
ClearIfAlone(n) ==
  /\ fallback' = IF RingWorks THEN fallback ELSE [fallback EXCEPT ![n] = None]
  /\ last' = [last EXCEPT ![n] = IF @ = Unknown THEN None ELSE @]
  /\ UNCHANGED <<keyring, up, opened>>

(* Second half of Delete, and of Set in the keyring.                       *)
ClearFallback(n) ==
  /\ \E fails \in May("clearFails") :
       fallback' = IF fails THEN fallback ELSE [fallback EXCEPT ![n] = None]
  /\ last' = [last EXCEPT ![n] = IF @ = Unknown THEN None ELSE @]
  /\ UNCHANGED <<keyring, up, opened>>

(* A store is opened, and with it the keyring if it is available.          *)
OpenStore == opened' = up /\ UNCHANGED <<keyring, fallback, up, last>>

CloseStore == opened' = FALSE /\ UNCHANGED <<keyring, fallback, up, last>>

RingChanges == /\ up => "ringGoes" \in Troubles
               /\ up' = ~up
               /\ UNCHANGED <<keyring, fallback, opened, last>>

=============================================================================
