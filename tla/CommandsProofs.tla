--------------------------- MODULE CommandsProofs ---------------------------
(***************************************************************************)
(* For any folders and files, any commands in any order, stopped           *)
(* anywhere: private files stay off the site, and a sync starts from the   *)
(* past of its own folder.  Each theorem says which of the troubles it     *)
(* excludes.                                                               *)
(***************************************************************************)
EXTENDS Commands, TLAPS

-----------------------------------------------------------------------------
(* Lists of steps.                                                         *)

(* Taking the first of them.                                               *)
LEMMA Rest ==
  ASSUME NEW E, NEW s \in Seq(E), s # << >>
  PROVE  /\ Head(s) = s[1] /\ Tail(s) \in Seq(E)
         /\ Len(s) \in Nat \ {0} /\ Len(Tail(s)) = Len(s) - 1
         /\ \A k \in 1..Len(Tail(s)) : Tail(s)[k] = s[k + 1]
  OBVIOUS

(* Putting another in its place.                                           *)
LEMMA Replaced ==
  ASSUME NEW E, NEW s \in Seq(E), s # << >>, NEW e \in E
  PROVE  /\ <<e>> \o Tail(s) \in Seq(E) /\ Len(<<e>> \o Tail(s)) = Len(s)
         /\ (<<e>> \o Tail(s))[1] = e
         /\ \A k \in 2..Len(s) : (<<e>> \o Tail(s))[k] = s[k]
  OBVIOUS

Entry == Kinds \X (Names \cup {""})
Ordered == todo \in Seq(Entry) /\ (todo # << >> => todo[Len(todo)] = Exit)

(* The steps that the commands consist of.                                 *)
LEMMA Entries ==
  /\ \A x \in Kinds : Do(x) \in Entry /\ Do(x)[1] = x
  /\ Open \in Entry /\ Open[1] = "open" /\ Exit \in Entry /\ Exit[1] = "exit"
  /\ \A n \in Names : /\ Save(n) \in Entry /\ Save(n)[1] = "store" /\ Save(n)[2] = n
                       /\ Remove(n) \in Entry /\ Remove(n)[1] = "remove" /\ Remove(n)[2] = n
                       /\ Clear(n) \in Entry /\ Clear(n)[1] = "clear" /\ Clear(n)[2] = n
  /\ Token \in Names /\ Key \in Names /\ Salt \in Names
<1>1. \A x \in Kinds : Do(x) \in Entry /\ Do(x)[1] = x
  BY DEF Do, Entry
<1>2. "open" \in Kinds /\ "exit" \in Kinds /\ "store" \in Kinds /\ "remove" \in Kinds
      /\ "clear" \in Kinds
  BY DEF Kinds
<1>3. \A n \in Names : Save(n) \in Entry /\ Remove(n) \in Entry /\ Clear(n) \in Entry
  BY <1>2 DEF Entry, Save, Remove, Clear
<1>4. \A n \in Names : /\ Save(n)[1] = "store" /\ Save(n)[2] = n
                       /\ Remove(n)[1] = "remove" /\ Remove(n)[2] = n
                       /\ Clear(n)[1] = "clear" /\ Clear(n)[2] = n
  BY DEF Save, Remove, Clear
<1>5. Open \in Entry /\ Open[1] = "open" /\ Exit \in Entry /\ Exit[1] = "exit"
  BY <1>1, <1>2 DEF Open, Exit
<1>6. Token \in Names /\ Key \in Names /\ Salt \in Names
  BY CommandsAssumption DEF CommandsAssumption
<1> QED
  BY <1>1, <1>3, <1>4, <1>5, <1>6

(* And those without a name.                                               *)
LEMMA DoEntries ==
  \A x \in {"signIn", "signOut", "writeConfig", "moveState", "removeConfig",
            "list", "scan", "transfer", "writeCache"} : Do(x) \in Entry
  BY Entries DEF Kinds

(* A step is done that is not the last one.                                *)
LEMMA DoneOrdered ==
  ASSUME Ordered, NEW x, x # "exit", Doing(x), Done
  PROVE  /\ Ordered' /\ todo # << >> /\ todo' # << >>
         /\ todo[1][1] = x /\ Name = todo[1][2]
         /\ Len(todo) \in Nat /\ Len(todo') = Len(todo) - 1 /\ Len(todo') \in Nat \ {0}
         /\ \A k \in 1..Len(todo') : todo'[k] = todo[k + 1]
<1>1. todo \in Seq(Entry) /\ todo # << >> /\ Head(todo)[1] = x /\ todo' = Tail(todo)
  BY DEF Ordered, Doing, Done
<1>2. /\ Head(todo) = todo[1] /\ todo' \in Seq(Entry)
      /\ Len(todo) \in Nat \ {0} /\ Len(todo') = Len(todo) - 1
      /\ \A k \in 1..Len(todo') : todo'[k] = todo[k + 1]
  BY <1>1, Rest
<1>3. ASSUME Len(todo) = 1 PROVE FALSE
  <2>1. todo[1] = Exit
    BY <1>1, <1>3 DEF Ordered
  <2> QED
    BY <1>1, <1>2, <2>1, Entries
<1>4. Len(todo') \in Nat \ {0} /\ todo' # << >>
  BY <1>2, <1>3
<1>5. todo'[Len(todo')] = Exit
  BY <1>1, <1>2, <1>4 DEF Ordered
<1> QED
  BY <1>1, <1>2, <1>4, <1>5 DEF Ordered, Name

(* What is in an explicit list.                                            *)
LEMMA ListOf2 ==
  ASSUME NEW E, NEW a \in E, NEW b \in E
  PROVE  LET s == <<a, b>>
         IN  s \in Seq(E) /\ s # << >> /\ Len(s) = 2 /\ s[1] = a /\ s[2] = b
  OBVIOUS

LEMMA ListOf3 ==
  ASSUME NEW E, NEW a \in E, NEW b \in E, NEW c \in E
  PROVE  LET s == <<a, b, c>>
         IN  s \in Seq(E) /\ s # << >> /\ Len(s) = 3 /\ s[1] = a /\ s[2] = b /\ s[3] = c
  OBVIOUS

LEMMA ListOf4 ==
  ASSUME NEW E, NEW a \in E, NEW b \in E, NEW c \in E, NEW d \in E
  PROVE  LET s == <<a, b, c, d>>
         IN  /\ s \in Seq(E) /\ s # << >> /\ Len(s) = 4
             /\ s[1] = a /\ s[2] = b /\ s[3] = c /\ s[4] = d
  OBVIOUS

LEMMA ListOf5 ==
  ASSUME NEW E, NEW a \in E, NEW b \in E, NEW c \in E, NEW d \in E, NEW e \in E
  PROVE  LET s == <<a, b, c, d, e>>
         IN  /\ s \in Seq(E) /\ s # << >> /\ Len(s) = 5
             /\ s[1] = a /\ s[2] = b /\ s[3] = c /\ s[4] = d /\ s[5] = e
  OBVIOUS

LEMMA ListOf7 ==
  ASSUME NEW E, NEW a \in E, NEW b \in E, NEW c \in E, NEW d \in E, NEW e \in E,
         NEW f \in E, NEW g \in E
  PROVE  LET s == <<a, b, c, d, e, f, g>>
         IN  /\ s \in Seq(E) /\ s # << >> /\ Len(s) = 7
             /\ s[1] = a /\ s[2] = b /\ s[3] = c /\ s[4] = d
             /\ s[5] = e /\ s[6] = f /\ s[7] = g
  OBVIOUS

LEMMA ListOf8 ==
  ASSUME NEW E, NEW a \in E, NEW b \in E, NEW c \in E, NEW d \in E, NEW e \in E,
         NEW f \in E, NEW g \in E, NEW h \in E
  PROVE  LET s == <<a, b, c, d, e, f, g, h>>
         IN  /\ s \in Seq(E) /\ s # << >> /\ Len(s) = 8
             /\ s[1] = a /\ s[2] = b /\ s[3] = c /\ s[4] = d
             /\ s[5] = e /\ s[6] = f /\ s[7] = g /\ s[8] = h
  OBVIOUS

(* The lists of the commands.                                              *)
LEMMA LoginList ==
  LET s == LoginSteps
  IN  /\ s \in Seq(Entry) /\ s # << >> /\ Len(s) = 4
      /\ s[1] = Do("signIn") /\ s[2] = Open /\ s[3] = Save(Token) /\ s[4] = Exit
  BY Entries, DoEntries, ListOf4 DEF LoginSteps

LEMMA LogoutList ==
  LET s == LogoutSteps
  IN  /\ s \in Seq(Entry) /\ s # << >> /\ Len(s) = 5
      /\ s[1] = Do("signOut") /\ s[2] = Open /\ s[3] = Remove(Token) /\ s[4] = Clear(Token)
      /\ s[5] = Exit
  BY Entries, DoEntries, ListOf5 DEF LogoutSteps

LEMMA LogoutLoginList ==
  LET s == LogoutLoginSteps
  IN  /\ s \in Seq(Entry) /\ s # << >> /\ Len(s) = 8
      /\ s[1] = Do("signOut") /\ s[2] = Open /\ s[3] = Remove(Token) /\ s[4] = Clear(Token)
      /\ s[5] = Do("signIn") /\ s[6] = Open /\ s[7] = Save(Token) /\ s[8] = Exit
  BY Entries, DoEntries, ListOf8 DEF LogoutLoginSteps

LEMMA LoginAnywayList ==
  LET s == LoginAnyway
  IN  /\ s \in Seq(Entry) /\ s # << >> /\ Len(s) = 5
      /\ s[1] = Do("signOut") /\ s[2] = Do("signIn") /\ s[3] = Open /\ s[4] = Save(Token)
      /\ s[5] = Exit
  BY Entries, DoEntries, ListOf5 DEF LoginAnyway

LEMMA UnlinkAnywayList ==
  LET s == UnlinkAnyway
  IN  /\ s \in Seq(Entry) /\ s # << >> /\ Len(s) = 2
      /\ s[1] = Do("removeConfig") /\ s[2] = Exit
  BY Entries, DoEntries, ListOf2 DEF UnlinkAnyway

LEMMA ForgetList ==
  LET s == <<Open, Remove(Token), Clear(Token), Exit>>
  IN  /\ s \in Seq(Entry) /\ s # << >> /\ Len(s) = 4
      /\ s[1] = Open /\ s[2] = Remove(Token) /\ s[3] = Clear(Token) /\ s[4] = Exit
  BY Entries, DoEntries, ListOf4

LEMMA SetupList ==
  LET s == <<Do("writeConfig"), Open, Save(Key), Save(Salt), Exit>>
  IN  /\ s \in Seq(Entry) /\ s # << >> /\ Len(s) = 5
      /\ s[1] = Do("writeConfig") /\ s[2] = Open /\ s[3] = Save(Key) /\ s[4] = Save(Salt)
      /\ s[5] = Exit
  BY Entries, DoEntries, ListOf5

LEMMA MoveList ==
  LET s == <<Do("moveState"), Do("writeConfig"), Exit>>
  IN  /\ s \in Seq(Entry) /\ s # << >> /\ Len(s) = 3
      /\ s[1] = Do("moveState") /\ s[2] = Do("writeConfig") /\ s[3] = Exit
  BY Entries, DoEntries, ListOf3

LEMMA UnlinkList ==
  LET s == UnlinkSteps
  IN  /\ s \in Seq(Entry) /\ s # << >> /\ Len(s) = 7
      /\ s[1] = Open /\ s[2] = Remove(Key) /\ s[3] = Clear(Key)
      /\ s[4] = Remove(Salt) /\ s[5] = Clear(Salt) /\ s[6] = Do("removeConfig") /\ s[7] = Exit
  BY Entries, DoEntries, ListOf7 DEF UnlinkSteps

LEMMA PublishList ==
  LET s == <<Do("list"), Do("scan"), Do("transfer"), Do("writeCache"), Exit>>
  IN  /\ s \in Seq(Entry) /\ s # << >> /\ Len(s) = 5
      /\ s[1] = Do("list") /\ s[2] = Do("scan") /\ s[3] = Do("transfer")
      /\ s[4] = Do("writeCache") /\ s[5] = Exit
  BY Entries, DoEntries, ListOf5

(* The two ways in which todo changes besides.                             *)
LEMMA EndsOrdered ==
  ASSUME todo' = << >> \/ todo' = <<Exit>>
  PROVE  Ordered'
<1>1. \A e \in Entry : <<e>> \in Seq(Entry) /\ Len(<<e>>) = 1 /\ <<e>>[1] = e
  OBVIOUS
<1>2. CASE todo' = <<Exit>>
  <2> HIDE DEF Exit
  <2>1. Exit \in Entry
    BY Entries
  <2>2. todo' \in Seq(Entry) /\ Len(todo') = 1 /\ todo'[1] = Exit
    BY <1>1, <1>2, <2>1
  <2> QED
    BY <2>2 DEF Ordered
<1>3. CASE todo' = << >>
  BY <1>3 DEF Ordered
<1> QED
  BY <1>2, <1>3

LEMMA SameOrdered ==
  ASSUME Ordered, UNCHANGED todo
  PROVE  Ordered'
  BY DEF Ordered

(* A secret that has been stored in the keyring is cleared next.           *)
LEMMA ReplacedOrdered ==
  ASSUME Ordered, todo # << >>, todo[1] # Exit, NEW e \in Entry, todo' = <<e>> \o Tail(todo)
  PROVE  /\ Ordered' /\ todo' # << >> /\ Len(todo) \in Nat /\ Len(todo') = Len(todo)
         /\ todo'[1] = e /\ \A k \in 2..Len(todo) : todo'[k] = todo[k]
<1>1. /\ todo' \in Seq(Entry) /\ Len(todo') = Len(todo) /\ todo'[1] = e
      /\ \A k \in 2..Len(todo) : todo'[k] = todo[k]
  BY Replaced DEF Ordered
<1>2. Len(todo) \in Nat \ {0} /\ Len(todo) # 1
  BY Rest DEF Ordered
<1>3. todo' # << >>
  BY <1>1, <1>2
<1> QED
  BY <1>1, <1>2, <1>3 DEF Ordered

(* A command starts.                                                       *)
Starting == \/ Login \/ Logout \/ SyncUnlink
            \/ \E f \in Folders, p \in StatePaths : SyncSetup(f, p)
            \/ \E p \in StatePaths : SyncConfig(p)
            \/ \E everything \in BOOLEAN : PublishRun(everything)

(* The lists that login and sync-unlink may go through.                    *)
LEMMA Anyway ==
  /\ Login => todo' \in {LoginSteps, LogoutLoginSteps, LoginAnyway}
  /\ SyncUnlink => todo' \in {UnlinkSteps, UnlinkAnyway}
  /\ "openFails" \notin Troubles =>
       /\ Login => todo' \in {LoginSteps, LogoutLoginSteps}
       /\ SyncUnlink => todo' = UnlinkSteps
  BY DEF Login, SyncUnlink, Starts, Unopened

LEMMA StartingOrdered ==
  ASSUME Starting
  PROVE  Ordered' /\ todo' # << >> /\ Idle /\ UNCHANGED store
<1>1. ASSUME NEW s, s # << >>, s \in Seq(Entry), s[Len(s)] = Exit, Starts(s)
      PROVE  Ordered' /\ todo' # << >> /\ Idle /\ UNCHANGED store
  BY <1>1 DEF Starts, Ordered
<1>2. CASE Login
  <2>1. PICK s \in {LoginSteps, LogoutLoginSteps, LoginAnyway} : Starts(s)
    BY <1>2 DEF Login, Unopened
  <2>2. s # << >> /\ s \in Seq(Entry) /\ s[Len(s)] = Exit
    BY LoginList, LogoutLoginList, LoginAnywayList
  <2> QED
    BY <1>1, <2>1, <2>2
<1>3. CASE Logout
  BY <1>1, <1>3, LogoutList, ForgetList DEF Logout
<1>4. CASE SyncUnlink
  <2>1. PICK s \in {UnlinkSteps, UnlinkAnyway} : Starts(s)
    BY <1>4 DEF SyncUnlink, Unopened
  <2>2. s # << >> /\ s \in Seq(Entry) /\ s[Len(s)] = Exit
    BY UnlinkList, UnlinkAnywayList
  <2> QED
    BY <1>1, <2>1, <2>2
<1>5. ASSUME NEW f \in Folders, NEW p \in StatePaths, SyncSetup(f, p)
      PROVE  Ordered' /\ todo' # << >> /\ Idle /\ UNCHANGED store
  BY <1>1, <1>5, SetupList DEF SyncSetup
<1>6. ASSUME NEW p \in StatePaths, SyncConfig(p)
      PROVE  Ordered' /\ todo' # << >> /\ Idle /\ UNCHANGED store
  BY <1>1, <1>6, MoveList DEF SyncConfig
<1>7. ASSUME NEW everything \in BOOLEAN, PublishRun(everything)
      PROVE  Ordered' /\ todo' # << >> /\ Idle /\ UNCHANGED store
  BY <1>1, <1>7, PublishList DEF PublishRun
<1> QED
  BY <1>2, <1>3, <1>4, <1>5, <1>6, <1>7 DEF Starting

(* A process that goes on has something left to do.                        *)
GoesOn == SignOut \/ SignIn \/ OpenRing \/ StoreSecret \/ RemoveSecret \/ ClearSecret
          \/ WriteConfig \/ RemoveConfig \/ MoveState \/ PublishStep \/ PublishDone

LEMMA GoesOnOrdered ==
  ASSUME Ordered, GoesOn
  PROVE  Ordered' /\ todo' # << >> /\ todo # << >>
<1>1. ASSUME NEW x \in Kinds, x # "exit", Doing(x), Done
      PROVE  Ordered' /\ todo' # << >> /\ todo # << >>
  BY <1>1, DoneOrdered
<1>2. CASE SignOut
  BY <1>1, <1>2 DEF SignOut, Kinds
<1>3. CASE SignIn
  BY <1>1, <1>3 DEF SignIn, Kinds
<1>4. CASE OpenRing
  BY <1>1, <1>4 DEF OpenRing, Kinds
<1>5. CASE StoreSecret
  <2>1. Doing("store")
    BY <1>5 DEF StoreSecret
  <2>2. CASE Done
    BY <1>1, <2>1, <2>2 DEF Kinds
  <2>3. CASE todo' = <<Clear(Name)>> \o Tail(todo)
    <3>1. todo \in Seq(Entry) /\ todo # << >> /\ Head(todo) = todo[1] /\ todo[1][1] = "store"
      BY <2>1, Rest DEF Ordered, Doing
    <3>2. todo[1] \in Entry
      BY <3>1
    <3>3. Name \in Names \cup {""}
      BY <3>1, <3>2 DEF Name, Entry
    <3>4. Clear(Name) \in Entry
      BY <3>3 DEF Clear, Entry, Kinds
    <3>5. todo[1] # Exit
      BY <3>1, Entries
    <3> QED
      BY <2>3, <3>1, <3>4, <3>5, ReplacedOrdered
  <2> QED
    BY <1>5, <2>2, <2>3 DEF StoreSecret
<1>6. CASE RemoveSecret
  BY <1>1, <1>6 DEF RemoveSecret, Kinds
<1>7. CASE ClearSecret
  BY <1>1, <1>7 DEF ClearSecret, Kinds
<1>8. CASE WriteConfig \/ RemoveConfig \/ MoveState
  BY <1>1, <1>8 DEF WriteConfig, RemoveConfig, MoveState, Kinds
<1>9. CASE PublishStep \/ PublishDone
  <2>1. CASE Done
    BY <1>1, <1>9, <2>1 DEF PublishStep, PublishDone, Kinds
  <2>2. CASE todo' = <<Exit>>
    BY <1>9, <2>2, EndsOrdered DEF PublishStep, PublishDone, Doing
  <2>3. CASE UNCHANGED todo
    BY <1>9, <2>3, SameOrdered DEF PublishStep, PublishDone, Doing
  <2> QED
    BY <1>9, <2>1, <2>2, <2>3 DEF PublishStep, PublishDone
<1> QED
  BY <1>2, <1>3, <1>4, <1>5, <1>6, <1>7, <1>8, <1>9 DEF GoesOn

(* What happens beside the commands.                                       *)
Besides == \/ Keyring \/ (\E f \in Folders : Sync(f)) \/ (\E t \in sessions : Expire(t))
           \/ \E f \in Files, c \in Contents \cup {Absent} : UserEdits(f, c) \/ OtherPublishes(f, c)

LEMMA NextSplit == Next => Starting \/ GoesOn \/ Ends \/ Besides
  BY DEF Next, Step, Starting, GoesOn, Besides

LEMMA OrderedStep ==
  ASSUME Ordered, [Next]_vars
  PROVE  Ordered'
<1>1. CASE Starting
  BY <1>1, StartingOrdered
<1>2. CASE GoesOn
  BY <1>2, GoesOnOrdered
<1>3. CASE Ends
  BY <1>3, EndsOrdered DEF Ends
<1>4. CASE Besides
  BY <1>4, SameOrdered DEF Besides, Keyring, Sync, Expire, UserEdits, OtherPublishes
<1>5. CASE UNCHANGED vars
  BY <1>5, SameOrdered DEF vars
<1> QED
  BY <1>1, <1>2, <1>3, <1>4, <1>5, NextSplit

-----------------------------------------------------------------------------
(* Publishing.  What a run has scanned is not private, and what has been   *)
(* scanned is what the files contain; when no process runs nothing is      *)
(* scanned, so what the user does then is not published by accident.       *)

PublishInv ==
  /\ PublishTypeOK /\ PrivateUnpublished
  /\ \A f \in Files : scan[f] \notin Private
  /\ \A f \in Files : scan[f] # Absent => files[f] = scan[f] /\ todo # << >>

(* Steps that leave the site and the vault alone.                          *)
LEMMA PublishSame ==
  ASSUME PublishInv, UNCHANGED <<files, site, scan, listing, transferred>>, all' \in BOOLEAN,
         todo # << >> => todo' # << >>
  PROVE  PublishInv'
  BY DEF PublishInv, PublishTypeOK, PrivateUnpublished

LEMMA PublishStarts ==
  ASSUME PublishInv, Starting
  PROVE  PublishInv'
<1>1. todo' # << >>
  BY StartingOrdered
<1>2. UNCHANGED <<files, site, scan, listing, transferred>> /\ all' \in BOOLEAN
  BY DEF PublishInv, PublishTypeOK, Starting, Login, Logout, SyncUnlink, SyncSetup, SyncConfig,
         PublishRun, publishVars
<1> QED
  BY <1>1, <1>2, PublishSame

(* The private content is not the one of no page.                          *)
LEMMA AbsentNotPrivate == Absent \notin Private /\ Private \subseteq Contents
  BY PublishAssumption DEF PublishAssumption

LEMMA PublishGoesOn ==
  ASSUME PublishInv, Ordered, Unprobed \cap Private = {}, GoesOn
  PROVE  PublishInv'
<1>0. todo' # << >> /\ todo # << >>
  BY GoesOnOrdered
<1>1. CASE UNCHANGED publishVars
  BY <1>0, <1>1, PublishSame DEF publishVars, PublishInv, PublishTypeOK
<1>2. CASE ListSite
  <2>1. /\ listing' = [f \in Files |-> site[f].hash]
        /\ UNCHANGED <<files, site, scan, transferred, all>>
    BY <1>2 DEF ListSite
  <2>2. listing' \in [Files -> Contents \cup {Absent}]
    BY <2>1 DEF PublishInv, PublishTypeOK, Pages
  <2> QED
    BY <1>0, <2>1, <2>2 DEF PublishInv, PublishTypeOK, PrivateUnpublished
<1>3. CASE ScanVault
  <2>1. /\ scan' = [f \in Files |-> IF Selected(f, files[f], all) THEN files[f] ELSE Absent]
        /\ transferred' = {}
        /\ UNCHANGED <<files, site, listing, all>>
    BY <1>3 DEF ScanVault
  <2>2. scan' \in [Files -> Contents \cup {Absent}]
    BY <2>1 DEF PublishInv, PublishTypeOK
  <2>3. \A f \in Files : scan'[f] \notin Private
    BY <2>1, AbsentNotPrivate DEF Selected, Flagged
  <2>4. \A f \in Files : scan'[f] # Absent => files'[f] = scan'[f]
    BY <2>1
  <2> QED
    BY <1>0, <2>1, <2>2, <2>3, <2>4 DEF PublishInv, PublishTypeOK, PrivateUnpublished
<1>4. ASSUME NEW f \in Files, UploadPage(f)
      PROVE  PublishInv'
  <2>1. /\ scan[f] # Absent
        /\ site' = [site EXCEPT ![f] = [hash |-> scan[f], body |-> files[f]]]
        /\ transferred' = transferred \cup {f}
        /\ UNCHANGED <<files, listing, scan, all>>
    BY <1>4 DEF UploadPage, Uploads
  <2>2. files[f] \notin Private
    BY <2>1 DEF PublishInv
  <2>3. site' \in [Files -> Pages] /\ transferred' \subseteq Files
    BY <2>1 DEF PublishInv, PublishTypeOK, Pages
  <2>4. PrivateUnpublished'
    BY <2>1, <2>2 DEF PublishInv, PublishTypeOK, PrivateUnpublished
  <2> QED
    BY <1>0, <2>1, <2>3, <2>4 DEF PublishInv, PublishTypeOK
<1>5. ASSUME NEW f \in Files, DeletePage(f)
      PROVE  PublishInv'
  <2>1. /\ site' = [site EXCEPT ![f] = NoPage]
        /\ transferred' = transferred \cup {f}
        /\ UNCHANGED <<files, listing, scan, all>>
    BY <1>5 DEF DeletePage
  <2>2. site' \in [Files -> Pages] /\ transferred' \subseteq Files
    BY <2>1 DEF PublishInv, PublishTypeOK, Pages, NoPage
  <2>3. PrivateUnpublished'
    BY <2>1, AbsentNotPrivate DEF PublishInv, PublishTypeOK, PrivateUnpublished, NoPage
  <2> QED
    BY <1>0, <2>1, <2>2, <2>3 DEF PublishInv, PublishTypeOK
<1>6. \/ UNCHANGED publishVars \/ ListSite \/ ScanVault
      \/ \E f \in Files : UploadPage(f) \/ DeletePage(f)
  BY DEF GoesOn, SignOut, SignIn, OpenRing, StoreSecret, RemoveSecret, ClearSecret, WriteConfig,
         RemoveConfig, MoveState, PublishStep, PublishDone
<1> QED
  BY <1>1, <1>2, <1>3, <1>4, <1>5, <1>6

LEMMA PublishEnds ==
  ASSUME PublishInv, Ends
  PROVE  PublishInv'
<1>1. /\ listing' = [f \in Files |-> Absent] /\ scan' = listing' /\ transferred' = {} /\ all' = FALSE
      /\ UNCHANGED <<files, site>>
  BY DEF Ends, RunOver
<1> QED
  BY <1>1, AbsentNotPrivate DEF PublishInv, PublishTypeOK, PrivateUnpublished

LEMMA PublishBesides ==
  ASSUME PublishInv, "editInRun" \notin Troubles, Besides
  PROVE  PublishInv'
<1>1. CASE Keyring \/ (\E f \in Folders : Sync(f)) \/ (\E t \in sessions : Expire(t))
  BY <1>1, PublishSame DEF Keyring, Sync, Expire, publishVars, PublishInv, PublishTypeOK
<1>2. ASSUME NEW f \in Files, NEW c \in Contents \cup {Absent}, UserEdits(f, c)
      PROVE  PublishInv'
  <2>1. /\ todo = << >> /\ files' = [files EXCEPT ![f] = c]
        /\ UNCHANGED <<site, listing, scan, transferred, all, todo>>
    BY <1>2 DEF UserEdits, Idle
  <2> QED
    BY <2>1 DEF PublishInv, PublishTypeOK, PrivateUnpublished
<1>3. ASSUME NEW f \in Files, NEW c \in Contents \cup {Absent}, OtherPublishes(f, c)
      PROVE  PublishInv'
  <2>1. /\ c \notin Private /\ site' = [site EXCEPT ![f] = PageOf(c)]
        /\ UNCHANGED <<files, listing, scan, transferred, all, todo>>
    BY <1>3 DEF OtherPublishes
  <2>2. site' \in [Files -> Pages] /\ PrivateUnpublished'
    BY <2>1 DEF PublishInv, PublishTypeOK, PrivateUnpublished, Pages, PageOf
  <2> QED
    BY <2>1, <2>2 DEF PublishInv, PublishTypeOK
<1> QED
  BY <1>1, <1>2, <1>3 DEF Besides

(* Whatever commands run, are stopped or fail, a file that says            *)
(* publish: false does not get on the site, unless the user edits it while *)
(* it is being published, or says so further down than the program reads   *)
(* (publish/engine.go: scanLocal, Run).                                    *)
THEOREM PrivateTheorem ==
  ASSUME "editInRun" \notin Troubles, Unprobed \cap Private = {}
  PROVE  Spec => []PrivateUnpublished
<1>1. Init => Ordered /\ PublishInv
  <2> SUFFICES ASSUME Init PROVE Ordered /\ PublishInv
    OBVIOUS
  <2>1. Ordered
    BY DEF Init, Ordered
  <2>2. /\ files = [f \in Files |-> Absent] /\ scan = files /\ listing = files
        /\ site = [f \in Files |-> NoPage] /\ transferred = {} /\ all = FALSE
    BY DEF Init, PublishInit
  <2>3. NoPage \in Pages /\ NoPage.body = Absent
    BY DEF NoPage, Pages
  <2> QED
    BY <2>1, <2>2, <2>3, AbsentNotPrivate DEF PublishInv, PublishTypeOK, PrivateUnpublished
<1>2. Ordered /\ PublishInv /\ [Next]_vars => (Ordered /\ PublishInv)'
  <2> SUFFICES ASSUME Ordered, PublishInv, [Next]_vars PROVE (Ordered /\ PublishInv)'
    OBVIOUS
  <2>1. ASSUME UNCHANGED vars PROVE PublishInv'
    <3>1. UNCHANGED <<files, site, scan, listing, transferred, all, todo>>
      BY <2>1 DEF vars, publishVars
    <3>2. all' \in BOOLEAN
      BY <3>1 DEF PublishInv, PublishTypeOK
    <3> QED
      BY <3>1, <3>2, PublishSame
  <2>2. PublishInv'
    BY <2>1, NextSplit, PublishStarts, PublishGoesOn, PublishEnds, PublishBesides
  <2> QED
    BY <2>2, OrderedStep
<1>3. PublishInv => PrivateUnpublished
  BY DEF PublishInv
<1> QED
  BY <1>1, <1>2, <1>3, PTL DEF Spec

-----------------------------------------------------------------------------
(* Attaching a vault.  Where a state database is, the configuration says,  *)
(* and for which folder; but while a database is being moved, what says so *)
(* is the configuration that is about to be written.                       *)

MatchedBy(c) == \A p \in StatePaths : state[p] = "none" \/ (p = c.path /\ state[p] = c.folder)

(* The configuration is written once in a command, and only the move of    *)
(* the state comes before that.  A vault that is about to be unlinked      *)
(* stays as it is.                                                         *)
Listed == 1..Len(todo)
Writes(k) == todo[k][1] = "writeConfig"
Moves(k) == todo[k][1] = "moveState"
Removes(k) == todo[k][1] = "removeConfig"
WritesFirst ==
  /\ \A k \in Listed : Writes(k) => k = 1 \/ (k = 2 /\ Moves(1))
  /\ \A k \in Listed : Moves(k) =>
       k = 1 /\ Len(todo) = 3 /\ Writes(2) /\ want.folder = config.folder
  /\ \A k \in Listed : Removes(k) =>
       config.path = "default" /\ \A j \in Listed : ~Writes(j) /\ ~Moves(j)

(* The configuration that sync-setup writes agrees with what is there, if  *)
(* anything is, so that a program may end before it has written it.        *)
StateMatched ==
  /\ Doing("writeConfig") => MatchedBy(want)
  /\ (Doing("writeConfig") /\ Len(todo) <= 2) \/ MatchedBy(config)

Attachments ==
  /\ config \in Configs /\ want \in Configs
  /\ state \in [StatePaths -> Folders \cup {"none"}]

PastInv == Ordered /\ Attachments /\ WritesFirst /\ StateMatched

PastTroubles == {"reattached", "customLeft", "diesInMove", "diesInFile"}

(* What a configuration consists of.                                       *)
LEMMA ConfigFields ==
  /\ \A c \in Configs : c.path \in StatePaths /\ c.folder \in Folders \cup {"none"}
  /\ NoConfig \in Configs /\ NoConfig.folder = "none" /\ NoConfig.path = "default"
  /\ StatePaths = {"default", "custom"} /\ "none" \notin Folders
  BY CommandsAssumption DEF CommandsAssumption, Configs, NoConfig, StatePaths

LEMMA ConfigOf ==
  ASSUME NEW f \in Folders, NEW p \in StatePaths
  PROVE  /\ [folder |-> f, path |-> p] \in Configs
         /\ [folder |-> f, path |-> p].folder = f /\ [folder |-> f, path |-> p].path = p
  BY DEF Configs, NoConfig

(* The first of a list.                                                    *)
LEMMA DoingFirst ==
  ASSUME Ordered, NEW x
  PROVE  Doing(x) <=> todo # << >> /\ 1 \in Listed /\ todo[1][1] = x
  BY Rest DEF Ordered, Doing, Listed

LEMMA DoingFirstNext ==
  ASSUME Ordered'
  PROVE  /\ todo' # << >> => (Doing("writeConfig")' <=> Writes(1)') /\ 1 \in Listed'
         /\ todo' = << >> => ~Doing("writeConfig")' /\ Listed' = {}
<1>1. CASE todo' = << >>
  BY <1>1 DEF Doing, Listed
<1>2. CASE todo' # << >>
  BY <1>2, Rest DEF Ordered, Doing, Listed, Writes
<1> QED
  BY <1>1, <1>2

(* A list that writes no configuration.                                    *)
Plain == \A k \in Listed : ~Writes(k) /\ ~Moves(k) /\ (Removes(k) => config.path = "default")

LEMMA PlainPast ==
  ASSUME Ordered', Attachments', MatchedBy(config)', Plain'
  PROVE  PastInv'
<1>1. ~Doing("writeConfig")'
  BY DoingFirstNext DEF Plain
<1>2. WritesFirst'
  BY DEF WritesFirst, Plain
<1> QED
  BY <1>1, <1>2 DEF PastInv, StateMatched

LEMMA SamePast ==
  ASSUME PastInv, UNCHANGED <<todo, config, want, state>>
  PROVE  PastInv'
  BY DEF PastInv, Ordered, Attachments, WritesFirst, StateMatched, Listed, Writes, Moves, Removes,
         MatchedBy, Doing

(* After its first steps, or once the configuration is written, a command  *)
(* writes none.                                                            *)
LEMMA FirstNot ==
  ASSUME PastInv, todo # << >>, ~Writes(1), ~Moves(1)
  PROVE  Plain /\ MatchedBy(config)
<1>1. ~Doing("writeConfig")
  BY DoingFirst DEF PastInv, Writes
<1> QED
  BY <1>1 DEF PastInv, WritesFirst, Plain, StateMatched

(* Steps that have to do with something else.                              *)
LEMMA PastOthers ==
  ASSUME PastInv, NEW x, x \notin {"exit", "writeConfig", "moveState"}, Doing(x), Done,
         UNCHANGED <<config, want, state>>
  PROVE  PastInv'
<1>1. /\ Ordered' /\ todo # << >> /\ todo[1][1] = x /\ Len(todo) \in Nat
      /\ Len(todo') = Len(todo) - 1 /\ \A k \in 1..Len(todo') : todo'[k] = todo[k + 1]
  BY DoneOrdered DEF PastInv
<1>2. Plain /\ MatchedBy(config)
  BY <1>1, FirstNot DEF Writes, Moves
<1>3. Plain'
  BY <1>1, <1>2 DEF Plain, Listed, Writes, Moves, Removes
<1>4. Attachments' /\ MatchedBy(config)'
  BY <1>2 DEF PastInv, Attachments, MatchedBy
<1> QED
  BY <1>1, <1>3, <1>4, PlainPast

(* Commands that start.                                                    *)
LEMMA PastStarts ==
  ASSUME PastInv, PastTroubles \cap Troubles = {}, Starting
  PROVE  PastInv'
<1>1. /\ Ordered' /\ todo' # << >> /\ todo = << >> /\ MatchedBy(config)
      /\ UNCHANGED <<config, state>>
  <2>1. todo = << >> /\ ~Doing("writeConfig")
    BY StartingOrdered DEF Idle, Doing
  <2> QED
    BY <2>1, StartingOrdered DEF PastInv, StateMatched, Starting, Login, Logout, SyncUnlink,
       SyncSetup, SyncConfig, PublishRun, attachment
<1>2. MatchedBy(config)' /\ (want' \in Configs => Attachments')
  BY <1>1 DEF PastInv, Attachments, MatchedBy
<1>3. ASSUME UNCHANGED want, Plain' PROVE PastInv'
  BY <1>1, <1>2, <1>3, PlainPast DEF PastInv, Attachments
<1>4. CASE Login
  <2>1. UNCHANGED want /\ todo' \in {LoginSteps, LogoutLoginSteps, LoginAnyway}
    BY <1>4, Anyway DEF Login, attachment
  <2>2. Plain'
    <3>1. CASE todo' = LoginSteps
      <4>1. \A k \in 1..4 : LoginSteps[k][1] \in {"signIn", "open", "store", "exit"}
        BY LoginList, Entries DEF Kinds
      <4> QED
        BY <3>1, <4>1, LoginList DEF Plain, Listed, Writes, Moves, Removes
    <3>2. CASE todo' = LogoutLoginSteps
      <4>1. \A k \in 1..8 : LogoutLoginSteps[k][1] \in
              {"signOut", "signIn", "open", "store", "remove", "clear", "exit"}
        BY LogoutLoginList, Entries DEF Kinds
      <4> QED
        BY <3>2, <4>1, LogoutLoginList DEF Plain, Listed, Writes, Moves, Removes
    <3>3. CASE todo' = LoginAnyway
      <4>1. \A k \in 1..5 : LoginAnyway[k][1] \in {"signOut", "signIn", "open", "store", "exit"}
        BY LoginAnywayList, Entries DEF Kinds
      <4> QED
        BY <3>3, <4>1, LoginAnywayList DEF Plain, Listed, Writes, Moves, Removes
    <3> QED
      BY <2>1, <3>1, <3>2, <3>3
  <2> QED
    BY <1>3, <2>1, <2>2
<1>5. CASE Logout
  <2>1. UNCHANGED want /\ todo' \in {LogoutSteps, <<Open, Remove(Token), Clear(Token), Exit>>}
    BY <1>5 DEF Logout, attachment, Starts
  <2>2. Plain'
    <3>1. CASE todo' = LogoutSteps
      <4>1. \A k \in 1..5 : LogoutSteps[k][1] \in {"signOut", "open", "remove", "clear", "exit"}
        BY LogoutList, Entries DEF Kinds
      <4> QED
        BY <3>1, <4>1, LogoutList DEF Plain, Listed, Writes, Moves, Removes
    <3>2. CASE todo' = <<Open, Remove(Token), Clear(Token), Exit>>
      <4>1. Len(todo') = 4 /\ \A k \in 1..4 : todo'[k][1] \in {"open", "remove", "clear", "exit"}
        BY <3>2, ForgetList, Entries DEF Kinds
      <4> QED
        BY <4>1 DEF Plain, Listed, Writes, Moves, Removes
    <3> QED
      BY <2>1, <3>1, <3>2
  <2> QED
    BY <1>3, <2>1, <2>2
<1>6. CASE SyncUnlink
  <2>1. /\ UNCHANGED <<want, config>> /\ todo' \in {UnlinkSteps, UnlinkAnyway}
        /\ config.path = "default"
    BY <1>6, Anyway DEF SyncUnlink, attachment, PastTroubles
  <2>2. /\ \A k \in 1..7 : UnlinkSteps[k][1] \in {"open", "remove", "clear", "removeConfig", "exit"}
        /\ \A k \in 1..2 : UnlinkAnyway[k][1] \in {"removeConfig", "exit"}
    BY UnlinkList, UnlinkAnywayList, Entries DEF Kinds
  <2>3. CASE todo' = UnlinkSteps
    <3>1. Plain'
      BY <2>1, <2>2, <2>3, UnlinkList DEF Plain, Listed, Writes, Moves, Removes
    <3> QED
      BY <1>3, <2>1, <3>1
  <2>4. CASE todo' = UnlinkAnyway
    <3>1. Plain'
      BY <2>1, <2>2, <2>4, UnlinkAnywayList DEF Plain, Listed, Writes, Moves, Removes
    <3> QED
      BY <1>3, <2>1, <3>1
  <2> QED
    BY <2>1, <2>3, <2>4
<1>7. ASSUME NEW everything \in BOOLEAN, PublishRun(everything) PROVE PastInv'
  <2>1. UNCHANGED want /\ todo' = <<Do("list"), Do("scan"), Do("transfer"), Do("writeCache"), Exit>>
    BY <1>7 DEF PublishRun, attachment, Starts
  <2>2. /\ Len(todo') = 5
        /\ \A k \in 1..5 : todo'[k][1] \in {"list", "scan", "transfer", "writeCache", "exit"}
    BY <2>1, PublishList, Entries DEF Kinds
  <2>3. Plain'
    BY <2>2 DEF Plain, Listed, Writes, Moves, Removes
  <2> QED
    BY <1>3, <2>1, <2>3
<1>8. ASSUME NEW f \in Folders, NEW p \in StatePaths, SyncSetup(f, p) PROVE PastInv'
  <2>1. /\ todo' = <<Do("writeConfig"), Open, Save(Key), Save(Salt), Exit>>
        /\ want' = [folder |-> f, path |-> p] /\ p = config.path
        /\ config.folder = f \/ config = NoConfig
    BY <1>8 DEF SyncSetup, Starts, Attached, PastTroubles
  <2>2. /\ Len(todo') = 5 /\ Writes(1)'
        /\ \A k \in 2..5 : todo'[k][1] \in {"open", "store", "exit"}
    BY <2>1, SetupList, Entries DEF Kinds, Writes
  <2>3. WritesFirst'
    BY <2>2 DEF WritesFirst, Listed, Writes, Moves, Removes
  <2>4. want' \in Configs /\ want'.folder = f /\ want'.path = p
    BY <2>1, ConfigOf
  <2>5. MatchedBy(want)'
    <3>1. CASE config.folder = f
      BY <1>1, <2>1, <2>4, <3>1 DEF MatchedBy
    <3>2. CASE config = NoConfig
      BY <1>1, <2>4, <3>2, ConfigFields DEF MatchedBy, PastInv, Attachments
    <3> QED
      BY <2>1, <3>1, <3>2
  <2> QED
    BY <1>1, <1>2, <2>3, <2>4, <2>5 DEF PastInv, StateMatched
<1>9. ASSUME NEW p \in StatePaths, SyncConfig(p) PROVE PastInv'
  <2>1. /\ todo' = <<Do("moveState"), Do("writeConfig"), Exit>> /\ want' = [config EXCEPT !.path = p]
        /\ config # NoConfig
    BY <1>9 DEF SyncConfig, Starts
  <2>2. /\ Len(todo') = 3 /\ todo'[1][1] = "moveState" /\ todo'[2][1] = "writeConfig"
        /\ todo'[3][1] = "exit"
    BY <2>1, MoveList, Entries DEF Kinds
  <2>3. want' \in Configs /\ want'.folder = config.folder
    <3>1. config \in Configs /\ config # NoConfig
      BY <2>1 DEF PastInv, Attachments
    <3>2. want' \in Configs /\ want'.folder = config.folder
      BY <2>1, <3>1 DEF Configs, NoConfig
    <3> QED
      BY <3>2
  <2>4. WritesFirst'
    BY <1>1, <2>2, <2>3 DEF WritesFirst, Listed, Writes, Moves, Removes
  <2>5. ~Doing("writeConfig")'
    BY <1>1, <2>2, DoingFirstNext DEF Writes
  <2> QED
    BY <1>1, <1>2, <2>3, <2>4, <2>5 DEF PastInv, StateMatched
<1> QED
  BY <1>4, <1>5, <1>6, <1>7, <1>8, <1>9 DEF Starting

(* Their steps.                                                            *)
LEMMA PastGoesOn ==
  ASSUME PastInv, GoesOn
  PROVE  PastInv'
<1>0. Ordered'
  BY GoesOnOrdered DEF PastInv
<1>1. CASE SignOut \/ SignIn \/ OpenRing \/ RemoveSecret \/ ClearSecret \/ PublishDone
  BY <1>1, PastOthers DEF SignOut, SignIn, OpenRing, RemoveSecret, ClearSecret, PublishDone, attachment
<1>2. CASE StoreSecret
  <2>1. Doing("store") /\ UNCHANGED <<config, want, state>>
    BY <1>2 DEF StoreSecret, attachment
  <2>2. CASE Done
    BY <2>1, <2>2, PastOthers
  <2>3. CASE todo' = <<Clear(Name)>> \o Tail(todo)
    <3>1. todo \in Seq(Entry) /\ todo # << >> /\ todo[1][1] = "store" /\ todo[1] \in Entry
      BY <2>1, Rest DEF PastInv, Ordered, Doing
    <3>2. Clear(Name) \in Entry /\ Clear(Name)[1] = "clear" /\ todo[1] # Exit
      <4>1. Name \in Names \cup {""}
        BY <3>1, Rest DEF Name, Entry
      <4>2. Clear(Name) \in Entry /\ Clear(Name)[1] = "clear"
        BY <4>1 DEF Clear, Entry, Kinds
      <4> QED
        BY <3>1, <4>2, Entries
    <3>3. /\ Len(todo') = Len(todo) /\ todo'[1][1] = "clear" /\ Len(todo) \in Nat
          /\ \A k \in 2..Len(todo) : todo'[k] = todo[k]
      BY <2>3, <3>1, <3>2, ReplacedOrdered DEF PastInv
    <3>4. Plain /\ MatchedBy(config)
      BY <3>1, FirstNot DEF Writes, Moves
    <3>5. Plain'
      BY <2>1, <3>3, <3>4 DEF Plain, Listed, Writes, Moves, Removes
    <3>6. Attachments' /\ MatchedBy(config)'
      BY <2>1, <3>4 DEF PastInv, Attachments, MatchedBy
    <3> QED
      BY <1>0, <3>5, <3>6, PlainPast
  <2> QED
    BY <1>2, <2>2, <2>3 DEF StoreSecret
<1>3. CASE WriteConfig
  <2>1. Doing("writeConfig") /\ Done /\ config' = want /\ UNCHANGED <<want, state>>
    BY <1>3 DEF WriteConfig
  <2>2. /\ todo # << >> /\ todo[1][1] = "writeConfig" /\ Len(todo) \in Nat
        /\ Len(todo') = Len(todo) - 1 /\ \A k \in 1..Len(todo') : todo'[k] = todo[k + 1]
    BY <2>1, DoneOrdered DEF PastInv
  <2>3. MatchedBy(config)' /\ Attachments'
    BY <2>1 DEF PastInv, StateMatched, MatchedBy, Attachments
  <2>4. \A k \in 2..Len(todo) : ~Writes(k) /\ ~Moves(k) /\ ~Removes(k)
    BY <2>2 DEF PastInv, WritesFirst, Listed, Writes, Moves
  <2>5. Plain'
    BY <2>2, <2>4 DEF Plain, Listed, Writes, Moves, Removes
  <2> QED
    BY <1>0, <2>3, <2>5, PlainPast
<1>4. CASE RemoveConfig
  <2>1. /\ Doing("removeConfig") /\ Done /\ config' = NoConfig
        /\ state' = [state EXCEPT !["default"] = "none"] /\ UNCHANGED want
    BY <1>4 DEF RemoveConfig, RemoveDir
  <2>2. /\ todo # << >> /\ todo[1][1] = "removeConfig" /\ Len(todo) \in Nat /\ 1 \in Listed
        /\ Len(todo') = Len(todo) - 1 /\ \A k \in 1..Len(todo') : todo'[k] = todo[k + 1]
    BY <2>1, DoneOrdered, DoingFirst DEF PastInv
  <2>3. Plain /\ MatchedBy(config) /\ config.path = "default"
    BY <2>2, FirstNot DEF Writes, Moves, Plain, Removes
  <2>4. Attachments' /\ MatchedBy(config)'
    BY <2>1, <2>3, ConfigFields DEF PastInv, Attachments, MatchedBy
  <2>5. Plain'
    BY <2>1, <2>2, <2>3, ConfigFields DEF Plain, Listed, Writes, Moves, Removes
  <2> QED
    BY <1>0, <2>4, <2>5, PlainPast
<1>5. CASE MoveState
  <2>1. /\ Doing("moveState") /\ Done /\ UNCHANGED <<config, want>>
        /\ state' = IF state[config.path] = "none" THEN state
                    ELSE [state EXCEPT ![want.path] = state[config.path], ![config.path] = "none"]
    BY <1>5 DEF MoveState
  <2>2. /\ todo # << >> /\ todo[1][1] = "moveState" /\ 1 \in Listed /\ todo' # << >>
        /\ Len(todo') = Len(todo) - 1 /\ \A k \in 1..Len(todo') : todo'[k] = todo[k + 1]
    BY <2>1, DoneOrdered, DoingFirst DEF PastInv
  <2>3. Len(todo) = 3 /\ Writes(2) /\ want.folder = config.folder
    BY <2>2 DEF PastInv, WritesFirst, Moves
  <2>4. MatchedBy(config)
    BY <2>2, DoingFirst DEF PastInv, StateMatched
  <2>5. /\ config.path \in StatePaths /\ want.path \in StatePaths
        /\ state \in [StatePaths -> Folders \cup {"none"}]
    BY ConfigFields DEF PastInv, Attachments
  <2>6. MatchedBy(want)' /\ Attachments'
    BY <2>1, <2>3, <2>4, <2>5 DEF PastInv, Attachments, MatchedBy
  <2>7. Writes(1)' /\ Len(todo') = 2 /\ ~Writes(2)' /\ ~Moves(1)' /\ ~Moves(2)' /\ ~Removes(1)'
        /\ ~Removes(2)'
    BY <2>2, <2>3 DEF PastInv, WritesFirst, Listed, Writes, Moves, Removes
  <2>8. WritesFirst'
    BY <2>7 DEF WritesFirst, Listed
  <2>9. Doing("writeConfig")'
    BY <1>0, <2>2, <2>7, DoingFirstNext
  <2> QED
    BY <1>0, <2>6, <2>7, <2>8, <2>9 DEF PastInv, StateMatched
<1>6. CASE PublishStep
  <2>1. UNCHANGED <<config, want, state>>
    BY <1>6 DEF PublishStep, attachment
  <2>2. PICK x \in {"list", "scan", "transfer"} : Doing(x)
    BY <1>6 DEF PublishStep
  <2>3. CASE Done
    BY <2>1, <2>2, <2>3, PastOthers
  <2>4. CASE UNCHANGED todo
    BY <2>1, <2>4, SamePast
  <2>5. CASE todo' = <<Exit>>
    <3>1. Plain'
      <4>1. \A e : Len(<<e>>) = 1 /\ <<e>>[1] = e
        OBVIOUS
      <4>2. Len(todo') = 1 /\ todo'[1] = Exit
        BY <2>5, <4>1
      <4> QED
        BY <4>2, Entries DEF Plain, Listed, Writes, Moves, Removes
    <3>2. todo # << >> /\ todo[1][1] = x
      BY <2>2, DoingFirst DEF PastInv
    <3>3. MatchedBy(config)
      BY <2>2, <3>2, FirstNot DEF Writes, Moves
    <3>4. Attachments' /\ MatchedBy(config)'
      BY <2>1, <3>3 DEF PastInv, Attachments, MatchedBy
    <3> QED
      BY <1>0, <3>1, <3>4, PlainPast
  <2> QED
    BY <1>6, <2>3, <2>4, <2>5 DEF PublishStep
<1> QED
  BY <1>1, <1>2, <1>3, <1>4, <1>5, <1>6 DEF GoesOn

(* A program that ends has written the configuration if it has moved the   *)
(* state.                                                                  *)
LEMMA PastEnds ==
  ASSUME PastInv, PastTroubles \cap Troubles = {}, Ends
  PROVE  PastInv'
<1>1. /\ Doing("writeConfig") => Len(todo) > 2
      /\ todo' = << >> /\ want' = NoConfig /\ config' = config /\ UNCHANGED state
  BY DEF Ends, PastTroubles
<1>2. Ordered' /\ Listed' = {}
  BY <1>1, EndsOrdered, DoingFirstNext
<1>3. MatchedBy(config)
  BY <1>1 DEF PastInv, StateMatched, Ordered
<1>4. Attachments' /\ MatchedBy(config)'
  BY <1>1, <1>3, ConfigFields DEF PastInv, Attachments, MatchedBy
<1> QED
  BY <1>2, <1>4, PlainPast DEF Plain

LEMMA PastBesides ==
  ASSUME PastInv, Besides
  PROVE  PastInv'
<1>1. ASSUME NEW f \in Folders, Sync(f) PROVE PastInv'
  <2>1. /\ todo = << >> /\ config.folder = f /\ UNCHANGED <<todo, config, want>>
        /\ state' = [state EXCEPT ![config.path] = f]
    BY <1>1 DEF Sync, Idle, Attached
  <2>2. MatchedBy(config)
    BY <2>1 DEF PastInv, StateMatched, Doing
  <2>3. Attachments' /\ MatchedBy(config)'
    BY <2>1, <2>2, ConfigFields DEF PastInv, Attachments, MatchedBy
  <2>4. Ordered' /\ Plain'
    BY <2>1, SameOrdered, DoingFirstNext DEF PastInv, Plain
  <2> QED
    BY <2>3, <2>4, PlainPast
<1>2. CASE Keyring \/ (\E t \in sessions : Expire(t))
  BY <1>2, SamePast DEF Keyring, Expire, attachment
<1>3. CASE \E f \in Files, c \in Contents \cup {Absent} : UserEdits(f, c) \/ OtherPublishes(f, c)
  BY <1>3, SamePast DEF UserEdits, OtherPublishes, attachment
<1> QED
  BY <1>1, <1>2, <1>3 DEF Besides

(* A sync compares a folder with what an earlier sync of the same folder   *)
(* left, or with nothing, as long as a vault is not attached to another    *)
(* folder, no state database is left behind, and no program ends in the    *)
(* two places where a configuration and its database disagree              *)
(* (cli/sync_setup.go, cli/sync_config.go, cli/sync_unlink.go).            *)
THEOREM OwnPastTheorem ==
  ASSUME PastTroubles \cap Troubles = {}
  PROVE  Spec => SyncsFromOwnPast
<1>1. Init => PastInv
  <2> SUFFICES ASSUME Init PROVE PastInv
    OBVIOUS
  <2>1. /\ todo = << >> /\ config = NoConfig /\ want = NoConfig
        /\ state = [p \in StatePaths |-> "none"]
    BY DEF Init
  <2>2. Ordered /\ Listed = {} /\ ~Doing("writeConfig")
    BY <2>1 DEF Ordered, Listed, Doing
  <2>3. Attachments /\ MatchedBy(config)
    BY <2>1, ConfigFields DEF Attachments, MatchedBy
  <2> QED
    BY <2>2, <2>3 DEF PastInv, WritesFirst, StateMatched
<1>2. PastInv /\ [Next]_vars => PastInv'
  <2> SUFFICES ASSUME PastInv, [Next]_vars PROVE PastInv'
    OBVIOUS
  <2>1. ASSUME UNCHANGED vars PROVE PastInv'
    BY <2>1, SamePast DEF vars, attachment
  <2> QED
    BY <2>1, NextSplit, PastStarts, PastGoesOn, PastEnds, PastBesides
<1>3. PastInv /\ [Next]_vars =>
        [\A f \in Folders : Sync(f) => state[config.path] \in {f, "none"}]_vars
  <2> SUFFICES ASSUME PastInv, NEW f \in Folders, Sync(f)
               PROVE  state[config.path] \in {f, "none"}
    OBVIOUS
  <2>1. todo = << >> /\ config.folder = f
    BY DEF Sync, Idle, Attached
  <2>2. MatchedBy(config) /\ config.path \in StatePaths
    BY <2>1, ConfigFields DEF PastInv, StateMatched, Doing, Attachments
  <2> QED
    BY <2>1, <2>2 DEF MatchedBy
<1> QED
  BY <1>1, <1>2, <1>3, PTL DEF Spec, SyncsFromOwnPast

-----------------------------------------------------------------------------
(***************************************************************************)
(* Secrets.  A secret is in one place or in both until the next step of    *)
(* the command clears the other, and no step relies on a keyring that it   *)
(* did not find.  What a command has yet to do is part of the invariant.   *)
(***************************************************************************)
Is(k, x, n) == todo[k][1] = x /\ todo[k][2] = n
Before(k, x, n) == \E j \in 1..(k - 1) : Is(j, x, n)
Touches(k) == todo[k][1] \in {"store", "remove", "clear"}

(* A store that does not have the keyring has nothing in it.               *)
RingKnown == opened \/ \A n \in Names : keyring[n] = None
RingFirst == \A k \in Listed : Touches(k) =>
               todo[k][2] \in Names /\ (RingKnown \/ Before(k, "open", ""))

(* A secret whose entry in credentials.db can be done without.             *)
Spare(n) == \/ last[n] \in {None, Unknown} /\ keyring[n] = None
            \/ last[n] \notin {None, Unknown} /\ keyring[n] = last[n]
ClearsSpare == \A k \in Listed, n \in Names :
                 Is(k, "clear", n) => Spare(n) \/ Before(k, "remove", n)

(* Nothing is stored and then cleared or unlinked by the same command.     *)
StoresLast == \A j, k \in Listed :
                j < k /\ todo[j][1] = "store" => todo[k][1] \notin {"clear", "removeConfig"}

(* What is stored is a secret.                                             *)
TokenHeld == \A k \in Listed : Is(k, "store", Token) =>
               holding # None \/ Before(k, "signIn", "")
OneToken == \A k \in Listed : todo[k][1] = "signIn" =>
              /\ todo[k][2] = "" /\ tokens < MaxSecret
              /\ \A j \in Listed : todo[j][1] = "signIn" => j = k

(* A vault is unlinked when both places have been cleared.                 *)
Gone(n) == keyring[n] = None /\ fallback[n] = None
ForgetsFirst == \A k \in Listed : todo[k][1] = "removeConfig" =>
                  \A n \in {Key, Salt} :
                    \/ Gone(n)
                    \/ \E j \in 1..(k - 1) : /\ Is(j, "clear", n)
                                             /\ keyring[n] = None \/ Before(j, "remove", n)

(* The value of a secret does not depend on the keyring's being there.     *)
RingUsed == opened \/ (\E n \in Names : keyring[n] # None) => up
LeftThere == \A n \in Names : last[n] # Unknown => Get(n, TRUE) = last[n]

SecretTypes == /\ StoreTypeOK /\ holding \in Secrets /\ tokens \in Secrets
               /\ sessions \subseteq 1..MaxSecret

ListsInv == RingFirst /\ ClearsSpare /\ StoresLast /\ TokenHeld /\ OneToken /\ ForgetsFirst
StoresInv == Ordered /\ SecretTypes /\ RingUsed /\ LeftThere /\ ListsInv

(* A step is taken off the list.                                           *)
Dropped == /\ Len(todo) \in Nat \ {0} /\ Len(todo') = Len(todo) - 1
           /\ \A k \in 1..Len(todo') : todo'[k] = todo[k + 1]

LEMMA Earlier ==
  ASSUME Dropped, NEW k \in Listed'
  PROVE  /\ k \in Nat /\ k + 1 \in Listed /\ todo'[k] = todo[k + 1] /\ 1 \in Listed
         /\ \A x, n : Before(k + 1, x, n) => Is(1, x, n) \/ Before(k, x, n)'
<1>1. /\ k \in Nat /\ k + 1 \in Listed /\ todo'[k] = todo[k + 1] /\ 1 \in Listed
  BY DEF Dropped, Listed
<1>2. ASSUME NEW x, NEW n, Before(k + 1, x, n), ~Is(1, x, n)
      PROVE  Before(k, x, n)'
  <2>1. PICK j \in 1..k : Is(j, x, n)
    BY <1>1, <1>2 DEF Before
  <2>2. j # 1 /\ j - 1 \in 1..(k - 1) /\ j - 1 \in 1..Len(todo')
    BY <1>1, <1>2, <2>1 DEF Listed, Dropped
  <2>3. todo'[j - 1] = todo[j]
    BY <2>1, <2>2 DEF Dropped
  <2> QED
    BY <2>1, <2>2, <2>3 DEF Before, Is
<1> QED
  BY <1>1, <1>2

(* What that does to each part of the invariant.                           *)
LEMMA RingDropped ==
  ASSUME Dropped, RingFirst, RingKnown => RingKnown', todo[1][1] = "open" => RingKnown'
  PROVE  RingFirst'
<1> SUFFICES ASSUME NEW k \in Listed', Touches(k)'
             PROVE  todo'[k][2] \in Names /\ (RingKnown' \/ Before(k, "open", "")')
  BY DEF RingFirst
<1>1. k + 1 \in Listed /\ Touches(k + 1) /\ todo'[k] = todo[k + 1]
  BY Earlier DEF Touches
<1>2. todo[k + 1][2] \in Names /\ (RingKnown \/ Before(k + 1, "open", ""))
  BY <1>1 DEF RingFirst
<1> QED
  BY <1>1, <1>2, Earlier DEF Is

LEMMA ClearsDropped ==
  ASSUME Dropped, ClearsSpare,
         \A n \in Names : Spare(n) /\ (\E k \in Listed \ {1} : Is(k, "clear", n)) => Spare(n)',
         \A n \in Names : Is(1, "remove", n) => Spare(n)'
  PROVE  ClearsSpare'
<1> SUFFICES ASSUME NEW k \in Listed', NEW n \in Names, Is(k, "clear", n)'
             PROVE  Spare(n)' \/ Before(k, "remove", n)'
  BY DEF ClearsSpare
<1>1. k + 1 \in Listed \ {1} /\ Is(k + 1, "clear", n)
  BY Earlier DEF Is, Listed
<1>2. Spare(n) \/ Before(k + 1, "remove", n)
  BY <1>1 DEF ClearsSpare
<1> QED
  BY <1>1, <1>2, Earlier

LEMMA StoresDropped ==
  ASSUME Dropped, StoresLast
  PROVE  StoresLast'
<1> SUFFICES ASSUME NEW j \in Listed', NEW k \in Listed', j < k, todo'[j][1] = "store"
             PROVE  todo'[k][1] \notin {"clear", "removeConfig"}
  BY DEF StoresLast
<1>1. /\ j + 1 \in Listed /\ k + 1 \in Listed /\ j \in Nat /\ k \in Nat
      /\ todo'[j] = todo[j + 1] /\ todo'[k] = todo[k + 1]
  BY Earlier
<1>2. j + 1 < k + 1
  BY <1>1
<1> QED
  BY <1>1, <1>2 DEF StoresLast

LEMMA TokenDropped ==
  ASSUME Dropped, TokenHeld, holding # None => holding' # None,
         todo[1][1] = "signIn" => holding' # None
  PROVE  TokenHeld'
<1> SUFFICES ASSUME NEW k \in Listed', Is(k, "store", Token)'
             PROVE  holding' # None \/ Before(k, "signIn", "")'
  BY DEF TokenHeld
<1>1. k + 1 \in Listed /\ Is(k + 1, "store", Token)
  BY Earlier DEF Is
<1>2. holding # None \/ Before(k + 1, "signIn", "")
  BY <1>1 DEF TokenHeld
<1> QED
  BY <1>2, Earlier DEF Is

LEMMA OneDropped ==
  ASSUME Dropped, OneToken, todo[1][1] = "signIn" \/ tokens' = tokens
  PROVE  OneToken'
<1> SUFFICES ASSUME NEW k \in Listed', todo'[k][1] = "signIn"
             PROVE  /\ todo'[k][2] = "" /\ tokens' < MaxSecret
                    /\ \A j \in Listed' : todo'[j][1] = "signIn" => j = k
  BY DEF OneToken
<1>1. /\ k \in Nat /\ k + 1 \in Listed /\ todo[k + 1][1] = "signIn" /\ todo'[k] = todo[k + 1]
      /\ 1 \in Listed /\ k # 0
  BY Earlier DEF Listed
<1>2. /\ todo[k + 1][2] = "" /\ tokens < MaxSecret
      /\ \A j \in Listed : todo[j][1] = "signIn" => j = k + 1
  BY <1>1 DEF OneToken
<1>3. todo[1][1] # "signIn"
  <2>1. k + 1 # 1
    BY <1>1
  <2> QED
    BY <1>1, <1>2, <2>1
<1>4. ASSUME NEW j \in Listed', todo'[j][1] = "signIn" PROVE j = k
  <2>1. j \in Nat /\ j + 1 \in Listed /\ todo[j + 1][1] = "signIn"
    BY <1>4, Earlier
  <2>2. j + 1 = k + 1
    BY <1>2, <2>1
  <2> QED
    BY <1>1, <2>1, <2>2
<1> QED
  BY <1>1, <1>2, <1>3, <1>4

LEMMA ForgetsDropped ==
  ASSUME Dropped, ForgetsFirst,
         \/ \A k \in Listed \ {1} : todo[k][1] # "removeConfig"
         \/ \A n \in {Key, Salt} :
              /\ Gone(n) => Gone(n)'
              /\ keyring[n] = None \/ Is(1, "remove", n) => keyring'[n] = None
              /\ Is(1, "clear", n) /\ keyring[n] = None => Gone(n)'
  PROVE  ForgetsFirst'
<1> SUFFICES ASSUME NEW k \in Listed', todo'[k][1] = "removeConfig", NEW n \in {Key, Salt}
             PROVE  \/ Gone(n)'
                    \/ \E j \in 1..(k - 1) : /\ Is(j, "clear", n)'
                                             /\ keyring'[n] = None \/ Before(j, "remove", n)'
  BY DEF ForgetsFirst
<1>1. k \in Nat /\ k + 1 \in Listed \ {1} /\ todo[k + 1][1] = "removeConfig" /\ k \in 1..Len(todo')
  BY Earlier DEF Listed
<1>2. /\ Gone(n) => Gone(n)'
      /\ keyring[n] = None \/ Is(1, "remove", n) => keyring'[n] = None
      /\ Is(1, "clear", n) /\ keyring[n] = None => Gone(n)'
  BY <1>1
<1>3. \/ Gone(n)
      \/ \E j \in 1..k : Is(j, "clear", n) /\ (keyring[n] = None \/ Before(j, "remove", n))
  BY <1>1 DEF ForgetsFirst
<1>4. ASSUME NEW j \in 1..k, Is(j, "clear", n), keyring[n] = None \/ Before(j, "remove", n)
      PROVE  \/ Gone(n)'
             \/ \E i \in 1..(k - 1) : /\ Is(i, "clear", n)'
                                      /\ keyring'[n] = None \/ Before(i, "remove", n)'
  <2>1. CASE j = 1
    BY <1>2, <1>4, <2>1 DEF Before
  <2>2. CASE j # 1
    <3>1. PICK i \in 1..(k - 1) : j = i + 1
      <4>1. j - 1 \in 1..(k - 1) /\ j = (j - 1) + 1
        BY <1>1, <2>2
      <4> QED
        BY <4>1
    <3>2. i \in Listed' /\ Is(i, "clear", n)'
      BY <1>1, <1>4, <3>1 DEF Dropped, Listed, Is
    <3>3. keyring'[n] = None \/ Before(i, "remove", n)'
      BY <1>2, <1>4, <3>1, <3>2, Earlier
    <3> QED
      BY <3>2, <3>3
  <2> QED
    BY <2>1, <2>2
<1> QED
  BY <1>2, <1>3, <1>4

(* A step that leaves the secrets and the token alone.                     *)
LEMMA ListsDropped ==
  ASSUME Dropped, ListsInv, UNCHANGED <<store, holding, tokens>>,
         todo[1][1] \notin {"open", "remove", "clear", "signIn"}
  PROVE  ListsInv'
<1>1. /\ UNCHANGED <<keyring, fallback, last, opened>>
      /\ RingKnown => RingKnown'
      /\ \A n : Spare(n) => Spare(n)'
      /\ \A n : Gone(n) => Gone(n)'
  BY DEF store, RingKnown, Spare, Gone
<1>2. \A n : ~Is(1, "remove", n) /\ ~Is(1, "clear", n)
  BY DEF Is
<1>3. RingFirst' /\ ClearsSpare'
  <2>1. RingFirst'
    BY <1>1, RingDropped DEF ListsInv
  <2>2. ClearsSpare'
    BY <1>1, <1>2, ClearsDropped DEF ListsInv
  <2> QED
    BY <2>1, <2>2
<1>4. StoresLast' /\ TokenHeld' /\ OneToken'
  BY StoresDropped, TokenDropped, OneDropped DEF ListsInv
<1>5. ForgetsFirst'
  BY <1>1, <1>2, ForgetsDropped DEF ListsInv
<1> QED
  BY <1>3, <1>4, <1>5 DEF ListsInv

(* The secrets there may be.                                               *)
LEMMA SecretBounds ==
  /\ MaxSecret \in Nat \ {0} /\ None \in Secrets /\ 1 \in Secrets /\ 1 # None
  /\ Unknown \notin Secrets /\ 1..MaxSecret \subseteq Secrets
  /\ \A t \in Secrets : t \in Nat /\ (t < MaxSecret => t + 1 \in 1..MaxSecret)
<1>1. MaxSecret \in Nat \ {0}
  BY CommandsAssumption DEF CommandsAssumption
<1> QED
  BY <1>1 DEF Secrets, None, Unknown

(* What the first step of a list is about.                                 *)
LEMMA FirstDone ==
  ASSUME StoresInv, NEW x, x # "exit", Doing(x), Done
  PROVE  /\ Dropped /\ Ordered' /\ todo # << >> /\ 1 \in Listed
         /\ todo[1][1] = x /\ Name = todo[1][2]
<1>1. /\ Ordered' /\ todo # << >> /\ todo[1][1] = x /\ Name = todo[1][2]
      /\ Len(todo) \in Nat /\ Len(todo') = Len(todo) - 1 /\ Len(todo') \in Nat \ {0}
      /\ \A k \in 1..Len(todo') : todo'[k] = todo[k + 1]
  BY DoneOrdered DEF StoresInv
<1>2. Len(todo) \in Nat \ {0} /\ 1 \in 1..Len(todo)
  BY <1>1
<1> QED
  BY <1>1, <1>2 DEF Dropped, Listed

(* Opening the keyring.                                                    *)
LEMMA RingOpened ==
  ASSUME StoresInv, OpenRing
  PROVE  StoresInv'
<1>1. /\ Dropped /\ Ordered' /\ todo[1][1] = "open"
      /\ opened' = up /\ UNCHANGED <<keyring, fallback, up, last, holding, tokens, sessions>>
  BY FirstDone DEF OpenRing, OpenStore, account
<1>2. RingKnown' /\ RingUsed'
  <2>1. up \/ \A n \in Names : keyring[n] = None
    BY DEF StoresInv, RingUsed
  <2> QED
    BY <1>1, <2>1 DEF StoresInv, RingUsed, RingKnown
<1>3. SecretTypes'
  <2>1. opened' \in BOOLEAN
    BY <1>1 DEF StoresInv, SecretTypes, StoreTypeOK
  <2> QED
    BY <1>1, <2>1 DEF StoresInv, SecretTypes, StoreTypeOK
<1>4. LeftThere'
  BY <1>1 DEF StoresInv, LeftThere, Get
<1>5. /\ \A n : Spare(n) => Spare(n)'
      /\ \A n : Gone(n) => Gone(n)'
      /\ \A n : ~Is(1, "remove", n) /\ ~Is(1, "clear", n)
  BY <1>1 DEF Spare, Gone, Is
<1>6. RingFirst'
  BY <1>1, <1>2, RingDropped DEF StoresInv, ListsInv
<1>7. ClearsSpare'
  BY <1>1, <1>5, ClearsDropped DEF StoresInv, ListsInv
<1>8. StoresLast' /\ TokenHeld' /\ OneToken'
  BY <1>1, StoresDropped, TokenDropped, OneDropped DEF StoresInv, ListsInv
<1>9. ForgetsFirst'
  BY <1>1, <1>5, ForgetsDropped DEF StoresInv, ListsInv
<1> QED
  BY <1>1, <1>2, <1>3, <1>4, <1>6, <1>7, <1>8, <1>9 DEF StoresInv, ListsInv

(* The first half of Delete.                                               *)
LEMMA SecretRemoved ==
  ASSUME StoresInv, "refused" \notin Troubles, RemoveSecret
  PROVE  StoresInv'
<1>1. PICK m : m = Name
  OBVIOUS
<1>2. /\ Dropped /\ Ordered' /\ Is(1, "remove", m) /\ todo[1][1] = "remove" /\ 1 \in Listed
      /\ keyring' = IF RingWorks THEN [keyring EXCEPT ![m] = None] ELSE keyring
      /\ last' = [last EXCEPT ![m] = Unknown]
      /\ UNCHANGED <<fallback, up, opened, holding, tokens, sessions>>
  BY <1>1, FirstDone DEF RemoveSecret, RemoveFromRing, May, account, Is
<1>3. /\ StoreTypeOK /\ RingUsed /\ ListsInv /\ SecretTypes /\ LeftThere
  BY DEF StoresInv, SecretTypes
<1>4. m \in Names /\ RingKnown
  <2>1. todo[1][2] \in Names /\ (RingKnown \/ Before(1, "open", ""))
    BY <1>2, <1>3 DEF ListsInv, RingFirst, Touches
  <2> QED
    BY <1>2, <2>1 DEF Before, Is
<1>5. keyring'[m] = None /\ \A n \in Names \ {m} : keyring'[n] = keyring[n] /\ last'[n] = last[n]
  <2>1. RingWorks \/ \A n \in Names : keyring[n] = None
    BY <1>3, <1>4 DEF RingKnown, RingWorks, RingUsed
  <2> QED
    BY <1>2, <1>3, <1>4, <2>1 DEF StoreTypeOK
<1>6. last'[m] = Unknown
  BY <1>2, <1>3, <1>4 DEF StoreTypeOK
<1>7. RingKnown' /\ RingUsed'
  BY <1>2, <1>3, <1>4, <1>5 DEF RingKnown, RingUsed
<1>8. SecretTypes'
  <2>1. keyring' \in [Names -> Secrets] /\ last' \in [Names -> Secrets \cup {Unknown}]
    BY <1>2, <1>3, SecretBounds DEF StoreTypeOK
  <2> QED
    BY <1>2, <1>3, <2>1 DEF StoreTypeOK, SecretTypes
<1>9. LeftThere'
  BY <1>2, <1>3, <1>5, <1>6 DEF LeftThere, Get
<1>10. \A n \in Names : Spare(n) \/ n = m => Spare(n)'
  BY <1>5, <1>6 DEF Spare
<1>11. RingFirst' /\ StoresLast' /\ TokenHeld' /\ OneToken'
  BY <1>2, <1>3, <1>7, RingDropped, StoresDropped, TokenDropped, OneDropped DEF ListsInv
<1>12. ClearsSpare'
  BY <1>2, <1>3, <1>10, ClearsDropped DEF ListsInv, Is
<1>13. ForgetsFirst'
  <2>1. Key \in Names /\ Salt \in Names
    BY Entries
  <2>2. ASSUME NEW n \in {Key, Salt}
        PROVE  /\ Gone(n) => Gone(n)'
               /\ keyring[n] = None \/ Is(1, "remove", n) => keyring'[n] = None
               /\ ~Is(1, "clear", n)
    BY <1>2, <1>5, <2>1 DEF Gone, Is
  <2> QED
    BY <1>2, <1>3, <2>2, ForgetsDropped DEF ListsInv
<1> QED
  BY <1>2, <1>7, <1>8, <1>9, <1>11, <1>12, <1>13 DEF StoresInv, ListsInv

(* The second half of Delete, and of Set.                                  *)
LEMMA SecretCleared ==
  ASSUME StoresInv, "clearFails" \notin Troubles, ClearSecret
  PROVE  StoresInv'
<1>1. PICK m : m = Name
  OBVIOUS
<1>2. /\ Dropped /\ Ordered' /\ Is(1, "clear", m) /\ todo[1][1] = "clear" /\ 1 \in Listed
      /\ fallback' = [fallback EXCEPT ![m] = None]
      /\ last' = [last EXCEPT ![m] = IF @ = Unknown THEN None ELSE @]
      /\ UNCHANGED <<keyring, up, opened, holding, tokens, sessions>>
  BY <1>1, FirstDone DEF ClearSecret, ClearFallback, May, account, Is
<1>3. /\ StoreTypeOK /\ RingUsed /\ ListsInv /\ SecretTypes /\ LeftThere
  BY DEF StoresInv, SecretTypes
<1>4. m \in Names /\ Spare(m)
  <2>1. m \in Names
    BY <1>2, <1>3 DEF ListsInv, RingFirst, Touches, Is
  <2>2. Spare(m) \/ Before(1, "remove", m)
    BY <1>2, <1>3, <2>1 DEF ListsInv, ClearsSpare
  <2> QED
    BY <2>1, <2>2 DEF Before
<1>5. /\ fallback'[m] = None /\ last'[m] = IF last[m] = Unknown THEN None ELSE last[m]
      /\ \A n \in Names \ {m} : fallback'[n] = fallback[n] /\ last'[n] = last[n]
  BY <1>2, <1>3, <1>4 DEF StoreTypeOK
<1>6. RingKnown => RingKnown'
  BY <1>2 DEF RingKnown
<1>7. RingUsed'
  BY <1>2, <1>3 DEF RingUsed
<1>8. SecretTypes'
  <2>1. /\ fallback' \in [Names -> Secrets] /\ last' \in [Names -> Secrets \cup {Unknown}]
    BY <1>2, <1>3, SecretBounds DEF StoreTypeOK
  <2> QED
    BY <1>2, <1>3, <2>1 DEF StoreTypeOK, SecretTypes
<1>9. LeftThere'
  BY <1>2, <1>3, <1>4, <1>5 DEF LeftThere, Get, Spare
<1>10. \A n \in Names : Spare(n) => Spare(n)'
  BY <1>2, <1>5 DEF Spare
<1>11. RingFirst' /\ StoresLast' /\ TokenHeld' /\ OneToken'
  BY <1>2, <1>3, <1>6, RingDropped, StoresDropped, TokenDropped, OneDropped DEF ListsInv
<1>12. ClearsSpare'
  BY <1>2, <1>3, <1>10, ClearsDropped DEF ListsInv, Is
<1>13. ForgetsFirst'
  <2>1. Key \in Names /\ Salt \in Names
    BY Entries
  <2>2. ASSUME NEW n \in {Key, Salt}
        PROVE  /\ Gone(n) => Gone(n)'
               /\ keyring[n] = None \/ Is(1, "remove", n) => keyring'[n] = None
               /\ Is(1, "clear", n) /\ keyring[n] = None => Gone(n)'
    BY <1>2, <1>5, <2>1 DEF Gone, Is
  <2> QED
    BY <1>2, <1>3, <2>2, ForgetsDropped DEF ListsInv
<1> QED
  BY <1>2, <1>7, <1>8, <1>9, <1>11, <1>12, <1>13 DEF StoresInv, ListsInv

(* Another sign-in.                                                        *)
LEMMA SignedIn ==
  ASSUME StoresInv, SignIn
  PROVE  StoresInv'
<1>1. /\ Dropped /\ Ordered' /\ todo[1][1] = "signIn" /\ 1 \in Listed
      /\ tokens' = tokens + 1 /\ sessions' = sessions \cup {tokens'} /\ holding' = tokens'
      /\ UNCHANGED store /\ UNCHANGED <<keyring, fallback, up, opened, last>>
  BY FirstDone DEF SignIn, store
<1>2. tokens < MaxSecret /\ tokens \in Secrets
  BY <1>1 DEF StoresInv, ListsInv, OneToken, SecretTypes
<1>3. tokens' \in 1..MaxSecret
  BY <1>1, <1>2, SecretBounds
<1>4. SecretTypes'
  <2>1. StoreTypeOK'
    BY <1>1 DEF StoresInv, SecretTypes, StoreTypeOK
  <2>2. tokens' \in Secrets /\ sessions' \subseteq 1..MaxSecret
    BY <1>1, <1>3, SecretBounds DEF StoresInv, SecretTypes
  <2> QED
    BY <1>1, <2>1, <2>2 DEF SecretTypes
<1>5. RingUsed' /\ LeftThere'
  BY <1>1 DEF StoresInv, RingUsed, LeftThere, Get
<1>6. /\ RingKnown => RingKnown'
      /\ \A n : Spare(n) => Spare(n)'
      /\ \A n : Gone(n) => Gone(n)'
      /\ \A n : ~Is(1, "remove", n) /\ ~Is(1, "clear", n)
  BY <1>1 DEF RingKnown, Spare, Gone, Is
<1>7. RingFirst' /\ StoresLast' /\ OneToken'
  BY <1>1, <1>6, RingDropped, StoresDropped, OneDropped DEF StoresInv, ListsInv
<1>8. ClearsSpare'
  BY <1>1, <1>6, ClearsDropped DEF StoresInv, ListsInv
<1>9. TokenHeld'
  <2>1. holding' # None
    BY <1>1, <1>3, SecretBounds DEF None
  <2> QED
    BY <1>1, <2>1, TokenDropped DEF StoresInv, ListsInv
<1>10. ForgetsFirst'
  BY <1>1, <1>6, ForgetsDropped DEF StoresInv, ListsInv
<1> QED
  BY <1>1, <1>4, <1>5, <1>7, <1>8, <1>9, <1>10 DEF StoresInv, ListsInv

(* Set, in the keyring: the next step clears the other place.              *)
LEMMA StoredInRing ==
  ASSUME StoresInv, Doing("store"), StoreInRing(Name, Value(Name)),
         todo' = <<Clear(Name)>> \o Tail(todo), UNCHANGED <<holding, tokens, sessions>>
  PROVE  StoresInv'
<1>1. PICK m, v : m = Name /\ v = Value(m)
  OBVIOUS
<1>2. todo # << >> /\ 1 \in Listed /\ todo[1][1] = "store" /\ Is(1, "store", m)
      /\ todo \in Seq(Entry) /\ Len(todo) \in Nat \ {0}
  BY <1>1, DoingFirst, Rest DEF StoresInv, Is, Name, Ordered, Doing
<1>3. /\ RingWorks /\ keyring' = [keyring EXCEPT ![m] = v] /\ last' = [last EXCEPT ![m] = v]
      /\ UNCHANGED <<fallback, up, opened>>
  BY <1>1 DEF StoreInRing
<1>4. /\ StoreTypeOK /\ RingUsed /\ ListsInv /\ SecretTypes /\ LeftThere /\ Ordered
  BY DEF StoresInv, SecretTypes
<1>5. m \in Names
  BY <1>2, <1>4 DEF ListsInv, RingFirst, Touches, Is
<1>6. v \in Secrets \ {None} /\ v # Unknown
  <2>1. m = Token => holding # None
    <3>1. Is(1, "store", Token) => holding # None \/ Before(1, "signIn", "")
      BY <1>2, <1>4 DEF ListsInv, TokenHeld
    <3>2. ~Before(1, "signIn", "")
      BY DEF Before
    <3> QED
      BY <1>2, <3>1, <3>2
  <2>2. v = IF m = Token THEN holding ELSE 1
    BY <1>1 DEF Value
  <2> QED
    BY <1>4, <2>1, <2>2, SecretBounds DEF SecretTypes
<1>7. /\ Ordered' /\ Len(todo') = Len(todo) /\ Listed' = Listed
      /\ Is(1, "clear", m)' /\ \A k \in 2..Len(todo) : todo'[k] = todo[k]
  <2>1. Clear(m) \in Entry /\ Clear(m)[1] = "clear" /\ Clear(m)[2] = m
    BY <1>5, Entries
  <2>2. todo[1] # Exit
    BY <1>2, Entries
  <2>3. /\ Ordered' /\ Len(todo') = Len(todo) /\ todo'[1] = Clear(m)
        /\ \A k \in 2..Len(todo) : todo'[k] = todo[k]
    BY <1>1, <1>2, <1>4, <2>1, <2>2, ReplacedOrdered
  <2> QED
    BY <2>1, <2>3 DEF Listed, Is
<1>8. /\ keyring'[m] = v /\ last'[m] = v
      /\ \A n \in Names \ {m} : keyring'[n] = keyring[n] /\ last'[n] = last[n]
  BY <1>3, <1>4, <1>5 DEF StoreTypeOK
<1>9. SecretTypes' /\ RingUsed' /\ LeftThere'
  <2>1. keyring' \in [Names -> Secrets] /\ last' \in [Names -> Secrets \cup {Unknown}]
    BY <1>3, <1>4, <1>6 DEF StoreTypeOK
  <2>2. SecretTypes'
    BY <1>3, <1>4, <2>1 DEF StoreTypeOK, SecretTypes
  <2>3. RingUsed'
    BY <1>3 DEF RingUsed, RingWorks
  <2>4. LeftThere'
    BY <1>3, <1>4, <1>6, <1>8 DEF LeftThere, Get
  <2> QED
    BY <2>2, <2>3, <2>4
<1>10. ASSUME NEW k \in Listed, k # 1
       PROVE  todo'[k] = todo[k] /\ todo[k][1] \notin {"clear", "removeConfig"}
  <2>1. k \in 2..Len(todo) /\ 1 < k
    BY <1>10 DEF Listed
  <2> QED
    BY <1>2, <1>4, <1>7, <2>1 DEF ListsInv, StoresLast
<1>11. RingFirst'
  BY <1>3, <1>4, <1>5, <1>7, <1>10 DEF ListsInv, RingFirst, Touches, Is, RingKnown, RingWorks
<1>12. ClearsSpare'
  <2>1. Spare(m)'
    BY <1>6, <1>8 DEF Spare
  <2> QED
    BY <1>7, <1>10, <2>1 DEF ClearsSpare, Is
<1>13. StoresLast' /\ OneToken' /\ ForgetsFirst'
  <2>0. todo'[1][1] = "clear"
    BY <1>7 DEF Is
  <2>1. StoresLast'
    <3> SUFFICES ASSUME NEW j \in Listed, NEW k \in Listed, j < k, todo'[j][1] = "store"
                 PROVE  todo'[k][1] \notin {"clear", "removeConfig"}
      BY <1>7 DEF StoresLast
    <3>1. k # 1
      BY <1>2 DEF Listed
    <3> QED
      BY <1>10, <3>1
  <2>2. OneToken'
    <3> SUFFICES ASSUME NEW k \in Listed, todo'[k][1] = "signIn"
                 PROVE  /\ todo'[k][2] = "" /\ tokens' < MaxSecret
                        /\ \A j \in Listed : todo'[j][1] = "signIn" => j = k
      BY <1>7 DEF OneToken
    <3>1. k # 1 /\ todo'[k] = todo[k]
      BY <1>10, <2>0
    <3>2. /\ todo[k][2] = "" /\ tokens < MaxSecret
          /\ \A j \in Listed : todo[j][1] = "signIn" => j = k
      BY <1>4, <3>1 DEF ListsInv, OneToken
    <3>3. \A j \in Listed : todo'[j][1] = "signIn" => j = k
      BY <1>10, <2>0, <3>2
    <3> QED
      BY <3>1, <3>2, <3>3
  <2>3. ForgetsFirst'
    BY <1>7, <1>10 DEF ForgetsFirst, Is
  <2> QED
    BY <2>1, <2>2, <2>3
<1>14. TokenHeld'
  <2> SUFFICES ASSUME NEW k \in Listed, Is(k, "store", Token)'
               PROVE  holding' # None \/ Before(k, "signIn", "")'
    BY <1>7 DEF TokenHeld
  <2>1. k # 1 /\ Is(k, "store", Token)
    BY <1>7, <1>10 DEF Is
  <2>2. holding # None \/ Before(k, "signIn", "")
    BY <1>4, <2>1 DEF ListsInv, TokenHeld
  <2>3. ASSUME NEW j \in 1..(k - 1), Is(j, "signIn", "") PROVE Is(j, "signIn", "")'
    <3>1. j # 1
      BY <1>2, <2>3 DEF Is
    <3>2. j \in Listed
      BY <1>2 DEF Listed
    <3> QED
      BY <1>10, <2>3, <3>1, <3>2 DEF Is
  <2> QED
    BY <2>2, <2>3 DEF Before
<1> QED
  BY <1>7, <1>9, <1>11, <1>12, <1>13, <1>14 DEF StoresInv, ListsInv

(* Set, where there is no keyring.                                         *)
LEMMA StoredInFallback ==
  ASSUME StoresInv, "refused" \notin Troubles, Doing("store"),
         StoreInFallback(Name, Value(Name)), Done, UNCHANGED <<holding, tokens, sessions>>
  PROVE  StoresInv'
<1>1. PICK m, v : m = Name /\ v = Value(m)
  OBVIOUS
<1>2. /\ Dropped /\ Ordered' /\ Is(1, "store", m) /\ todo[1][1] = "store" /\ 1 \in Listed
      /\ Len(todo) \in Nat
  BY <1>1, FirstDone DEF Is, Dropped
<1>3. /\ ~RingWorks /\ fallback' = [fallback EXCEPT ![m] = v] /\ last' = [last EXCEPT ![m] = v]
      /\ UNCHANGED <<keyring, up, opened>>
  BY <1>1 DEF StoreInFallback
<1>4. /\ StoreTypeOK /\ RingUsed /\ ListsInv /\ SecretTypes /\ LeftThere /\ Ordered
  BY DEF StoresInv, SecretTypes
<1>5. m \in Names /\ RingKnown
  <2>1. todo[1][2] \in Names /\ (RingKnown \/ Before(1, "open", ""))
    BY <1>2, <1>4 DEF ListsInv, RingFirst, Touches
  <2> QED
    BY <1>2, <2>1 DEF Before, Is
<1>6. v \in Secrets
  <2>1. v = IF m = Token THEN holding ELSE 1
    BY <1>1 DEF Value
  <2> QED
    BY <1>4, <2>1, SecretBounds DEF SecretTypes
<1>7. \A n \in Names : keyring[n] = None
  BY <1>3, <1>4, <1>5 DEF RingKnown, RingUsed, RingWorks
<1>8. /\ fallback'[m] = v /\ last'[m] = v
      /\ \A n \in Names \ {m} : fallback'[n] = fallback[n] /\ last'[n] = last[n]
  BY <1>3, <1>4, <1>5 DEF StoreTypeOK
<1>9. SecretTypes'
  <2>1. fallback' \in [Names -> Secrets] /\ last' \in [Names -> Secrets \cup {Unknown}]
    BY <1>3, <1>4, <1>6 DEF StoreTypeOK
  <2> QED
    BY <1>3, <1>4, <2>1 DEF StoreTypeOK, SecretTypes
<1>10. RingUsed' /\ (RingKnown => RingKnown')
  BY <1>3, <1>4 DEF RingUsed, RingKnown
<1>11. LeftThere'
  BY <1>3, <1>4, <1>7, <1>8 DEF LeftThere, Get
<1>12. \A k \in Listed \ {1} : todo[k][1] \notin {"clear", "removeConfig"}
  BY <1>2, <1>4 DEF ListsInv, StoresLast, Listed
<1>13. RingFirst' /\ StoresLast' /\ TokenHeld' /\ OneToken'
  BY <1>2, <1>4, <1>10, RingDropped, StoresDropped, TokenDropped, OneDropped DEF ListsInv
<1>14. ClearsSpare'
  BY <1>2, <1>4, <1>12, ClearsDropped DEF ListsInv, Is
<1>15. ForgetsFirst'
  BY <1>2, <1>4, <1>12, ForgetsDropped DEF ListsInv
<1> QED
  BY <1>2, <1>9, <1>10, <1>11, <1>13, <1>14, <1>15 DEF StoresInv, ListsInv

(* Where there is nothing left to do, or nothing but the end.              *)
LEMMA ListsEmpty ==
  ASSUME todo' = << >> \/ todo' = <<Exit>>
  PROVE  ListsInv'
<1>1. \A k \in Listed' : k = 1 /\ todo'[k][1] = "exit"
  <2>1. CASE todo' = << >>
    BY <2>1 DEF Listed
  <2>2. CASE todo' = <<Exit>>
    <3>1. \A e : Len(<<e>>) = 1 /\ <<e>>[1] = e
      OBVIOUS
    <3>2. Len(todo') = 1 /\ todo'[1] = Exit
      BY <2>2, <3>1
    <3> QED
      BY <3>2, Entries DEF Listed
  <2> QED
    BY <2>1, <2>2
<1> QED
  BY <1>1 DEF ListsInv, RingFirst, Touches, ClearsSpare, StoresLast, TokenHeld, OneToken,
              ForgetsFirst, Is

(* What does not touch the secrets.                                        *)
LEMMA SecretsAside ==
  ASSUME StoresInv, UNCHANGED <<store, holding, tokens>>, sessions' \subseteq sessions,
         Ordered', ListsInv'
  PROVE  StoresInv'
<1>1. UNCHANGED <<keyring, fallback, up, opened, last>>
  BY DEF store
<1>2. SecretTypes' /\ RingUsed' /\ LeftThere'
  BY <1>1 DEF StoresInv, SecretTypes, StoreTypeOK, RingUsed, LeftThere, Get
<1> QED
  BY <1>2 DEF StoresInv

LEMMA SameLists ==
  ASSUME ListsInv, UNCHANGED <<keyring, fallback, opened, last, todo, holding, tokens>>
  PROVE  ListsInv'
<1>2. RingFirst' /\ ClearsSpare'
  <2>1. /\ RingKnown => RingKnown'
        /\ \A n : Spare(n) => Spare(n)'
    BY DEF RingKnown, Spare
  <2>2. RingFirst'
    BY <2>1 DEF ListsInv, RingFirst, Touches, Is, Before, Listed
  <2>3. ClearsSpare'
    BY <2>1 DEF ListsInv, ClearsSpare, Is, Before, Listed
  <2> QED
    BY <2>2, <2>3
<1>3. StoresLast' /\ TokenHeld' /\ OneToken'
  <2>1. StoresLast'
    BY DEF ListsInv, StoresLast, Listed
  <2>2. TokenHeld'
    BY DEF ListsInv, TokenHeld, Is, Before, Listed
  <2>3. OneToken'
    BY DEF ListsInv, OneToken, Listed
  <2> QED
    BY <2>1, <2>2, <2>3
<1>4. ForgetsFirst'
  BY DEF ListsInv, ForgetsFirst, Is, Before, Listed, Gone
<1> QED
  BY <1>2, <1>3, <1>4 DEF ListsInv

(* The steps of a command.                                                 *)
LEMMA SecretsGoOn ==
  ASSUME StoresInv, StoreTroubles \cap Troubles = {}, GoesOn
  PROVE  StoresInv'
<1>0. "refused" \notin Troubles /\ "clearFails" \notin Troubles
  BY DEF StoreTroubles
<1>1. CASE OpenRing \/ RemoveSecret \/ ClearSecret \/ SignIn
  BY <1>0, <1>1, RingOpened, SecretRemoved, SecretCleared, SignedIn
<1>2. CASE StoreSecret
  <2>1. Doing("store") /\ UNCHANGED <<holding, tokens, sessions>>
    BY <1>2 DEF StoreSecret, account
  <2> QED
    BY <1>0, <1>2, <2>1, StoredInRing, StoredInFallback DEF StoreSecret
<1>3. ASSUME NEW x \in {"signOut", "writeConfig", "removeConfig", "moveState", "list", "scan",
                        "transfer", "writeCache"},
             Doing(x), Done, UNCHANGED <<store, holding, tokens>>, sessions' \subseteq sessions
      PROVE  StoresInv'
  <2>1. Dropped /\ Ordered' /\ todo[1][1] = x
    BY <1>3, FirstDone
  <2>2. ListsInv'
    BY <1>3, <2>1, ListsDropped DEF StoresInv
  <2> QED
    BY <1>3, <2>1, <2>2, SecretsAside
<1>4. CASE SignOut
  BY <1>3, <1>4 DEF SignOut, StoresInv, SecretTypes
<1>5. CASE WriteConfig \/ RemoveConfig \/ MoveState \/ PublishDone
  BY <1>3, <1>5 DEF WriteConfig, RemoveConfig, MoveState, PublishDone, account
<1>6. CASE PublishStep
  <2>1. UNCHANGED <<store, holding, tokens, sessions>>
    BY <1>6 DEF PublishStep, account
  <2>2. CASE todo' = <<Exit>>
    BY <2>1, <2>2, EndsOrdered, ListsEmpty, SecretsAside
  <2>3. CASE UNCHANGED todo
    <3>1. ListsInv'
      BY <2>1, <2>3, SameLists DEF StoresInv, store
    <3> QED
      BY <2>1, <2>3, <3>1, SameOrdered, SecretsAside DEF StoresInv
  <2>4. CASE Done
    BY <1>3, <1>6, <2>1, <2>4 DEF PublishStep
  <2> QED
    BY <1>6, <2>2, <2>3, <2>4 DEF PublishStep
<1> QED
  BY <1>1, <1>2, <1>4, <1>5, <1>6 DEF GoesOn

(* A command has all its steps before it.  s is its list of steps, t the   *)
(* number of tokens that were given out.                                   *)
Has(s, k, x, n) == s[k][1] = x /\ s[k][2] = n
Ahead(s, k, x, n) == \E j \in 1..(k - 1) : Has(s, j, x, n)

Fresh(s, t) ==
  /\ \A k \in 1..Len(s) : s[k][1] \in {"store", "remove", "clear"} =>
       s[k][2] \in Names /\ Ahead(s, k, "open", "")
  /\ \A k \in 1..Len(s), n \in Names : Has(s, k, "clear", n) => Ahead(s, k, "remove", n)
  /\ \A j, k \in 1..Len(s) :
       j < k /\ s[j][1] = "store" => s[k][1] \notin {"clear", "removeConfig"}
  /\ \A k \in 1..Len(s) : Has(s, k, "store", Token) => Ahead(s, k, "signIn", "")
  /\ \A k \in 1..Len(s) : s[k][1] = "signIn" =>
       /\ s[k][2] = "" /\ t < MaxSecret
       /\ \A j \in 1..Len(s) : s[j][1] = "signIn" => j = k
  /\ \A k \in 1..Len(s) : s[k][1] = "removeConfig" =>
       \A n \in {Key, Salt} : \E j \in 1..(k - 1) : Has(s, j, "clear", n) /\ Ahead(s, j, "remove", n)

(* The steps of such a command satisfy what the invariant says of them.    *)
LEMMA FreshLists ==
  ASSUME Fresh(todo', tokens')
  PROVE  ListsInv'
<1>1. \A k, x, n : Ahead(todo', k, x, n) => Before(k, x, n)'
  BY DEF Ahead, Has, Before, Is
<1>2. \A k, x, n : Has(todo', k, x, n) <=> Is(k, x, n)'
  BY DEF Has, Is
<1>3. \A k : Touches(k)' <=> todo'[k][1] \in {"store", "remove", "clear"}
  BY DEF Touches
<1>4. Listed' = 1..Len(todo')
  BY DEF Listed
<1>5. RingFirst'
  BY <1>1, <1>3, <1>4 DEF Fresh, RingFirst
<1>6. ClearsSpare'
  BY <1>1, <1>2, <1>4 DEF Fresh, ClearsSpare
<1>7. StoresLast' /\ OneToken'
  BY <1>4 DEF Fresh, StoresLast, OneToken
<1>8. TokenHeld'
  BY <1>1, <1>2, <1>4 DEF Fresh, TokenHeld
<1>9. ForgetsFirst'
  BY <1>1, <1>2, <1>4 DEF Fresh, ForgetsFirst
<1> QED
  BY <1>5, <1>6, <1>7, <1>8, <1>9 DEF ListsInv

(* The names in the lists of the commands.                                 *)
LEMMA EntryNames ==
  /\ \A x \in Kinds : Do(x)[2] = ""
  /\ Open[2] = "" /\ Exit[2] = ""
  /\ Token # Key /\ Token # Salt /\ Key # Salt
  BY DEF Do, Open, Exit, Token, Key, Salt

(* Places in lists, for the provers.                                       *)
LEMMA Spans ==
  /\ 1 \in 1..(2 - 1)
  /\ 1 \in 1..(3 - 1)
  /\ 1 \in 1..(4 - 1)
  /\ 1 \in 1..(5 - 1)
  /\ 2 \in 1..(3 - 1)
  /\ 2 \in 1..(4 - 1)
  /\ 3 \in 1..(4 - 1)
  /\ 4 \in 1..(5 - 1)
  /\ 5 \in 1..(7 - 1)
  /\ 6 \in 1..(7 - 1)
  /\ 3 \in 1..5 /\ 5 \in 1..5 /\ 5 = 6 - 1 /\ ~(7 < 4)
  OBVIOUS

(* The places in a list.                                                   *)
LEMMA Upto4 == \A k \in 1..4 : k = 1 \/ k = 2 \/ k = 3 \/ k = 4
  OBVIOUS

LEMMA Upto5 == \A k \in 1..5 : k = 1 \/ k = 2 \/ k = 3 \/ k = 4 \/ k = 5
  OBVIOUS

LEMMA Upto7 == \A k \in 1..7 : k = 1 \/ k = 2 \/ k = 3 \/ k = 4 \/ k = 5 \/ k = 6 \/ k = 7
  OBVIOUS

LEMMA Upto8 == \A k \in 1..8 : k = 1 \/ k = 2 \/ k = 3 \/ k = 4 \/ k = 5 \/ k = 6 \/ k = 7 \/ k = 8
  OBVIOUS

(* Such are the lists of the commands that have to do with secrets.        *)
LEMMA FreshLogin ==
  ASSUME NEW s, NEW t, Len(s) = 4, t < MaxSecret,
         Has(s, 1, "signIn", ""),
         Has(s, 2, "open", ""),
         Has(s, 3, "store", Token),
         Has(s, 4, "exit", "")
  PROVE  Fresh(s, t)
<1>1. \A k \in 1..Len(s) : k = 1 \/ k = 2 \/ k = 3 \/ k = 4
  BY Upto4, Zenon
<1>2. /\ s[1][1] = "signIn" /\ s[1][2] = ""
      /\ s[2][1] = "open" /\ s[2][2] = ""
      /\ s[3][1] = "store" /\ s[3][2] = Token
      /\ s[4][1] = "exit" /\ s[4][2] = ""
  BY DEF Has
<1>3. \A k \in 1..Len(s) : /\ s[k][1] = "store" => k = 3
                           /\ s[k][1] # "remove"
                           /\ s[k][1] # "clear"
                           /\ s[k][1] = "signIn" => k = 1
                           /\ s[k][1] # "removeConfig"
  BY <1>1, <1>2
<1>4. /\ Ahead(s, 3, "open", "")
      /\ Ahead(s, 3, "signIn", "")
  <2>1. Ahead(s, 3, "open", "")
    BY Spans, Zenon DEF Ahead
  <2>2. Ahead(s, 3, "signIn", "")
    BY Spans, Zenon DEF Ahead
  <2> QED
    BY <2>1, <2>2
<1>5. Token \in Names /\ Key \in Names /\ Salt \in Names /\ Token # Key /\ Token # Salt
  BY Entries, EntryNames
<1>11. \A k \in 1..Len(s) : s[k][1] \in {"store", "remove", "clear"} =>
         s[k][2] \in Names /\ Ahead(s, k, "open", "")
  BY <1>2, <1>3, <1>4, <1>5
<1>12. \A k \in 1..Len(s), n \in Names : Has(s, k, "clear", n) => Ahead(s, k, "remove", n)
  BY <1>2, <1>3, <1>4 DEF Has
<1>13. \A j, k \in 1..Len(s) :
         j < k /\ s[j][1] = "store" => s[k][1] \notin {"clear", "removeConfig"}
  BY <1>3, Spans, Zenon
<1>14. \A k \in 1..Len(s) : Has(s, k, "store", Token) => Ahead(s, k, "signIn", "")
  BY <1>2, <1>3, <1>4, <1>5 DEF Has
<1>15. \A k \in 1..Len(s) : s[k][1] = "signIn" =>
         /\ s[k][2] = "" /\ t < MaxSecret
         /\ \A j \in 1..Len(s) : s[j][1] = "signIn" => j = k
  BY <1>2, <1>3
<1>16. \A k \in 1..Len(s) : s[k][1] = "removeConfig" =>
         \A n \in {Key, Salt} : \E j \in 1..(k - 1) : Has(s, j, "clear", n) /\ Ahead(s, j, "remove", n)
  BY <1>3
<1> QED
  BY <1>11, <1>12, <1>13, <1>14, <1>15, <1>16 DEF Fresh

(* To log out,                                                             *)
LEMMA FreshLogout ==
  ASSUME NEW s, NEW t, Len(s) = 5,
         Has(s, 1, "signOut", ""),
         Has(s, 2, "open", ""),
         Has(s, 3, "remove", Token),
         Has(s, 4, "clear", Token),
         Has(s, 5, "exit", "")
  PROVE  Fresh(s, t)
<1>1. \A k \in 1..Len(s) : k = 1 \/ k = 2 \/ k = 3 \/ k = 4 \/ k = 5
  BY Upto5, Zenon
<1>2. /\ s[1][1] = "signOut" /\ s[1][2] = ""
      /\ s[2][1] = "open" /\ s[2][2] = ""
      /\ s[3][1] = "remove" /\ s[3][2] = Token
      /\ s[4][1] = "clear" /\ s[4][2] = Token
      /\ s[5][1] = "exit" /\ s[5][2] = ""
  BY DEF Has
<1>3. \A k \in 1..Len(s) : /\ s[k][1] # "store"
                           /\ s[k][1] = "remove" => k = 3
                           /\ s[k][1] = "clear" => k = 4
                           /\ s[k][1] # "signIn"
                           /\ s[k][1] # "removeConfig"
  BY <1>1, <1>2
<1>4. /\ Ahead(s, 3, "open", "")
      /\ Ahead(s, 4, "open", "")
      /\ Ahead(s, 4, "remove", Token)
  <2>1. Ahead(s, 3, "open", "")
    BY Spans, Zenon DEF Ahead
  <2>2. Ahead(s, 4, "open", "")
    BY Spans, Zenon DEF Ahead
  <2>3. Ahead(s, 4, "remove", Token)
    BY Spans, Zenon DEF Ahead
  <2> QED
    BY <2>1, <2>2, <2>3
<1>5. Token \in Names /\ Key \in Names /\ Salt \in Names /\ Token # Key /\ Token # Salt
  BY Entries, EntryNames
<1>11. \A k \in 1..Len(s) : s[k][1] \in {"store", "remove", "clear"} =>
         s[k][2] \in Names /\ Ahead(s, k, "open", "")
  BY <1>2, <1>3, <1>4, <1>5
<1>12. \A k \in 1..Len(s), n \in Names : Has(s, k, "clear", n) => Ahead(s, k, "remove", n)
  BY <1>2, <1>3, <1>4 DEF Has
<1>13. \A j, k \in 1..Len(s) :
         j < k /\ s[j][1] = "store" => s[k][1] \notin {"clear", "removeConfig"}
  BY <1>3, Spans, Zenon
<1>14. \A k \in 1..Len(s) : Has(s, k, "store", Token) => Ahead(s, k, "signIn", "")
  BY <1>2, <1>3, <1>4, <1>5 DEF Has
<1>15. \A k \in 1..Len(s) : s[k][1] = "signIn" =>
         /\ s[k][2] = "" /\ t < MaxSecret
         /\ \A j \in 1..Len(s) : s[j][1] = "signIn" => j = k
  BY <1>2, <1>3
<1>16. \A k \in 1..Len(s) : s[k][1] = "removeConfig" =>
         \A n \in {Key, Salt} : \E j \in 1..(k - 1) : Has(s, j, "clear", n) /\ Ahead(s, j, "remove", n)
  BY <1>3
<1> QED
  BY <1>11, <1>12, <1>13, <1>14, <1>15, <1>16 DEF Fresh

(* to forget a token that is no longer valid,                              *)
LEMMA FreshForget ==
  ASSUME NEW s, NEW t, Len(s) = 4,
         Has(s, 1, "open", ""),
         Has(s, 2, "remove", Token),
         Has(s, 3, "clear", Token),
         Has(s, 4, "exit", "")
  PROVE  Fresh(s, t)
<1>1. \A k \in 1..Len(s) : k = 1 \/ k = 2 \/ k = 3 \/ k = 4
  BY Upto4, Zenon
<1>2. /\ s[1][1] = "open" /\ s[1][2] = ""
      /\ s[2][1] = "remove" /\ s[2][2] = Token
      /\ s[3][1] = "clear" /\ s[3][2] = Token
      /\ s[4][1] = "exit" /\ s[4][2] = ""
  BY DEF Has
<1>3. \A k \in 1..Len(s) : /\ s[k][1] # "store"
                           /\ s[k][1] = "remove" => k = 2
                           /\ s[k][1] = "clear" => k = 3
                           /\ s[k][1] # "signIn"
                           /\ s[k][1] # "removeConfig"
  BY <1>1, <1>2
<1>4. /\ Ahead(s, 2, "open", "")
      /\ Ahead(s, 3, "open", "")
      /\ Ahead(s, 3, "remove", Token)
  <2>1. Ahead(s, 2, "open", "")
    BY Spans, Zenon DEF Ahead
  <2>2. Ahead(s, 3, "open", "")
    BY Spans, Zenon DEF Ahead
  <2>3. Ahead(s, 3, "remove", Token)
    BY Spans, Zenon DEF Ahead
  <2> QED
    BY <2>1, <2>2, <2>3
<1>5. Token \in Names /\ Key \in Names /\ Salt \in Names /\ Token # Key /\ Token # Salt
  BY Entries, EntryNames
<1>11. \A k \in 1..Len(s) : s[k][1] \in {"store", "remove", "clear"} =>
         s[k][2] \in Names /\ Ahead(s, k, "open", "")
  BY <1>2, <1>3, <1>4, <1>5
<1>12. \A k \in 1..Len(s), n \in Names : Has(s, k, "clear", n) => Ahead(s, k, "remove", n)
  BY <1>2, <1>3, <1>4 DEF Has
<1>13. \A j, k \in 1..Len(s) :
         j < k /\ s[j][1] = "store" => s[k][1] \notin {"clear", "removeConfig"}
  BY <1>3, Spans, Zenon
<1>14. \A k \in 1..Len(s) : Has(s, k, "store", Token) => Ahead(s, k, "signIn", "")
  BY <1>2, <1>3, <1>4, <1>5 DEF Has
<1>15. \A k \in 1..Len(s) : s[k][1] = "signIn" =>
         /\ s[k][2] = "" /\ t < MaxSecret
         /\ \A j \in 1..Len(s) : s[j][1] = "signIn" => j = k
  BY <1>2, <1>3
<1>16. \A k \in 1..Len(s) : s[k][1] = "removeConfig" =>
         \A n \in {Key, Salt} : \E j \in 1..(k - 1) : Has(s, j, "clear", n) /\ Ahead(s, j, "remove", n)
  BY <1>3
<1> QED
  BY <1>11, <1>12, <1>13, <1>14, <1>15, <1>16 DEF Fresh

(* to log out and in again,                                                *)
LEMMA FreshBoth ==
  ASSUME NEW s, NEW t, Len(s) = 8, t < MaxSecret,
         Has(s, 1, "signOut", ""),
         Has(s, 2, "open", ""),
         Has(s, 3, "remove", Token),
         Has(s, 4, "clear", Token),
         Has(s, 5, "signIn", ""),
         Has(s, 6, "open", ""),
         Has(s, 7, "store", Token),
         Has(s, 8, "exit", "")
  PROVE  Fresh(s, t)
<1>1. \A k \in 1..Len(s) : k = 1 \/ k = 2 \/ k = 3 \/ k = 4 \/ k = 5 \/ k = 6 \/ k = 7 \/ k = 8
  BY Upto8, Zenon
<1>2. /\ s[1][1] = "signOut" /\ s[1][2] = ""
      /\ s[2][1] = "open" /\ s[2][2] = ""
      /\ s[3][1] = "remove" /\ s[3][2] = Token
      /\ s[4][1] = "clear" /\ s[4][2] = Token
      /\ s[5][1] = "signIn" /\ s[5][2] = ""
      /\ s[6][1] = "open" /\ s[6][2] = ""
      /\ s[7][1] = "store" /\ s[7][2] = Token
      /\ s[8][1] = "exit" /\ s[8][2] = ""
  BY DEF Has
<1>3. \A k \in 1..Len(s) : /\ s[k][1] = "store" => k = 7
                           /\ s[k][1] = "remove" => k = 3
                           /\ s[k][1] = "clear" => k = 4
                           /\ s[k][1] = "signIn" => k = 5
                           /\ s[k][1] # "removeConfig"
  BY <1>1, <1>2
<1>4. /\ Ahead(s, 3, "open", "")
      /\ Ahead(s, 4, "open", "")
      /\ Ahead(s, 7, "open", "")
      /\ Ahead(s, 4, "remove", Token)
      /\ Ahead(s, 7, "signIn", "")
  <2>1. Ahead(s, 3, "open", "")
    BY Spans, Zenon DEF Ahead
  <2>2. Ahead(s, 4, "open", "")
    BY Spans, Zenon DEF Ahead
  <2>3. Ahead(s, 7, "open", "")
    BY Spans, Zenon DEF Ahead
  <2>4. Ahead(s, 4, "remove", Token)
    BY Spans, Zenon DEF Ahead
  <2>5. Ahead(s, 7, "signIn", "")
    BY Spans, Zenon DEF Ahead
  <2> QED
    BY <2>1, <2>2, <2>3, <2>4, <2>5
<1>5. Token \in Names /\ Key \in Names /\ Salt \in Names /\ Token # Key /\ Token # Salt
  BY Entries, EntryNames
<1>11. \A k \in 1..Len(s) : s[k][1] \in {"store", "remove", "clear"} =>
         s[k][2] \in Names /\ Ahead(s, k, "open", "")
  BY <1>2, <1>3, <1>4, <1>5
<1>12. \A k \in 1..Len(s), n \in Names : Has(s, k, "clear", n) => Ahead(s, k, "remove", n)
  BY <1>2, <1>3, <1>4 DEF Has
<1>13. \A j, k \in 1..Len(s) :
         j < k /\ s[j][1] = "store" => s[k][1] \notin {"clear", "removeConfig"}
  BY <1>3, Spans, Zenon
<1>14. \A k \in 1..Len(s) : Has(s, k, "store", Token) => Ahead(s, k, "signIn", "")
  BY <1>2, <1>3, <1>4, <1>5 DEF Has
<1>15. \A k \in 1..Len(s) : s[k][1] = "signIn" =>
         /\ s[k][2] = "" /\ t < MaxSecret
         /\ \A j \in 1..Len(s) : s[j][1] = "signIn" => j = k
  BY <1>2, <1>3
<1>16. \A k \in 1..Len(s) : s[k][1] = "removeConfig" =>
         \A n \in {Key, Salt} : \E j \in 1..(k - 1) : Has(s, j, "clear", n) /\ Ahead(s, j, "remove", n)
  BY <1>3
<1> QED
  BY <1>11, <1>12, <1>13, <1>14, <1>15, <1>16 DEF Fresh

(* to unlink a vault,                                                      *)
LEMMA FreshUnlink ==
  ASSUME NEW s, NEW t, Len(s) = 7,
         Has(s, 1, "open", ""),
         Has(s, 2, "remove", Key),
         Has(s, 3, "clear", Key),
         Has(s, 4, "remove", Salt),
         Has(s, 5, "clear", Salt),
         Has(s, 6, "removeConfig", ""),
         Has(s, 7, "exit", "")
  PROVE  Fresh(s, t)
<1>1. \A k \in 1..Len(s) : k = 1 \/ k = 2 \/ k = 3 \/ k = 4 \/ k = 5 \/ k = 6 \/ k = 7
  BY Upto7, Zenon
<1>2. /\ s[1][1] = "open" /\ s[1][2] = ""
      /\ s[2][1] = "remove" /\ s[2][2] = Key
      /\ s[3][1] = "clear" /\ s[3][2] = Key
      /\ s[4][1] = "remove" /\ s[4][2] = Salt
      /\ s[5][1] = "clear" /\ s[5][2] = Salt
      /\ s[6][1] = "removeConfig" /\ s[6][2] = ""
      /\ s[7][1] = "exit" /\ s[7][2] = ""
  BY DEF Has
<1>3. \A k \in 1..Len(s) : /\ s[k][1] # "store"
                           /\ s[k][1] = "remove" => k = 2 \/ k = 4
                           /\ s[k][1] = "clear" => k = 3 \/ k = 5
                           /\ s[k][1] # "signIn"
                           /\ s[k][1] = "removeConfig" => k = 6
  BY <1>1, <1>2
<1>4. /\ Ahead(s, 2, "open", "")
      /\ Ahead(s, 3, "open", "")
      /\ Ahead(s, 4, "open", "")
      /\ Ahead(s, 5, "open", "")
      /\ Ahead(s, 3, "remove", Key)
      /\ Ahead(s, 5, "remove", Salt)
  <2>1. Ahead(s, 2, "open", "")
    BY Spans, Zenon DEF Ahead
  <2>2. Ahead(s, 3, "open", "")
    BY Spans, Zenon DEF Ahead
  <2>3. Ahead(s, 4, "open", "")
    BY Spans, Zenon DEF Ahead
  <2>4. Ahead(s, 5, "open", "")
    BY Spans, Zenon DEF Ahead
  <2>5. Ahead(s, 3, "remove", Key)
    BY Spans, Zenon DEF Ahead
  <2>6. Ahead(s, 5, "remove", Salt)
    BY Spans, Zenon DEF Ahead
  <2> QED
    BY <2>1, <2>2, <2>3, <2>4, <2>5, <2>6
<1>5. Token \in Names /\ Key \in Names /\ Salt \in Names /\ Token # Key /\ Token # Salt
  BY Entries, EntryNames
<1>6. \A n \in {Key, Salt} : \E j \in 1..5 : Has(s, j, "clear", n) /\ Ahead(s, j, "remove", n)
  <2>1. Has(s, 3, "clear", Key) /\ Has(s, 5, "clear", Salt)
    OBVIOUS
  <2>2. Ahead(s, 3, "remove", Key) /\ Ahead(s, 5, "remove", Salt)
    BY <1>4
  <2> QED
    BY <2>1, <2>2, Spans, Zenon
<1>11. \A k \in 1..Len(s) : s[k][1] \in {"store", "remove", "clear"} =>
         s[k][2] \in Names /\ Ahead(s, k, "open", "")
  BY <1>2, <1>3, <1>4, <1>5
<1>12. \A k \in 1..Len(s), n \in Names : Has(s, k, "clear", n) => Ahead(s, k, "remove", n)
  BY <1>2, <1>3, <1>4 DEF Has
<1>13. \A j, k \in 1..Len(s) :
         j < k /\ s[j][1] = "store" => s[k][1] \notin {"clear", "removeConfig"}
  BY <1>3, Spans, Zenon
<1>14. \A k \in 1..Len(s) : Has(s, k, "store", Token) => Ahead(s, k, "signIn", "")
  BY <1>2, <1>3, <1>4, <1>5 DEF Has
<1>15. \A k \in 1..Len(s) : s[k][1] = "signIn" =>
         /\ s[k][2] = "" /\ t < MaxSecret
         /\ \A j \in 1..Len(s) : s[j][1] = "signIn" => j = k
  BY <1>2, <1>3
<1>16. \A k \in 1..Len(s) : s[k][1] = "removeConfig" =>
         \A n \in {Key, Salt} : \E j \in 1..(k - 1) : Has(s, j, "clear", n) /\ Ahead(s, j, "remove", n)
  BY <1>3, <1>6, Spans
<1> QED
  BY <1>11, <1>12, <1>13, <1>14, <1>15, <1>16 DEF Fresh

(* and to set a vault up.                                                  *)
LEMMA FreshSetup ==
  ASSUME NEW s, NEW t, Len(s) = 5,
         Has(s, 1, "writeConfig", ""),
         Has(s, 2, "open", ""),
         Has(s, 3, "store", Key),
         Has(s, 4, "store", Salt),
         Has(s, 5, "exit", "")
  PROVE  Fresh(s, t)
<1>1. \A k \in 1..Len(s) : k = 1 \/ k = 2 \/ k = 3 \/ k = 4 \/ k = 5
  BY Upto5, Zenon
<1>2. /\ s[1][1] = "writeConfig" /\ s[1][2] = ""
      /\ s[2][1] = "open" /\ s[2][2] = ""
      /\ s[3][1] = "store" /\ s[3][2] = Key
      /\ s[4][1] = "store" /\ s[4][2] = Salt
      /\ s[5][1] = "exit" /\ s[5][2] = ""
  BY DEF Has
<1>3. \A k \in 1..Len(s) : /\ s[k][1] = "store" => k = 3 \/ k = 4
                           /\ s[k][1] # "remove"
                           /\ s[k][1] # "clear"
                           /\ s[k][1] # "signIn"
                           /\ s[k][1] # "removeConfig"
  BY <1>1, <1>2
<1>4. /\ Ahead(s, 3, "open", "")
      /\ Ahead(s, 4, "open", "")
  <2>1. Ahead(s, 3, "open", "")
    BY Spans, Zenon DEF Ahead
  <2>2. Ahead(s, 4, "open", "")
    BY Spans, Zenon DEF Ahead
  <2> QED
    BY <2>1, <2>2
<1>5. Token \in Names /\ Key \in Names /\ Salt \in Names /\ Token # Key /\ Token # Salt
  BY Entries, EntryNames
<1>11. \A k \in 1..Len(s) : s[k][1] \in {"store", "remove", "clear"} =>
         s[k][2] \in Names /\ Ahead(s, k, "open", "")
  BY <1>2, <1>3, <1>4, <1>5
<1>12. \A k \in 1..Len(s), n \in Names : Has(s, k, "clear", n) => Ahead(s, k, "remove", n)
  BY <1>2, <1>3, <1>4 DEF Has
<1>13. \A j, k \in 1..Len(s) :
         j < k /\ s[j][1] = "store" => s[k][1] \notin {"clear", "removeConfig"}
  BY <1>3, Spans, Zenon
<1>14. \A k \in 1..Len(s) : Has(s, k, "store", Token) => Ahead(s, k, "signIn", "")
  BY <1>2, <1>3, <1>4, <1>5 DEF Has
<1>15. \A k \in 1..Len(s) : s[k][1] = "signIn" =>
         /\ s[k][2] = "" /\ t < MaxSecret
         /\ \A j \in 1..Len(s) : s[j][1] = "signIn" => j = k
  BY <1>2, <1>3
<1>16. \A k \in 1..Len(s) : s[k][1] = "removeConfig" =>
         \A n \in {Key, Salt} : \E j \in 1..(k - 1) : Has(s, j, "clear", n) /\ Ahead(s, j, "remove", n)
  BY <1>3
<1> QED
  BY <1>11, <1>12, <1>13, <1>14, <1>15, <1>16 DEF Fresh

(* The steps of a list by what they do.                                    *)
LEMMA StepHas ==
  ASSUME NEW s, NEW k
  PROVE  /\ \A x \in {"signIn", "signOut", "writeConfig", "removeConfig"} : s[k] = Do(x) => Has(s, k, x, "")
         /\ s[k] = Open => Has(s, k, "open", "")
         /\ s[k] = Exit => Has(s, k, "exit", "")
<1>1. ASSUME NEW x \in {"signIn", "signOut", "writeConfig", "removeConfig"}
      PROVE  Do(x)[1] = x /\ Do(x)[2] = ""
  <2>1. x \in Kinds
    BY DEF Kinds
  <2> QED
    BY <2>1, Entries, EntryNames
<1>2. \A x \in {"signIn", "signOut", "writeConfig", "removeConfig"} : s[k] = Do(x) => Has(s, k, x, "")
  BY <1>1, Zenon DEF Has
<1>3. (s[k] = Open => Has(s, k, "open", "")) /\ (s[k] = Exit => Has(s, k, "exit", ""))
  BY Entries, EntryNames, Zenon DEF Has
<1> QED
  BY <1>2, <1>3

(* What the lists of the commands have.                                    *)
LEMMA LoginHas ==
  ASSUME NEW s, s = LoginSteps
  PROVE  /\ Len(s) = 4
         /\ Has(s, 1, "signIn", "")
         /\ Has(s, 2, "open", "")
         /\ Has(s, 3, "store", Token)
         /\ Has(s, 4, "exit", "")
<1>1. Token \in Names /\ Key \in Names /\ Salt \in Names
  BY Entries
<1>2. Has(s, 1, "signIn", "")
  <2>1. s[1] = Do("signIn")
    BY LoginList
  <2> QED
    BY <1>1, <2>1, StepHas
<1>3. Has(s, 2, "open", "")
  <2>1. s[2] = Open
    BY LoginList
  <2> QED
    BY <1>1, <2>1, StepHas
<1>4. Has(s, 3, "store", Token)
  <2>1. s[3] = Save(Token)
    BY LoginList
  <2>2. Save(Token)[1] = "store" /\ Save(Token)[2] = Token
    BY <1>1, Entries
  <2> QED
    BY <2>1, <2>2 DEF Has
<1>5. Has(s, 4, "exit", "")
  <2>1. s[4] = Exit
    BY LoginList
  <2> QED
    BY <1>1, <2>1, StepHas
<1>6. Len(s) = 4
  BY LoginList
<1> QED
  BY <1>2, <1>3, <1>4, <1>5, <1>6

LEMMA LogoutHas ==
  ASSUME NEW s, s = LogoutSteps
  PROVE  /\ Len(s) = 5
         /\ Has(s, 1, "signOut", "")
         /\ Has(s, 2, "open", "")
         /\ Has(s, 3, "remove", Token)
         /\ Has(s, 4, "clear", Token)
         /\ Has(s, 5, "exit", "")
<1>1. Token \in Names /\ Key \in Names /\ Salt \in Names
  BY Entries
<1>2. Has(s, 1, "signOut", "")
  <2>1. s[1] = Do("signOut")
    BY LogoutList
  <2> QED
    BY <1>1, <2>1, StepHas
<1>3. Has(s, 2, "open", "")
  <2>1. s[2] = Open
    BY LogoutList
  <2> QED
    BY <1>1, <2>1, StepHas
<1>4. Has(s, 3, "remove", Token)
  <2>1. s[3] = Remove(Token)
    BY LogoutList
  <2>2. Remove(Token)[1] = "remove" /\ Remove(Token)[2] = Token
    BY <1>1, Entries
  <2> QED
    BY <2>1, <2>2 DEF Has
<1>5. Has(s, 4, "clear", Token)
  <2>1. s[4] = Clear(Token)
    BY LogoutList
  <2>2. Clear(Token)[1] = "clear" /\ Clear(Token)[2] = Token
    BY <1>1, Entries
  <2> QED
    BY <2>1, <2>2 DEF Has
<1>6. Has(s, 5, "exit", "")
  <2>1. s[5] = Exit
    BY LogoutList
  <2> QED
    BY <1>1, <2>1, StepHas
<1>7. Len(s) = 5
  BY LogoutList
<1> QED
  BY <1>2, <1>3, <1>4, <1>5, <1>6, <1>7

LEMMA ForgetHas ==
  ASSUME NEW s, s = <<Open, Remove(Token), Clear(Token), Exit>>
  PROVE  /\ Len(s) = 4
         /\ Has(s, 1, "open", "")
         /\ Has(s, 2, "remove", Token)
         /\ Has(s, 3, "clear", Token)
         /\ Has(s, 4, "exit", "")
<1>1. Token \in Names /\ Key \in Names /\ Salt \in Names
  BY Entries
<1>2. Has(s, 1, "open", "")
  <2>1. s[1] = Open
    BY ForgetList
  <2> QED
    BY <1>1, <2>1, StepHas
<1>3. Has(s, 2, "remove", Token)
  <2>1. s[2] = Remove(Token)
    BY ForgetList
  <2>2. Remove(Token)[1] = "remove" /\ Remove(Token)[2] = Token
    BY <1>1, Entries
  <2> QED
    BY <2>1, <2>2 DEF Has
<1>4. Has(s, 3, "clear", Token)
  <2>1. s[3] = Clear(Token)
    BY ForgetList
  <2>2. Clear(Token)[1] = "clear" /\ Clear(Token)[2] = Token
    BY <1>1, Entries
  <2> QED
    BY <2>1, <2>2 DEF Has
<1>5. Has(s, 4, "exit", "")
  <2>1. s[4] = Exit
    BY ForgetList
  <2> QED
    BY <1>1, <2>1, StepHas
<1>6. Len(s) = 4
  BY ForgetList
<1> QED
  BY <1>2, <1>3, <1>4, <1>5, <1>6

LEMMA LogoutLoginHas ==
  ASSUME NEW s, s = LogoutLoginSteps
  PROVE  /\ Len(s) = 8
         /\ Has(s, 1, "signOut", "")
         /\ Has(s, 2, "open", "")
         /\ Has(s, 3, "remove", Token)
         /\ Has(s, 4, "clear", Token)
         /\ Has(s, 5, "signIn", "")
         /\ Has(s, 6, "open", "")
         /\ Has(s, 7, "store", Token)
         /\ Has(s, 8, "exit", "")
<1>1. Token \in Names /\ Key \in Names /\ Salt \in Names
  BY Entries
<1>2. Has(s, 1, "signOut", "")
  <2>1. s[1] = Do("signOut")
    BY LogoutLoginList
  <2> QED
    BY <1>1, <2>1, StepHas
<1>3. Has(s, 2, "open", "")
  <2>1. s[2] = Open
    BY LogoutLoginList
  <2> QED
    BY <1>1, <2>1, StepHas
<1>4. Has(s, 3, "remove", Token)
  <2>1. s[3] = Remove(Token)
    BY LogoutLoginList
  <2>2. Remove(Token)[1] = "remove" /\ Remove(Token)[2] = Token
    BY <1>1, Entries
  <2> QED
    BY <2>1, <2>2 DEF Has
<1>5. Has(s, 4, "clear", Token)
  <2>1. s[4] = Clear(Token)
    BY LogoutLoginList
  <2>2. Clear(Token)[1] = "clear" /\ Clear(Token)[2] = Token
    BY <1>1, Entries
  <2> QED
    BY <2>1, <2>2 DEF Has
<1>6. Has(s, 5, "signIn", "")
  <2>1. s[5] = Do("signIn")
    BY LogoutLoginList
  <2> QED
    BY <1>1, <2>1, StepHas
<1>7. Has(s, 6, "open", "")
  <2>1. s[6] = Open
    BY LogoutLoginList
  <2> QED
    BY <1>1, <2>1, StepHas
<1>8. Has(s, 7, "store", Token)
  <2>1. s[7] = Save(Token)
    BY LogoutLoginList
  <2>2. Save(Token)[1] = "store" /\ Save(Token)[2] = Token
    BY <1>1, Entries
  <2> QED
    BY <2>1, <2>2 DEF Has
<1>9. Has(s, 8, "exit", "")
  <2>1. s[8] = Exit
    BY LogoutLoginList
  <2> QED
    BY <1>1, <2>1, StepHas
<1>10. Len(s) = 8
  BY LogoutLoginList
<1> QED
  BY <1>2, <1>3, <1>4, <1>5, <1>6, <1>7, <1>8, <1>9, <1>10

LEMMA UnlinkHas ==
  ASSUME NEW s, s = UnlinkSteps
  PROVE  /\ Len(s) = 7
         /\ Has(s, 1, "open", "")
         /\ Has(s, 2, "remove", Key)
         /\ Has(s, 3, "clear", Key)
         /\ Has(s, 4, "remove", Salt)
         /\ Has(s, 5, "clear", Salt)
         /\ Has(s, 6, "removeConfig", "")
         /\ Has(s, 7, "exit", "")
<1>1. Token \in Names /\ Key \in Names /\ Salt \in Names
  BY Entries
<1>2. Has(s, 1, "open", "")
  <2>1. s[1] = Open
    BY UnlinkList
  <2> QED
    BY <1>1, <2>1, StepHas
<1>3. Has(s, 2, "remove", Key)
  <2>1. s[2] = Remove(Key)
    BY UnlinkList
  <2>2. Remove(Key)[1] = "remove" /\ Remove(Key)[2] = Key
    BY <1>1, Entries
  <2> QED
    BY <2>1, <2>2 DEF Has
<1>4. Has(s, 3, "clear", Key)
  <2>1. s[3] = Clear(Key)
    BY UnlinkList
  <2>2. Clear(Key)[1] = "clear" /\ Clear(Key)[2] = Key
    BY <1>1, Entries
  <2> QED
    BY <2>1, <2>2 DEF Has
<1>5. Has(s, 4, "remove", Salt)
  <2>1. s[4] = Remove(Salt)
    BY UnlinkList
  <2>2. Remove(Salt)[1] = "remove" /\ Remove(Salt)[2] = Salt
    BY <1>1, Entries
  <2> QED
    BY <2>1, <2>2 DEF Has
<1>6. Has(s, 5, "clear", Salt)
  <2>1. s[5] = Clear(Salt)
    BY UnlinkList
  <2>2. Clear(Salt)[1] = "clear" /\ Clear(Salt)[2] = Salt
    BY <1>1, Entries
  <2> QED
    BY <2>1, <2>2 DEF Has
<1>7. Has(s, 6, "removeConfig", "")
  <2>1. s[6] = Do("removeConfig")
    BY UnlinkList
  <2> QED
    BY <1>1, <2>1, StepHas
<1>8. Has(s, 7, "exit", "")
  <2>1. s[7] = Exit
    BY UnlinkList
  <2> QED
    BY <1>1, <2>1, StepHas
<1>9. Len(s) = 7
  BY UnlinkList
<1> QED
  BY <1>2, <1>3, <1>4, <1>5, <1>6, <1>7, <1>8, <1>9

LEMMA SetupHas ==
  ASSUME NEW s, s = <<Do("writeConfig"), Open, Save(Key), Save(Salt), Exit>>
  PROVE  /\ Len(s) = 5
         /\ Has(s, 1, "writeConfig", "")
         /\ Has(s, 2, "open", "")
         /\ Has(s, 3, "store", Key)
         /\ Has(s, 4, "store", Salt)
         /\ Has(s, 5, "exit", "")
<1>1. Token \in Names /\ Key \in Names /\ Salt \in Names
  BY Entries
<1>2. Has(s, 1, "writeConfig", "")
  <2>1. s[1] = Do("writeConfig")
    BY SetupList
  <2> QED
    BY <1>1, <2>1, StepHas
<1>3. Has(s, 2, "open", "")
  <2>1. s[2] = Open
    BY SetupList
  <2> QED
    BY <1>1, <2>1, StepHas
<1>4. Has(s, 3, "store", Key)
  <2>1. s[3] = Save(Key)
    BY SetupList
  <2>2. Save(Key)[1] = "store" /\ Save(Key)[2] = Key
    BY <1>1, Entries
  <2> QED
    BY <2>1, <2>2 DEF Has
<1>5. Has(s, 4, "store", Salt)
  <2>1. s[4] = Save(Salt)
    BY SetupList
  <2>2. Save(Salt)[1] = "store" /\ Save(Salt)[2] = Salt
    BY <1>1, Entries
  <2> QED
    BY <2>1, <2>2 DEF Has
<1>6. Has(s, 5, "exit", "")
  <2>1. s[5] = Exit
    BY SetupList
  <2> QED
    BY <1>1, <2>1, StepHas
<1>7. Len(s) = 5
  BY SetupList
<1> QED
  BY <1>2, <1>3, <1>4, <1>5, <1>6, <1>7

(* A list that has to do with neither secrets nor tokens.                  *)
LEMMA FreshWithout ==
  ASSUME NEW s, NEW t,
         \A k \in 1..Len(s) : s[k][1] \notin {"store", "remove", "clear", "signIn", "removeConfig"}
  PROVE  Fresh(s, t)
  BY DEF Fresh, Has

(* Commands that start.                                                    *)
LEMMA SecretsStart ==
  ASSUME StoresInv, StoreTroubles \cap Troubles = {}, Starting
  PROVE  StoresInv'
<1>1. /\ Ordered' /\ UNCHANGED store /\ UNCHANGED <<keyring, fallback, up, opened, last>>
      /\ UNCHANGED <<tokens, sessions>>
  BY StartingOrdered DEF store, Starting, Login, Logout, SyncUnlink, SyncSetup, SyncConfig, PublishRun, account
<1>2. holding' \in {holding, Get(Token, up)}
  BY DEF Starting, Login, Logout, SyncUnlink, SyncSetup, SyncConfig, PublishRun
<1>3. holding' \in Secrets
  BY <1>2, Entries DEF StoresInv, SecretTypes, StoreTypeOK, Get
<1>4. SecretTypes' /\ RingUsed' /\ LeftThere'
  BY <1>1, <1>3 DEF StoresInv, SecretTypes, StoreTypeOK, RingUsed, LeftThere, Get
<1>5. Fresh(todo', tokens')
  <2>1. CASE Login
    <3>3. tokens' < MaxSecret
      BY <1>1, <2>1 DEF Login
    <3>1. CASE todo' = LoginSteps
      BY <3>1, <3>3, LoginHas, FreshLogin
    <3>2. CASE todo' = LogoutLoginSteps
      BY <3>2, <3>3, LogoutLoginHas, FreshBoth
    <3> QED
      BY <2>1, <3>1, <3>2, Anyway DEF StoreTroubles
  <2>2. CASE Logout
    <3>1. CASE todo' = LogoutSteps
      BY <3>1, LogoutHas, FreshLogout
    <3>2. CASE todo' = <<Open, Remove(Token), Clear(Token), Exit>>
      BY <3>2, ForgetHas, FreshForget
    <3> QED
      BY <2>2, <3>1, <3>2 DEF Logout, Starts
  <2>3. CASE SyncUnlink
    <3>1. todo' = UnlinkSteps
      BY <2>3, Anyway DEF StoreTroubles
    <3> QED
      BY <3>1, UnlinkHas, FreshUnlink
  <2>4. CASE \E f \in Folders, p \in StatePaths : SyncSetup(f, p)
    <3>1. todo' = <<Do("writeConfig"), Open, Save(Key), Save(Salt), Exit>>
      BY <2>4 DEF SyncSetup, Starts
    <3> QED
      BY <3>1, SetupHas, FreshSetup
  <2>5. CASE \E p \in StatePaths : SyncConfig(p)
    <3>1. todo' = <<Do("moveState"), Do("writeConfig"), Exit>>
      BY <2>5 DEF SyncConfig, Starts
    <3>2. \A k \in 1..Len(todo') : todo'[k][1] \in {"moveState", "writeConfig", "exit"}
      <4>1. \A k \in 1..3 : k = 1 \/ k = 2 \/ k = 3
        OBVIOUS
      <4> QED
        BY <3>1, <4>1, MoveList, Entries DEF Kinds
    <3> QED
      BY <3>2, FreshWithout
  <2>6. CASE \E everything \in BOOLEAN : PublishRun(everything)
    <3>1. todo' = <<Do("list"), Do("scan"), Do("transfer"), Do("writeCache"), Exit>>
      BY <2>6 DEF PublishRun, Starts
    <3>2. \A k \in 1..Len(todo') : todo'[k][1] \in {"list", "scan", "transfer", "writeCache", "exit"}
      <4>1. \A k \in 1..5 : k = 1 \/ k = 2 \/ k = 3 \/ k = 4 \/ k = 5
        OBVIOUS
      <4> QED
        BY <3>1, <4>1, PublishList, Entries DEF Kinds
    <3> QED
      BY <3>2, FreshWithout
  <2> QED
    BY <2>1, <2>2, <2>3, <2>4, <2>5, <2>6 DEF Starting
<1>6. ListsInv'
  BY <1>5, FreshLists
<1> QED
  BY <1>1, <1>4, <1>6 DEF StoresInv

(* Steps that have nothing to do with secrets.                             *)
LEMMA SecretsSame ==
  ASSUME StoresInv, UNCHANGED <<store, todo, holding, tokens>>, sessions' \subseteq sessions
  PROVE  StoresInv'
<1>1. Ordered /\ ListsInv
  BY DEF StoresInv
<1>2. UNCHANGED <<keyring, fallback, opened, last, todo, holding, tokens>>
  BY DEF store
<1>3. ListsInv'
  BY <1>1, <1>2, SameLists
<1>4. Ordered'
  BY <1>1, SameOrdered
<1> QED
  BY <1>3, <1>4, SecretsAside

(* A program that ends, and what happens beside the commands.              *)
LEMMA SecretsStay ==
  ASSUME StoresInv, StoreTroubles \cap Troubles = {}, Ends \/ Besides
  PROVE  StoresInv'
<1>1. CASE Ends
  <2>1. /\ todo' = << >> /\ holding' = None /\ opened' = FALSE
        /\ UNCHANGED <<keyring, fallback, up, last, tokens, sessions>>
    BY <1>1 DEF Ends, CloseStore, account
  <2>2. SecretTypes' /\ RingUsed' /\ LeftThere'
    <3>1. StoreTypeOK'
      BY <2>1 DEF StoresInv, SecretTypes, StoreTypeOK
    <3> QED
      BY <2>1, <3>1, SecretBounds DEF StoresInv, SecretTypes, RingUsed, LeftThere, Get
  <2> QED
    BY <2>1, <2>2, EndsOrdered, ListsEmpty DEF StoresInv
<1>2. CASE Keyring
  <2>1. /\ ~up /\ up' = TRUE
        /\ UNCHANGED <<keyring, fallback, opened, last, todo, holding, tokens, sessions>>
    BY <1>2 DEF Keyring, RingChanges, account, StoreTroubles, StoresInv, SecretTypes, StoreTypeOK
  <2>2. SecretTypes' /\ RingUsed' /\ LeftThere' /\ Ordered'
    BY <2>1 DEF StoresInv, SecretTypes, StoreTypeOK, RingUsed, LeftThere, Get, Ordered
  <2>3. ListsInv'
    BY <2>1, SameLists DEF StoresInv
  <2> QED
    BY <2>2, <2>3 DEF StoresInv
<1>3. CASE Besides /\ ~Keyring
  <2>1. /\ UNCHANGED <<store, todo, holding, tokens>> /\ sessions' \subseteq sessions
    BY <1>3 DEF Besides, Sync, Expire, UserEdits, OtherPublishes, account
  <2> QED
    BY <2>1, SecretsSame
<1> QED
  BY <1>1, <1>2, <1>3 DEF Besides

(* So every step keeps the invariant.                                      *)
LEMMA SecretsStep ==
  ASSUME StoresInv, StoreTroubles \cap Troubles = {}, [Next]_vars
  PROVE  StoresInv'
<1>1. CASE UNCHANGED vars
  <2>1. UNCHANGED <<store, todo, holding, tokens>> /\ sessions' \subseteq sessions
    BY <1>1 DEF vars, account
  <2> QED
    BY <2>1, SecretsSame
<1> QED
  BY <1>1, NextSplit, SecretsStart, SecretsGoOn, SecretsStay

(* It holds at first.                                                      *)
LEMMA SecretsInit ==
  ASSUME Init
  PROVE  StoresInv
<1>1. /\ todo = << >> /\ holding = None /\ tokens = 0 /\ sessions = {} /\ opened = FALSE
      /\ up \in BOOLEAN /\ keyring = [n \in Names |-> None] /\ fallback = keyring /\ last = keyring
  BY DEF Init, StoreInit
<1>2. Ordered
  BY <1>1 DEF Ordered
<1>3. SecretTypes /\ RingUsed /\ LeftThere
  BY <1>1, SecretBounds DEF SecretTypes, StoreTypeOK, RingUsed, LeftThere, Get, Secrets, None
<1>4. \A k \in Listed : FALSE
  BY <1>1 DEF Listed
<1>5. ListsInv
  BY <1>4, Zenon DEF ListsInv, RingFirst, ClearsSpare, StoresLast, TokenHeld, OneToken, ForgetsFirst
<1> QED
  BY <1>2, <1>3, <1>5 DEF StoresInv

(* The types of what the commands keep beside secrets: no trouble that     *)
(* there may be changes them.                                              *)
OtherTypes == PublishTypeOK /\ Attachments /\ use \in Uses

(* Publishing.                                                             *)
LEMMA PublishTyped ==
  ASSUME PublishTypeOK, [Next]_vars
  PROVE  PublishTypeOK'
<1>1. CASE Starting
  BY <1>1 DEF Starting, Login, Logout, SyncUnlink, SyncSetup, SyncConfig, PublishRun,
              publishVars, PublishTypeOK
<1>2. CASE GoesOn
  <2>1. CASE UNCHANGED publishVars
    BY <2>1 DEF publishVars, PublishTypeOK
  <2>2. CASE ListSite
    <3>1. listing' \in [Files -> Contents \cup {Absent}]
      BY <2>2 DEF ListSite, PublishTypeOK, Pages
    <3> QED
      BY <2>2, <3>1 DEF ListSite, PublishTypeOK
  <2>3. CASE ScanVault
    <3>1. scan' \in [Files -> Contents \cup {Absent}]
      BY <2>3 DEF ScanVault, PublishTypeOK
    <3> QED
      BY <2>3, <3>1 DEF ScanVault, PublishTypeOK
  <2>4. ASSUME NEW f \in Files, UploadPage(f) \/ DeletePage(f) PROVE PublishTypeOK'
    <3>1. [hash |-> scan[f], body |-> files[f]] \in Pages /\ NoPage \in Pages
      BY DEF PublishTypeOK, Pages, NoPage
    <3> QED
      BY <2>4, <3>1 DEF UploadPage, DeletePage, PublishTypeOK
  <2>5. \/ UNCHANGED publishVars \/ ListSite \/ ScanVault
        \/ \E f \in Files : UploadPage(f) \/ DeletePage(f)
    BY <1>2 DEF GoesOn, SignOut, SignIn, OpenRing, StoreSecret, RemoveSecret, ClearSecret, WriteConfig,
           RemoveConfig, MoveState, PublishStep, PublishDone
  <2> QED
    BY <2>1, <2>2, <2>3, <2>4, <2>5
<1>3. CASE Ends
  <2>1. /\ listing' = [f \in Files |-> Absent] /\ scan' = listing' /\ transferred' = {} /\ all' = FALSE
        /\ UNCHANGED <<files, site>>
    BY <1>3 DEF Ends, RunOver
  <2> QED
    BY <2>1 DEF PublishTypeOK
<1>4. CASE Besides
  <2>1. CASE UNCHANGED publishVars
    BY <2>1 DEF publishVars, PublishTypeOK
  <2>2. ASSUME NEW f \in Files, NEW c \in Contents \cup {Absent}, UserEdits(f, c) \/ OtherPublishes(f, c)
        PROVE  PublishTypeOK'
    <3>1. PageOf(c) \in Pages
      BY DEF PageOf, Pages
    <3> QED
      BY <2>2, <3>1 DEF UserEdits, OtherPublishes, PublishTypeOK
  <2> QED
    BY <1>4, <2>1, <2>2 DEF Besides, Keyring, Sync, Expire
<1>5. CASE UNCHANGED vars
  BY <1>5 DEF vars, publishVars, PublishTypeOK
<1> QED
  BY <1>1, <1>2, <1>3, <1>4, <1>5, NextSplit

(* Configurations and state databases.                                     *)
LEMMA AttachmentsTyped ==
  ASSUME Attachments, [Next]_vars
  PROVE  Attachments'
<1>0. NoConfig \in Configs
  BY DEF Configs
<1>1. CASE UNCHANGED attachment
  BY <1>1 DEF attachment, Attachments
<1>2. ASSUME NEW f \in Folders, NEW p \in StatePaths, SyncSetup(f, p) PROVE Attachments'
  BY <1>2 DEF SyncSetup, Attachments, Configs
<1>3. ASSUME NEW p \in StatePaths, SyncConfig(p) PROVE Attachments'
  <2>1. config # NoConfig /\ want' = [config EXCEPT !.path = p] /\ UNCHANGED <<config, state>>
    BY <1>3 DEF SyncConfig
  <2>2. config \in [folder : Folders, path : StatePaths]
    BY <2>1 DEF Attachments, Configs
  <2>3. want' \in [folder : Folders, path : StatePaths]
    BY <2>1, <2>2
  <2> QED
    BY <2>1, <2>3 DEF Attachments, Configs
<1>4. ASSUME NEW f \in Folders, Sync(f) PROVE Attachments'
  BY <1>4 DEF Sync, Attachments
<1>5. CASE WriteConfig
  BY <1>5 DEF WriteConfig, Attachments
<1>6. CASE RemoveConfig
  BY <1>0, <1>6 DEF RemoveConfig, RemoveDir, Attachments, StatePaths
<1>7. CASE MoveState
  <2>1. config.path \in StatePaths
    BY ConfigFields DEF Attachments
  <2>2. state[config.path] \in Folders \cup {"none"}
    BY <2>1 DEF Attachments
  <2>3. state' \in [StatePaths -> Folders \cup {"none"}] /\ UNCHANGED <<config, want>>
    BY <1>7, <2>2 DEF MoveState, Attachments
  <2> QED
    BY <2>3 DEF Attachments
<1>8. CASE Ends
  BY <1>0, <1>8 DEF Ends, Attachments
<1> QED
  <2>1. CASE Starting
    BY <1>1, <1>2, <1>3, <2>1 DEF Starting, Login, Logout, SyncUnlink, PublishRun
  <2>2. CASE GoesOn
    BY <1>1, <1>5, <1>6, <1>7, <2>2 DEF GoesOn, SignOut, SignIn, OpenRing, StoreSecret, RemoveSecret,
       ClearSecret, PublishStep, PublishDone
  <2>3. CASE Besides
    BY <1>1, <1>4, <2>3 DEF Besides, Keyring, Expire, UserEdits, OtherPublishes
  <2>4. CASE UNCHANGED vars
    BY <1>1, <2>4 DEF vars
  <2> QED
    BY <1>8, <2>1, <2>2, <2>3, <2>4, NextSplit

(* Both.                                                                   *)
LEMMA OthersTyped ==
  ASSUME OtherTypes, [Next]_vars
  PROVE  OtherTypes'
<1>1. use' = use
  <2>1. CASE Starting
    BY <2>1 DEF Starting, Login, Logout, SyncUnlink, SyncSetup, SyncConfig, PublishRun
  <2>2. CASE GoesOn
    BY <2>2 DEF GoesOn, SignOut, SignIn, OpenRing, StoreSecret, RemoveSecret, ClearSecret, WriteConfig,
           RemoveConfig, MoveState, PublishStep, PublishDone
  <2>3. CASE Ends \/ Besides
    BY <2>3 DEF Ends, Besides, Keyring, Sync, Expire, UserEdits, OtherPublishes
  <2>4. CASE UNCHANGED vars
    BY <2>4 DEF vars
  <2> QED
    BY <2>1, <2>2, <2>3, <2>4, NextSplit
<1> QED
  BY <1>1, PublishTyped, AttachmentsTyped DEF OtherTypes

(* And at first.                                                           *)
LEMMA OthersInit ==
  ASSUME Init
  PROVE  OtherTypes
<1>1. PublishTypeOK
  BY DEF Init, PublishInit, PublishTypeOK, NoPage, Pages
<1>2. Attachments
  BY DEF Init, Attachments, Configs
<1> QED
  BY <1>1, <1>2 DEF Init, OtherTypes

(* Whatever commands run, wherever they are stopped, and whenever the      *)
(* keyring becomes available: every variable has its type, and a process   *)
(* finds each secret as the last complete Set or Delete left it, unless    *)
(* the keyring goes away, one of the places refuses a call or cannot be    *)
(* opened (secrets.go: Get, Set and Delete).                               *)
THEOREM SecretsTheorem ==
  ASSUME StoreTroubles \cap Troubles = {}
  PROVE  Spec => []SecretsInv
<1>1. Init => StoresInv /\ OtherTypes
  BY SecretsInit, OthersInit
<1>2. StoresInv /\ OtherTypes /\ [Next]_vars => (StoresInv /\ OtherTypes)'
  BY SecretsStep, OthersTyped
<1>3. StoresInv /\ OtherTypes => SecretsInv
  <2> SUFFICES ASSUME StoresInv, OtherTypes PROVE SecretsInv
    OBVIOUS
  <2>1. TypeOK
    BY DEF TypeOK, StoresInv, OtherTypes, SecretTypes, Attachments, Ordered, Entry
  <2>2. ASSUME NEW n \in Names, last[n] # Unknown PROVE Get(n, up) = last[n]
    <3>1. Get(n, TRUE) = last[n]
      BY <2>2 DEF StoresInv, LeftThere
    <3>2. up \/ keyring[n] = None
      BY DEF StoresInv, RingUsed
    <3> QED
      BY <3>1, <3>2 DEF Get
  <2> QED
    BY <2>1, <2>2 DEF SecretsInv, SecretsAsLeft
<1> QED
  BY <1>1, <1>2, <1>3, PTL DEF Spec

(* When sync-unlink removes a vault's configuration, neither the keyring   *)
(* nor credentials.db has a secret of the vault, whatever programs had     *)
(* ended between two steps before (cli/sync.go, secrets.go: Delete), if    *)
(* both can be opened and do as they are told.                             *)
THEOREM UnlinkTheorem ==
  ASSUME StoreTroubles \cap Troubles = {}
  PROVE  Spec => UnlinkForgets
<1>1. Init => StoresInv
  BY SecretsInit
<1>2. StoresInv /\ [Next]_vars => StoresInv'
  BY SecretsStep
<1>3. StoresInv /\ [Next]_vars =>
        [RemoveConfig => \A n \in {Key, Salt} : keyring[n] = None /\ fallback[n] = None]_vars
  <2> SUFFICES ASSUME StoresInv, RemoveConfig, NEW n \in {Key, Salt}
               PROVE  keyring[n] = None /\ fallback[n] = None
    OBVIOUS
  <2>1. Doing("removeConfig") /\ Done
    BY DEF RemoveConfig
  <2>2. 1 \in Listed /\ todo[1][1] = "removeConfig"
    BY <2>1, FirstDone
  <2>3. Gone(n) \/ \E j \in 1..(1 - 1) : TRUE
    BY <2>2 DEF StoresInv, ListsInv, ForgetsFirst
  <2> QED
    BY <2>3 DEF Gone
<1> QED
  BY <1>1, <1>2, <1>3, PTL DEF Spec, UnlinkForgets


-----------------------------------------------------------------------------
(***************************************************************************)
(* What a publish run leaves.  Each of its steps finds what the one before *)
(* it left, since nothing else changes the site, the vault or what the run *)
(* has in memory while it runs.                                            *)
(***************************************************************************)
Chosen(f) == IF Selected(f, files[f], all) THEN files[f] ELSE Absent

(* The steps of a run come one after the other, and none of them first.    *)
Pieces == {"scan", "transfer", "writeCache"}
InTurn == \A k \in Listed \ {1} :
            /\ todo[k][1] = "scan" => todo[k - 1][1] = "list"
            /\ todo[k][1] = "transfer" => todo[k - 1][1] = "scan"
            /\ todo[k][1] = "writeCache" => todo[k - 1][1] = "transfer"

Honest == \A f \in Files : site[f].hash = site[f].body
Scanned == \A f \in Files : scan[f] # Absent => files[f] = scan[f] /\ todo # << >>

ListingTrue == Doing("scan") => \A f \in Files : listing[f] = site[f].hash
TransferTrue == Doing("transfer") => \A f \in Files :
                  /\ scan[f] = Chosen(f)
                  /\ site[f].hash = IF f \in transferred THEN Chosen(f) ELSE listing[f]
SiteTrue == Doing("writeCache") => \A f \in Files : site[f].hash = Chosen(f)

PagesInv == Ordered /\ PublishTypeOK /\ InTurn /\ Honest /\ Scanned
            /\ ListingTrue /\ TransferTrue /\ SiteTrue

(* A step of a list is taken off.                                          *)
LEMMA TurnDone ==
  ASSUME Ordered, InTurn, NEW x, x # "exit", Doing(x), Done
  PROVE  /\ Ordered' /\ InTurn' /\ todo # << >> /\ todo' # << >>
         /\ Doing("scan")' => x = "list"
         /\ Doing("transfer")' => x = "scan"
         /\ Doing("writeCache")' => x = "transfer"
<1>1. /\ Ordered' /\ todo # << >> /\ todo' # << >> /\ todo[1][1] = x
      /\ Len(todo) \in Nat /\ Len(todo') = Len(todo) - 1 /\ Len(todo') \in Nat \ {0}
      /\ \A k \in 1..Len(todo') : todo'[k] = todo[k + 1]
  BY DoneOrdered
<1>2. ASSUME NEW k \in Listed' \ {1}
      PROVE  /\ k + 1 \in Listed \ {1} /\ (k + 1) - 1 = k
             /\ todo'[k] = todo[k + 1] /\ todo'[k - 1] = todo[k]
  <2>1. /\ k \in 1..Len(todo') /\ k - 1 \in 1..Len(todo') /\ (k - 1) + 1 = k
        /\ k + 1 \in Listed \ {1} /\ (k + 1) - 1 = k
    BY <1>1, <1>2 DEF Listed
  <2> QED
    BY <1>1, <2>1
<1>3. InTurn'
  BY <1>2 DEF InTurn
<1>4. Head(todo') = todo[2] /\ 2 \in Listed \ {1} /\ 2 - 1 = 1
  <2>1. 1 \in 1..Len(todo') /\ 1 + 1 = 2 /\ 2 \in 1..Len(todo) /\ 2 - 1 = 1
    BY <1>1
  <2>2. Head(todo') = todo'[1]
    BY <1>1, Rest DEF Ordered
  <2> QED
    BY <1>1, <2>1, <2>2 DEF Listed
<1>5. /\ Head(todo')[1] = "scan" => x = "list"
      /\ Head(todo')[1] = "transfer" => x = "scan"
      /\ Head(todo')[1] = "writeCache" => x = "transfer"
  BY <1>1, <1>4 DEF InTurn
<1> QED
  BY <1>1, <1>3, <1>5 DEF Doing

(* Steps that leave the site, the vault and the run alone.                 *)
LEMMA PagesSame ==
  ASSUME PagesInv, Ordered', InTurn', UNCHANGED <<files, site, scan, listing, transferred>>,
         all' \in BOOLEAN, todo # << >> => todo' # << >>,
         ~Doing("scan")' /\ ~Doing("transfer")' /\ ~Doing("writeCache")'
  PROVE  PagesInv'
<1>1. PublishTypeOK'
  BY DEF PagesInv, PublishTypeOK
<1>2. Honest' /\ Scanned'
  BY DEF PagesInv, Honest, Scanned
<1>3. ListingTrue' /\ TransferTrue' /\ SiteTrue'
  BY DEF ListingTrue, TransferTrue, SiteTrue
<1> QED
  BY <1>1, <1>2, <1>3 DEF PagesInv

(* Steps that leave the list of steps alone, too.                          *)
LEMMA PagesAside ==
  ASSUME PagesInv, UNCHANGED <<files, site, scan, listing, transferred, all, todo>>
  PROVE  PagesInv'
<1>1. Ordered' /\ PublishTypeOK' /\ InTurn'
  BY DEF PagesInv, Ordered, PublishTypeOK, InTurn, Listed
<1>2. Honest' /\ Scanned'
  BY DEF PagesInv, Honest, Scanned
<1>3. \A x : Doing(x)' <=> Doing(x)
  BY DEF Doing
<1>4. ListingTrue' /\ SiteTrue' /\ TransferTrue'
  BY <1>3 DEF PagesInv, ListingTrue, SiteTrue, TransferTrue, Chosen
<1> QED
  BY <1>1, <1>2, <1>4 DEF PagesInv

(* Commands that start.                                                    *)
LEMMA StartingKinds ==
  ASSUME Starting, NEW k \in Listed', todo'[k][1] \in Pieces
  PROVE  \E everything \in BOOLEAN : PublishRun(everything)
<1>1. CASE Login \/ Logout
  <2>1. CASE todo' = LoginSteps
    <3>1. \A i \in 1..4 : LoginSteps[i][1] \in {"signIn", "open", "store", "exit"}
      BY LoginList, Entries DEF Kinds
    <3> QED
      BY <2>1, <3>1, LoginList DEF Listed, Pieces
  <2>2. CASE todo' = LogoutLoginSteps
    <3>1. \A i \in 1..8 : LogoutLoginSteps[i][1] \in
            {"signOut", "signIn", "open", "store", "remove", "clear", "exit"}
      BY LogoutLoginList, Entries DEF Kinds
    <3> QED
      BY <2>2, <3>1, LogoutLoginList DEF Listed, Pieces
  <2>3. CASE todo' = LogoutSteps
    <3>1. \A i \in 1..5 : LogoutSteps[i][1] \in {"signOut", "open", "remove", "clear", "exit"}
      BY LogoutList, Entries DEF Kinds
    <3> QED
      BY <2>3, <3>1, LogoutList DEF Listed, Pieces
  <2>4. CASE todo' = <<Open, Remove(Token), Clear(Token), Exit>>
    <3> DEFINE s == <<Open, Remove(Token), Clear(Token), Exit>>
    <3>1. \A i \in 1..4 : s[i][1] \in {"open", "remove", "clear", "exit"}
      BY ForgetList, Entries
    <3> HIDE DEF s
    <3>2. Len(s) = 4
      BY ForgetList DEF s
    <3> QED
      BY <2>4, <3>1, <3>2 DEF Listed, Pieces, s
  <2>5. CASE todo' = LoginAnyway
    <3>1. \A i \in 1..5 : LoginAnyway[i][1] \in {"signOut", "signIn", "open", "store", "exit"}
      BY LoginAnywayList, Entries DEF Kinds
    <3> QED
      BY <2>5, <3>1, LoginAnywayList DEF Listed, Pieces
  <2> QED
    BY <1>1, <2>1, <2>2, <2>3, <2>4, <2>5, Anyway DEF Logout, Starts
<1>2. CASE SyncUnlink
  <2>1. todo' \in {UnlinkSteps, UnlinkAnyway}
    BY <1>2, Anyway
  <2>2. /\ \A i \in 1..7 : UnlinkSteps[i][1] \in {"open", "remove", "clear", "removeConfig", "exit"}
        /\ \A i \in 1..2 : UnlinkAnyway[i][1] \in {"removeConfig", "exit"}
    BY UnlinkList, UnlinkAnywayList, Entries DEF Kinds
  <2>3. CASE todo' = UnlinkSteps
    BY <2>2, <2>3, UnlinkList DEF Listed, Pieces
  <2>4. CASE todo' = UnlinkAnyway
    BY <2>2, <2>4, UnlinkAnywayList DEF Listed, Pieces
  <2> QED
    BY <2>1, <2>3, <2>4
<1>3. CASE \E f \in Folders, p \in StatePaths : SyncSetup(f, p)
  <2> DEFINE s == <<Do("writeConfig"), Open, Save(Key), Save(Salt), Exit>>
  <2>1. todo' = s
    BY <1>3 DEF SyncSetup, Starts
  <2>2. \A i \in 1..5 : s[i][1] \in {"writeConfig", "open", "store", "exit"}
    BY SetupList, Entries DEF Kinds
  <2>3. Len(s) = 5
    BY SetupList
  <2> HIDE DEF s
  <2> QED
    BY <2>1, <2>2, <2>3 DEF Listed, Pieces
<1>4. CASE \E p \in StatePaths : SyncConfig(p)
  <2> DEFINE s == <<Do("moveState"), Do("writeConfig"), Exit>>
  <2>1. todo' = s
    BY <1>4 DEF SyncConfig, Starts
  <2>2. \A i \in 1..3 : s[i][1] \in {"moveState", "writeConfig", "exit"}
    BY MoveList, Entries DEF Kinds
  <2>3. Len(s) = 3
    BY MoveList
  <2> HIDE DEF s
  <2> QED
    BY <2>1, <2>2, <2>3 DEF Listed, Pieces
<1> QED
  BY <1>1, <1>2, <1>3, <1>4 DEF Starting

(* A command that starts.                                                  *)
LEMMA PagesStart ==
  ASSUME PagesInv, Starting
  PROVE  PagesInv'
<1>1. Ordered' /\ todo' # << >> /\ todo = << >>
  BY StartingOrdered DEF Idle
<1>2. UNCHANGED <<files, site, scan, listing, transferred>> /\ all' \in BOOLEAN
  BY DEF PagesInv, PublishTypeOK, Starting, Login, Logout, SyncUnlink, SyncSetup, SyncConfig,
         PublishRun, publishVars
<1>3. todo' \in Seq(Entry) /\ Head(todo') = todo'[1] /\ Len(todo') \in Nat \ {0}
  BY <1>1, Rest DEF Ordered
<1>4. InTurn' /\ todo'[1][1] \notin Pieces
  <2>1. CASE \E everything \in BOOLEAN : PublishRun(everything)
    <3> DEFINE s == <<Do("list"), Do("scan"), Do("transfer"), Do("writeCache"), Exit>>
    <3>1. todo' = s
      BY <2>1 DEF PublishRun, Starts
    <3>2. /\ Len(s) = 5 /\ s[1][1] = "list" /\ s[2][1] = "scan" /\ s[3][1] = "transfer"
          /\ s[4][1] = "writeCache" /\ s[5][1] = "exit"
      BY PublishList, Entries DEF Kinds
    <3> HIDE DEF s
    <3>3. \A k \in 1..5 : k # 1 => \/ k = 2 /\ k - 1 = 1
                                   \/ k = 3 /\ k - 1 = 2
                                   \/ k = 4 /\ k - 1 = 3
                                   \/ k = 5 /\ k - 1 = 4
      OBVIOUS
    <3>4. \A k \in 1..5 : k # 1 => /\ s[k][1] = "scan" => s[k - 1][1] = "list"
                                   /\ s[k][1] = "transfer" => s[k - 1][1] = "scan"
                                   /\ s[k][1] = "writeCache" => s[k - 1][1] = "transfer"
      BY <3>2, <3>3
    <3> QED
      BY <3>1, <3>2, <3>4 DEF InTurn, Listed, Pieces
  <2>2. CASE ~\E everything \in BOOLEAN : PublishRun(everything)
    <3>1. \A k \in Listed' : todo'[k][1] \notin Pieces
      BY <2>2, StartingKinds
    <3>2. 1 \in Listed'
      BY <1>3 DEF Listed
    <3> QED
      BY <3>1, <3>2 DEF InTurn, Pieces
  <2> QED
    BY <2>1, <2>2
<1>5. ~Doing("scan")' /\ ~Doing("transfer")' /\ ~Doing("writeCache")'
  BY <1>3, <1>4 DEF Doing, Pieces
<1> QED
  BY <1>1, <1>2, <1>4, <1>5, PagesSame

(* A program that ends, and what happens beside the commands.              *)
LEMMA PagesEnd ==
  ASSUME PagesInv, Ends
  PROVE  PagesInv'
<1>1. /\ listing' = [f \in Files |-> Absent] /\ scan' = listing' /\ transferred' = {} /\ all' = FALSE
      /\ UNCHANGED <<files, site>> /\ todo' = << >>
  BY DEF Ends, RunOver
<1>2. Ordered' /\ PublishTypeOK' /\ Honest' /\ Scanned'
  BY <1>1, EndsOrdered DEF PagesInv, PublishTypeOK, Honest, Scanned
<1>3. \A k \in Listed' : FALSE
  BY <1>1 DEF Listed
<1>4. InTurn'
  BY <1>3 DEF InTurn
<1>5. \A x : ~Doing(x)'
  BY <1>1 DEF Doing
<1>6. ListingTrue' /\ TransferTrue' /\ SiteTrue'
  BY <1>5 DEF ListingTrue, TransferTrue, SiteTrue
<1> QED
  BY <1>2, <1>4, <1>6 DEF PagesInv

(* Idle times are those when users edit and other devices publish.         *)
LEMMA PagesBesides ==
  ASSUME PagesInv, "editInRun" \notin Troubles, Besides
  PROVE  PagesInv'
<1>1. CASE UNCHANGED publishVars
  BY <1>1, PagesAside DEF Besides, Keyring, Sync, Expire, UserEdits, OtherPublishes, publishVars
<1>2. ASSUME NEW f \in Files, NEW c \in Contents \cup {Absent}, UserEdits(f, c) \/ OtherPublishes(f, c)
      PROVE  PagesInv'
  <2>1. /\ todo = << >> /\ UNCHANGED <<todo, scan, listing, transferred, all>>
        /\ \/ files' = [files EXCEPT ![f] = c] /\ UNCHANGED site
           \/ site' = [site EXCEPT ![f] = PageOf(c)] /\ UNCHANGED files
    BY <1>2 DEF UserEdits, OtherPublishes, Idle
  <2>2. PageOf(c) \in Pages /\ PageOf(c).hash = PageOf(c).body
    BY DEF PageOf, Pages
  <2>3. Ordered' /\ InTurn'
    BY <2>1 DEF PagesInv, Ordered, InTurn, Listed
  <2>4. PublishTypeOK' /\ Honest'
    BY <2>1, <2>2 DEF PagesInv, PublishTypeOK, Honest
  <2>5. Scanned'
    BY <2>1 DEF PagesInv, Scanned
  <2>6. \A x : ~Doing(x)'
    BY <2>1 DEF Doing
  <2>7. ListingTrue' /\ TransferTrue' /\ SiteTrue'
    BY <2>6 DEF ListingTrue, TransferTrue, SiteTrue
  <2> QED
    BY <2>3, <2>4, <2>5, <2>7 DEF PagesInv
<1> QED
  BY <1>1, <1>2 DEF Besides, Keyring, Sync, Expire

(* A command that goes on with something else.                             *)
LEMMA PagesOthers ==
  ASSUME PagesInv, NEW x, x \notin {"exit", "list", "scan", "transfer"}, Doing(x), Done,
         UNCHANGED publishVars
  PROVE  PagesInv'
<1>1. /\ Ordered' /\ InTurn' /\ todo # << >> /\ todo' # << >>
      /\ ~Doing("scan")' /\ ~Doing("transfer")' /\ ~Doing("writeCache")'
  BY TurnDone DEF PagesInv
<1>2. UNCHANGED <<files, site, scan, listing, transferred>> /\ all' \in BOOLEAN
  BY DEF publishVars, PagesInv, PublishTypeOK
<1> QED
  BY <1>1, <1>2, PagesSame

(* A secret is stored.                                                     *)
LEMMA PagesStored ==
  ASSUME PagesInv, StoreSecret
  PROVE  PagesInv'
<1>1. Doing("store") /\ UNCHANGED publishVars
  BY DEF StoreSecret
<1>2. CASE Done
  BY <1>1, <1>2, PagesOthers
<1>3. CASE todo' = <<Clear(Name)>> \o Tail(todo)
  <2>1. /\ todo \in Seq(Entry) /\ todo # << >> /\ Head(todo) = todo[1] /\ todo[1][1] = "store"
        /\ Len(todo) \in Nat \ {0}
    BY <1>1, Rest DEF PagesInv, Ordered, Doing
  <2>2. todo[1] \in Entry /\ todo[1] # Exit
    BY <2>1, Entries
  <2>3. Clear(Name) \in Entry /\ Clear(Name)[1] = "clear"
    BY <2>1, <2>2 DEF Name, Clear, Entry, Kinds
  <2>4. /\ Ordered' /\ todo' # << >> /\ Len(todo') = Len(todo)
        /\ todo'[1] = Clear(Name) /\ \A k \in 2..Len(todo) : todo'[k] = todo[k]
    BY <1>3, <2>1, <2>2, <2>3, ReplacedOrdered DEF PagesInv
  <2>5. ASSUME NEW k \in Listed' \ {1}
        PROVE  /\ todo'[k][1] = "scan" => todo'[k - 1][1] = "list"
               /\ todo'[k][1] = "transfer" => todo'[k - 1][1] = "scan"
               /\ todo'[k][1] = "writeCache" => todo'[k - 1][1] = "transfer"
    <3>1. k \in Listed \ {1} /\ todo'[k] = todo[k]
      BY <2>1, <2>4, <2>5 DEF Listed
    <3>2. /\ todo[k][1] = "scan" => todo[k - 1][1] = "list"
          /\ todo[k][1] = "transfer" => todo[k - 1][1] = "scan"
          /\ todo[k][1] = "writeCache" => todo[k - 1][1] = "transfer"
      BY <3>1 DEF PagesInv, InTurn
    <3>3. CASE k = 2
      <4>1. k - 1 = 1
        BY <3>3
      <4> QED
        BY <2>1, <3>1, <3>2, <4>1
    <3>4. CASE k # 2
      <4>1. k - 1 \in 2..Len(todo)
        BY <2>1, <3>1, <3>4 DEF Listed
      <4> QED
        BY <2>4, <3>1, <3>2, <4>1
    <3> QED
      BY <3>3, <3>4
  <2>6. InTurn'
    BY <2>5 DEF InTurn
  <2>7. Head(todo')[1] = "clear"
    BY <2>3, <2>4, Rest DEF Ordered
  <2>8. ~Doing("scan")' /\ ~Doing("transfer")' /\ ~Doing("writeCache")'
    BY <2>7 DEF Doing
  <2>9. UNCHANGED <<files, site, scan, listing, transferred>> /\ all' \in BOOLEAN
    BY <1>1 DEF publishVars, PagesInv, PublishTypeOK
  <2> QED
    BY <2>1, <2>4, <2>6, <2>8, <2>9, PagesSame
<1> QED
  BY <1>2, <1>3 DEF StoreSecret

(* The steps of a run.                                                     *)
LEMMA PagesListed ==
  ASSUME PagesInv, PublishTypeOK', Doing("list"), Done, ListSite
  PROVE  PagesInv'
<1>1. /\ Ordered' /\ InTurn' /\ todo # << >> /\ todo' # << >>
      /\ ~Doing("transfer")' /\ ~Doing("writeCache")'
  BY TurnDone DEF PagesInv
<1>2. /\ listing' = [f \in Files |-> site[f].hash]
      /\ UNCHANGED <<files, site, scan, transferred, all>>
  BY DEF ListSite
<1>3. Honest' /\ Scanned' /\ ListingTrue'
  BY <1>1, <1>2 DEF PagesInv, Honest, Scanned, ListingTrue
<1>4. TransferTrue' /\ SiteTrue'
  BY <1>1 DEF TransferTrue, SiteTrue
<1> QED
  BY <1>1, <1>3, <1>4 DEF PagesInv

(* The scan chooses what the vault asks for.                               *)
LEMMA PagesScanned ==
  ASSUME PagesInv, PublishTypeOK', Doing("scan"), Done, ScanVault
  PROVE  PagesInv'
<1>1. /\ Ordered' /\ InTurn' /\ todo # << >> /\ todo' # << >>
      /\ ~Doing("scan")' /\ ~Doing("writeCache")'
  BY TurnDone DEF PagesInv
<1>2. /\ scan' = [f \in Files |-> Chosen(f)] /\ transferred' = {}
      /\ UNCHANGED <<files, site, listing, all>>
  BY DEF ScanVault, Chosen
<1>3. \A f \in Files : Chosen(f)' = Chosen(f)
  BY <1>2 DEF Chosen
<1>4. \A f \in Files : listing[f] = site[f].hash
  BY DEF PagesInv, ListingTrue
<1>5. Honest' /\ TransferTrue'
  BY <1>2, <1>3, <1>4 DEF PagesInv, Honest, TransferTrue
<1>6. \A f \in Files : scan'[f] # Absent => files'[f] = scan'[f]
  BY <1>2 DEF Chosen
<1>7. Scanned'
  BY <1>1, <1>6 DEF Scanned
<1>8. ListingTrue' /\ SiteTrue'
  BY <1>1 DEF ListingTrue, SiteTrue
<1> QED
  BY <1>1, <1>5, <1>7, <1>8 DEF PagesInv

(* One page is uploaded or deleted, and the run goes on or fails.          *)
LEMMA PageTransferred ==
  ASSUME PagesInv, PublishTypeOK', Doing("transfer"), todo' \in {todo, <<Exit>>},
         NEW f \in Files, UploadPage(f) \/ DeletePage(f)
  PROVE  PagesInv'
<1>1. /\ UNCHANGED <<files, listing, scan, all>> /\ transferred' = transferred \cup {f}
      /\ \/ scan[f] # Absent /\ site' = [site EXCEPT ![f] = [hash |-> scan[f], body |-> files[f]]]
         \/ scan[f] = Absent /\ site' = [site EXCEPT ![f] = NoPage]
  BY DEF UploadPage, DeletePage, Uploads, Deletes
<1>2. scan[f] # Absent => files[f] = scan[f]
  BY DEF PagesInv, Scanned
<1>3. site \in [Files -> Pages]
  BY DEF PagesInv, PublishTypeOK
<1>4. /\ site'[f].hash = scan[f] /\ site'[f].body = scan[f]
      /\ \A g \in Files \ {f} : site'[g] = site[g]
  BY <1>1, <1>2, <1>3 DEF NoPage
<1>5. Honest'
  BY <1>4 DEF PagesInv, Honest
<1>6. Ordered /\ todo # << >> /\ todo' # << >>
  BY DEF PagesInv, Doing
<1>7. Scanned'
  BY <1>1, <1>6 DEF PagesInv, Scanned
<1>8. \A g \in Files : Chosen(g)' = Chosen(g)
  BY <1>1 DEF Chosen
<1>9. CASE todo' = todo
  <2>1. \A x : Doing(x)' <=> Doing(x)
    BY <1>9 DEF Doing
  <2>2. ~Doing("scan")' /\ ~Doing("writeCache")'
    BY <1>9 DEF Doing
  <2>3. Ordered' /\ InTurn'
    BY <1>9 DEF PagesInv, Ordered, InTurn, Listed
  <2>4. \A g \in Files : /\ scan[g] = Chosen(g)
                         /\ site[g].hash = IF g \in transferred THEN Chosen(g) ELSE listing[g]
    BY DEF PagesInv, TransferTrue
  <2>5. \A g \in Files : /\ scan'[g] = Chosen(g)
                         /\ site'[g].hash = IF g \in transferred' THEN Chosen(g) ELSE listing'[g]
    BY <1>1, <1>4, <2>4
  <2>6. TransferTrue'
    BY <1>8, <2>5 DEF TransferTrue
  <2>7. ListingTrue' /\ SiteTrue'
    BY <2>2 DEF ListingTrue, SiteTrue
  <2> QED
    BY <1>5, <1>7, <2>3, <2>6, <2>7 DEF PagesInv
<1>10. CASE todo' = <<Exit>>
  <2>1. /\ Ordered' /\ Len(todo') = 1 /\ Head(todo') = Exit
    BY <1>10, EndsOrdered
  <2>2. Head(todo')[1] = "exit"
    BY <2>1, Entries
  <2>3. ~Doing("scan")' /\ ~Doing("transfer")' /\ ~Doing("writeCache")'
    BY <2>2 DEF Doing
  <2>4. \A k \in Listed' \ {1} : FALSE
    BY <2>1 DEF Listed
  <2>5. InTurn'
    BY <2>4 DEF InTurn
  <2>6. ListingTrue' /\ TransferTrue' /\ SiteTrue'
    BY <2>3 DEF ListingTrue, TransferTrue, SiteTrue
  <2> QED
    BY <1>5, <1>7, <2>1, <2>5, <2>6 DEF PagesInv
<1> QED
  BY <1>9, <1>10

(* All are, so the site has what was chosen.                               *)
LEMMA PagesTransferred ==
  ASSUME PagesInv, Doing("transfer"), AllTransferred, Done, UNCHANGED publishVars
  PROVE  PagesInv'
<1>1. /\ Ordered' /\ InTurn' /\ todo # << >> /\ todo' # << >>
      /\ ~Doing("scan")' /\ ~Doing("transfer")'
  BY TurnDone DEF PagesInv
<1>2. UNCHANGED <<files, site, scan, listing, transferred, all>>
  BY DEF publishVars
<1>3. \A f \in Files : /\ scan[f] = Chosen(f)
                       /\ site[f].hash = IF f \in transferred THEN Chosen(f) ELSE listing[f]
  BY DEF PagesInv, TransferTrue
<1>4. \A f \in Files : f \in transferred \/ scan[f] = listing[f]
  BY DEF AllTransferred, Uploads, Deletes
<1>5. \A f \in Files : site[f].hash = Chosen(f)
  BY <1>3, <1>4
<1>6. SiteTrue'
  BY <1>2, <1>5 DEF SiteTrue, Chosen
<1>7. PublishTypeOK' /\ Honest' /\ Scanned'
  BY <1>1, <1>2 DEF PagesInv, PublishTypeOK, Honest, Scanned
<1>8. ListingTrue' /\ TransferTrue'
  BY <1>1 DEF ListingTrue, TransferTrue
<1> QED
  BY <1>1, <1>6, <1>7, <1>8 DEF PagesInv

(* So every step keeps the invariant, whatever fails.                      *)
LEMMA PagesStep ==
  ASSUME PagesInv, "editInRun" \notin Troubles, [Next]_vars
  PROVE  PagesInv'
<1>0. PublishTypeOK'
  BY PublishTyped DEF PagesInv
<1>1. CASE GoesOn
  <2>1. CASE SignOut \/ SignIn \/ OpenRing \/ RemoveSecret \/ ClearSecret
    BY <2>1, PagesOthers DEF SignOut, SignIn, OpenRing, RemoveSecret, ClearSecret
  <2>2. CASE WriteConfig \/ RemoveConfig \/ MoveState \/ PublishDone
    BY <2>2, PagesOthers DEF WriteConfig, RemoveConfig, MoveState, PublishDone
  <2>3. CASE PublishStep
    <3>1. CASE Doing("list") /\ Done /\ ListSite
      BY <1>0, <3>1, PagesListed
    <3>2. CASE Doing("scan") /\ Done /\ ScanVault
      BY <1>0, <3>2, PagesScanned
    <3>3. CASE /\ Doing("transfer") /\ todo' \in {todo, <<Exit>>}
               /\ \E f \in Files : UploadPage(f) \/ DeletePage(f)
      BY <1>0, <3>3, PageTransferred
    <3>4. CASE Doing("transfer") /\ AllTransferred /\ Done /\ UNCHANGED publishVars
      BY <3>4, PagesTransferred
    <3> QED
      BY <2>3, <3>1, <3>2, <3>3, <3>4 DEF PublishStep
  <2> QED
    BY <1>1, <2>1, <2>2, <2>3, PagesStored DEF GoesOn
<1>2. CASE UNCHANGED vars
  BY <1>2, PagesAside DEF vars, publishVars
<1> QED
  BY <1>1, <1>2, NextSplit, PagesStart, PagesEnd, PagesBesides

(* A publish run that returns without an error leaves on the site what the *)
(* vault and the selection ask for, whatever earlier runs left half done   *)
(* and other devices published before, unless the user edits a file while  *)
(* it runs (publish/engine.go: Run).                                       *)
THEOREM PublishedTheorem ==
  ASSUME "editInRun" \notin Troubles
  PROVE  Spec => PublishedAsWanted
<1>1. Init => PagesInv
  <2> SUFFICES ASSUME Init PROVE PagesInv
    OBVIOUS
  <2>1. /\ todo = << >> /\ files = [f \in Files |-> Absent] /\ scan = files /\ listing = files
        /\ site = [f \in Files |-> NoPage] /\ transferred = {} /\ all = FALSE
    BY DEF Init, PublishInit
  <2>2. NoPage \in Pages /\ NoPage.hash = NoPage.body
    BY DEF NoPage, Pages
  <2>3. Ordered /\ PublishTypeOK /\ Honest /\ Scanned
    <3>1. \A f \in Files : site[f] = NoPage /\ scan[f] = Absent
      BY <2>1
    <3>2. Honest /\ Scanned
      BY <2>2, <3>1 DEF Honest, Scanned
    <3>3. PublishTypeOK
      BY <2>1, <2>2 DEF PublishTypeOK
    <3>4. Ordered
      BY <2>1 DEF Ordered
    <3> QED
      BY <3>2, <3>3, <3>4
  <2>4. InTurn /\ ListingTrue /\ TransferTrue /\ SiteTrue
    BY <2>1 DEF InTurn, Listed, Doing, ListingTrue, TransferTrue, SiteTrue
  <2> QED
    BY <2>3, <2>4 DEF PagesInv
<1>2. PagesInv /\ [Next]_vars => PagesInv'
  BY PagesStep
<1>3. PagesInv /\ [Next]_vars =>
        [PublishDone => \A f \in Files : site[f] = Wanted(f)]_vars
  <2> SUFFICES ASSUME PagesInv, PublishDone, NEW f \in Files
               PROVE  site[f] = Wanted(f)
    OBVIOUS
  <2>1. site[f] \in Pages /\ site[f].hash = site[f].body /\ site[f].hash = Chosen(f)
    BY DEF PagesInv, PublishTypeOK, Honest, SiteTrue, PublishDone
  <2>2. site[f] = PageOf(Chosen(f))
    BY <2>1 DEF Pages, PageOf
  <2>3. PageOf(Absent) = NoPage
    BY DEF PageOf, NoPage
  <2> QED
    BY <2>2, <2>3 DEF Wanted, Chosen
<1> QED
  BY <1>1, <1>2, <1>3, PTL DEF Spec, PublishedAsWanted
=============================================================================
