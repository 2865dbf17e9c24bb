------------------------------ MODULE Publish ------------------------------
(***************************************************************************)
(* A publish run, internal/publish/engine.go: list the pages of the site,  *)
(* scan the vault for the files that are selected, upload what differs,    *)
(* delete what is not selected any more, and write a cache (which nothing  *)
(* ever reads).  The hash of a page is taken in the scan, its body is read *)
(* when it is uploaded.  The steps are put into an order, and interrupted, *)
(* by the command that runs them (module Commands).                        *)
(***************************************************************************)
CONSTANTS
  Files,
  Contents,     \* what a file may contain
  Absent,       \* not a content
  Public,       \* contents whose front matter says publish: true
  Private,      \* and those with publish: false
  Unprobed,     \* those whose front matter is longer than publishProbeSize
  Included,     \* files that match the patterns to include
  Excluded      \* and those to exclude

PublishAssumption == /\ Absent \notin Contents /\ Public \cup Private \subseteq Contents
                     /\ Public \cap Private = {}
ASSUME PublishAssumption

VARIABLES
  files,        \* the vault
  site,         \* per file, the content that the site has, and that its hash is of
  listing,      \* the hashes that were listed
  scan,         \* the contents that were selected
  transferred,  \* the files that have been uploaded or deleted
  all           \* untagged files are published too

publishVars == <<files, site, listing, scan, transferred, all>>

Pages == [hash : Contents \cup {Absent}, body : Contents \cup {Absent}]
NoPage == [hash |-> Absent, body |-> Absent]
PageOf(c) == [hash |-> c, body |-> c]

PublishInit ==
  /\ files = [f \in Files |-> Absent] /\ site = [f \in Files |-> NoPage]
  /\ listing = files /\ scan = files
  /\ transferred = {} /\ all = FALSE

PublishTypeOK ==
  /\ files \in [Files -> Contents \cup {Absent}] /\ site \in [Files -> Pages]
  /\ listing \in [Files -> Contents \cup {Absent}] /\ scan \in [Files -> Contents \cup {Absent}]
  /\ transferred \subseteq Files /\ all \in BOOLEAN

(* detectPublishFlag, of the beginning of a file.                          *)
Flagged(c, contents) == c \in contents \ Unprobed

\* Mutant: --all publishes what it is told not to.
SelectedByAll(f, c, everything) ==
  c # Absent /\ (everything \/ Flagged(c, Public) \/ (~Flagged(c, Private) /\ f \in Included \ Excluded))

(* The flag decides; a file without one is selected by the patterns.       *)
Selected(f, c, everything) ==
  /\ c # Absent /\ ~Flagged(c, Private)
  /\ Flagged(c, Public) \/ (f \notin Excluded /\ (everything \/ f \in Included))

(* The site that the vault asks for.                                       *)
Wanted(f) == IF Selected(f, files[f], all) THEN PageOf(files[f]) ELSE NoPage

(* What a run has in memory is gone when its process ends.                 *)
RunOver ==
  /\ listing' = [f \in Files |-> Absent] /\ scan' = listing' /\ transferred' = {} /\ all' = FALSE
  /\ UNCHANGED <<files, site>>

ListSite ==
  /\ listing' = [f \in Files |-> site[f].hash]
  /\ UNCHANGED <<files, site, scan, transferred, all>>

ScanVault ==
  /\ scan' = [f \in Files |-> IF Selected(f, files[f], all) THEN files[f] ELSE Absent]
  /\ transferred' = {}
  /\ UNCHANGED <<files, site, listing, all>>

\* Mutant: only pages that the site does not have are uploaded.
NewUploads == {f \in Files : scan[f] # Absent /\ listing[f] = Absent}

Uploads == {f \in Files : scan[f] \notin {Absent, listing[f]}}
Deletes == {f \in Files : scan[f] = Absent /\ listing[f] # Absent}

(* The file is read now, and sent with the hash of the scan.               *)
UploadPage(f) ==
  /\ f \in Uploads \ transferred /\ files[f] # Absent
  /\ site' = [site EXCEPT ![f] = [hash |-> scan[f], body |-> files[f]]]
  /\ transferred' = transferred \cup {f}
  /\ UNCHANGED <<files, listing, scan, all>>

DeletePage(f) ==
  /\ Uploads \subseteq transferred /\ f \in Deletes \ transferred
  /\ site' = [site EXCEPT ![f] = NoPage]
  /\ transferred' = transferred \cup {f}
  /\ UNCHANGED <<files, listing, scan, all>>

AllTransferred == Uploads \cup Deletes \subseteq transferred

=============================================================================
