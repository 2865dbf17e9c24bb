---------------------------- MODULE SessionProofs ----------------------------
(***************************************************************************)
(* The protocol on the connections of a sync, for any number of workers,   *)
(* files, sizes and versions, whatever is refused, breaks or is cancelled: *)
(* the client and the server stay in step.  Requests carry no identifier,  *)
(* so all of it rests on where the two are in a call (InCall) and on no    *)
(* notification being sent to a connection that pulls.                     *)
(***************************************************************************)
EXTENDS TransfersProofs, SequenceTheorems

-----------------------------------------------------------------------------
(* What is sent, and what is stored.                                       *)

Parts == [kind : {"frame"}, uid : Uids, part : Nat]
Replies == [kind : {"reply"}, res : {"ok", "err", "next"}, pieces : Nat]
Notices == [kind : {"notice"}, path : Files, uid : Uids]
Messages == Parts \cup Replies \cup Notices

Requests == [op : {"pull"}, uid : Uids]
            \cup [op : {"push"}, path : Files, size : Sizes, pieces : Nat]
            \cup [op : {"delete"}, path : Files] \cup {[op |-> "frame"]}

Calls == {None} \cup [op : {"pull"}, uid : Uids, left : Nat, got : Seq(Messages)]
         \cup [op : {"push"}, path : Files, size : Sizes, sent : Nat]
         \cup [op : {"delete"}, path : Files]

Uploads == {None} \cup [op : {"push"}, uid : Uids, pieces : Nat]

WireTypes ==
  /\ version \in [Uids -> Version \cup {NoVersion}] /\ last \in 0..MaxUid
  /\ \A u \in 1..last : version[u] \in Version
  /\ \A u \in (last + 1)..MaxUid : version[u] = NoVersion
  /\ upload \in [Conns -> Uploads]
  /\ request \in [Conns -> Seq(Requests)] /\ inbox \in [Conns -> Seq(Messages)]
  /\ call \in [Conns -> Calls]

RestTypes ==
  /\ gone \subseteq Uids /\ open \subseteq Conns
  /\ remote \in [Files -> 0..MaxUid] /\ told \in [Conns -> [Files -> 0..MaxUid]]
  /\ DOMAIN result = Conns

(***************************************************************************)
(* Where client and server are in a call.  s is what the client has not    *)
(* read.                                                                   *)
(***************************************************************************)
OnlyNotices(s) == \A k \in 1..Len(s) : s[k].kind = "notice"
OneReply(s, R) == \E k \in 1..Len(s) : /\ s[k].kind = "reply" /\ s[k].res \in R
                                       /\ \A j \in 1..Len(s) : j # k => s[j].kind = "notice"
Asked(c, op) == Len(request[c]) = 1 /\ request[c][1].op = op

BetweenCalls(c) == request[c] = <<>> /\ upload[c] = None /\ OnlyNotices(inbox[c])

(* The frames of the version that is pulled come in order, after one reply *)
(* that says how many there are.                                           *)
InPull(c) ==
  LET k == call[c]
      s == inbox[c]
  IN  /\ upload[c] = None
      /\ \A i \in 1..Len(k.got) : k.got[i] = Part(k.uid, i)
      /\ \/ Asked(c, "pull") /\ request[c][1].uid = k.uid /\ s = <<>> /\ k.left = 0 /\ k.got = <<>>
         \/ /\ request[c] = <<>> /\ k.left = 0 /\ k.got = <<>>
            /\ Len(s) > 0 /\ s[1].kind = "reply"
            /\ \/ s[1].res = "err" /\ Len(s) = 1
               \/ s[1].res = "ok" /\ s[1].pieces = Len(s) - 1
            /\ \A i \in 2..Len(s) : s[i] = Part(k.uid, i - 1)
         \/ /\ request[c] = <<>> /\ k.left > 0 /\ Len(s) = k.left
            /\ \A i \in 1..Len(s) : s[i] = Part(k.uid, Len(k.got) + i)

(* As many frames of a push are stored as were sent, or one less while the *)
(* last one has not been read.                                             *)
Receives(c, n) == upload[c] # None /\ upload[c].pieces = Pieces(call[c].size)
                  /\ version[upload[c].uid].frames = n
InPush(c) ==
  LET k == call[c]
      s == inbox[c]
  IN  \/ /\ Asked(c, "push") /\ k.sent = 0 /\ upload[c] = None /\ OnlyNotices(s)
         /\ request[c][1] = [op |-> "push", path |-> k.path, size |-> k.size,
                             pieces |-> Pieces(k.size)]
      \/ /\ Asked(c, "frame") /\ k.sent \in 1..Pieces(k.size) /\ Receives(c, k.sent - 1)
         /\ OnlyNotices(s)
      \/ /\ request[c] = <<>>
         /\ \/ upload[c] = None /\ OneReply(s, {"err"})
            \/ upload[c] = None /\ k.sent \in {0, Pieces(k.size)} /\ OneReply(s, {"ok"})
            \/ Receives(c, k.sent) /\ k.sent < Pieces(k.size) /\ OneReply(s, {"next"})

InDelete(c) ==
  /\ upload[c] = None
  /\ \/ Asked(c, "delete") /\ request[c][1].path = call[c].path /\ OnlyNotices(inbox[c])
     \/ request[c] = <<>> /\ OneReply(inbox[c], {"ok", "err"})

InCall(c) == /\ call[c] = None => BetweenCalls(c)
             /\ call[c].op = "pull" => InPull(c)
             /\ call[c].op = "push" => InPush(c)
             /\ call[c].op = "delete" => InDelete(c)

(* The connections of the pool only pull.                                  *)
PoolPulls == \A w \in Workers : call[w] = None \/ call[w].op = "pull"

UploadsKnown == \A c \in Conns : upload[c] # None => upload[c].uid <= last

WireInv == /\ WireTypes /\ RestTypes /\ PoolPulls /\ UploadsKnown
           /\ \A c \in Conns : InCall(c)

-----------------------------------------------------------------------------
(* Lists of messages.                                                      *)

(* A list of length 0.                                                     *)
LEMMA Emptied ==
  ASSUME NEW s \in Seq(Messages), Len(s) = 0
  PROVE  s = <<>>
  OBVIOUS

(* One more at the end.                                                    *)
LEMMA Appended ==
  ASSUME NEW s \in Seq(Messages), NEW m \in Messages
  PROVE  /\ Append(s, m) \in Seq(Messages) /\ Len(Append(s, m)) = Len(s) + 1
         /\ \A k \in 1..Len(s) : Append(s, m)[k] = s[k]
         /\ Append(s, m)[Len(s) + 1] = m
         /\ Len(s) \in Nat
  OBVIOUS

(* The first one is read.                                                  *)
LEMMA FirstRead ==
  ASSUME NEW s \in Seq(Messages), s # <<>>
  PROVE  /\ Head(s) = s[1] /\ Tail(s) \in Seq(Messages) /\ s[1] \in Messages
         /\ Len(s) \in Nat \ {0} /\ Len(Tail(s)) = Len(s) - 1
         /\ \A k \in 1..Len(Tail(s)) : Tail(s)[k] = s[k + 1]
  OBVIOUS

(* A list of one or two at the end is them one by one.                     *)
LEMMA OneJoined ==
  ASSUME NEW s \in Seq(Messages), NEW m \in Messages
  PROVE  s \o <<m>> = Append(s, m)
  BY <<m>> \in Seq(Messages), AppendIsConcat

(* Two of them at the end.                                                 *)
LEMMA TwoJoined ==
  ASSUME NEW s \in Seq(Messages), NEW m \in Messages, NEW n \in Messages
  PROVE  s \o <<m, n>> = Append(Append(s, m), n)
<1> DEFINE t == <<m, n>>
           a == s \o t
           b == Append(Append(s, m), n)
<1>1. t \in Seq(Messages) /\ Len(t) = 2 /\ t[1] = m /\ t[2] = n
  OBVIOUS
<1>2. /\ a \in Seq(Messages) /\ Len(a) = Len(s) + 2 /\ Len(s) \in Nat
      /\ \A k \in 1..Len(a) : a[k] = IF k <= Len(s) THEN s[k] ELSE t[k - Len(s)]
  BY <1>1, ConcatProperties
<1>3. b \in Seq(Messages) /\ Len(b) = Len(s) + 2
      /\ \A k \in 1..Len(b) : b[k] = IF k <= Len(s) THEN s[k] ELSE t[k - Len(s)]
  <2>1. /\ Append(s, m) \in Seq(Messages) /\ Len(Append(s, m)) = Len(s) + 1 /\ Len(s) \in Nat
        /\ \A k \in 1..Len(s) : Append(s, m)[k] = s[k]
        /\ Append(s, m)[Len(s) + 1] = m
    BY Appended
  <2>2. /\ b \in Seq(Messages) /\ Len(b) = Len(s) + 2
        /\ \A k \in 1..(Len(s) + 1) : b[k] = Append(s, m)[k]
        /\ b[Len(s) + 2] = n
    BY <2>1, Appended
  <2> HIDE DEF b, t
  <2> QED
    BY <1>1, <2>1, <2>2
<1> HIDE DEF a, b
<1>4. a = b
  BY <1>2, <1>3, SeqEqual
<1> QED
  BY <1>4 DEF a, b

(* The kinds of messages.                                                  *)
LEMMA MessageKinds ==
  /\ \A u \in Uids, i \in Nat : Part(u, i) \in Messages /\ Part(u, i).kind = "frame"
  /\ \A r \in {"ok", "err", "next"}, n \in Nat :
       /\ Reply(r, n) \in Messages /\ Reply(r, n).kind = "reply"
       /\ Reply(r, n).res = r /\ Reply(r, n).pieces = n
  /\ \A p \in Files, u \in Uids :
       /\ Notice(p, u) \in Messages /\ Notice(p, u).kind = "notice"
       /\ Notice(p, u).path = p /\ Notice(p, u).uid = u
  /\ \A m \in Messages : /\ m.kind \in {"frame", "reply", "notice"}
                         /\ m.kind = "reply" => m \in Replies
                         /\ m.kind = "notice" => m \in Notices
                         /\ m.kind = "frame" => m \in Parts
  BY DEF Part, Reply, Notice, Messages, Parts, Replies, Notices

(* A notification comes after the others.                                  *)
LEMMA NoticeComes ==
  ASSUME NEW s \in Seq(Messages), NEW m \in Messages, m.kind = "notice"
  PROVE  /\ OnlyNotices(s) => OnlyNotices(Append(s, m))
         /\ \A R : OneReply(s, R) => OneReply(Append(s, m), R)
<1>1. OnlyNotices(s) => OnlyNotices(Append(s, m))
  BY Appended DEF OnlyNotices
<1>2. ASSUME NEW R, OneReply(s, R)
      PROVE  OneReply(Append(s, m), R)
  <2>1. PICK k \in 1..Len(s) : /\ s[k].kind = "reply" /\ s[k].res \in R
                               /\ \A j \in 1..Len(s) : j # k => s[j].kind = "notice"
    BY <1>2 DEF OneReply
  <2>2. k \in 1..Len(Append(s, m)) /\ Append(s, m)[k] = s[k]
        /\ \A j \in 1..Len(Append(s, m)) : j # k => Append(s, m)[j].kind = "notice"
    BY <2>1, Appended
  <2> QED
    BY <2>1, <2>2 DEF OneReply
<1> QED
  BY <1>1, <1>2

(* A reply comes after notifications.                                      *)
LEMMA ReplyComes ==
  ASSUME NEW s \in Seq(Messages), OnlyNotices(s), NEW m \in Messages, m.kind = "reply",
         NEW R, m.res \in R
  PROVE  OneReply(Append(s, m), R)
<1>1. Len(s) + 1 \in 1..Len(Append(s, m)) /\ Append(s, m)[Len(s) + 1] = m
      /\ \A j \in 1..Len(Append(s, m)) : j # Len(s) + 1 => Append(s, m)[j].kind = "notice"
  BY Appended DEF OnlyNotices
<1> QED
  BY <1>1 DEF OneReply

(* What is left when the first is read.                                    *)
LEMMA NoticeRead ==
  ASSUME NEW s \in Seq(Messages), s # <<>>
  PROVE  /\ OnlyNotices(s) => s[1].kind = "notice" /\ OnlyNotices(Tail(s))
         /\ \A R : OneReply(s, R) =>
              \/ s[1].kind = "notice" /\ OneReply(Tail(s), R)
              \/ s[1].kind = "reply" /\ s[1].res \in R /\ OnlyNotices(Tail(s))
<1>1. OnlyNotices(s) => s[1].kind = "notice" /\ OnlyNotices(Tail(s))
  BY FirstRead DEF OnlyNotices
<1>2. ASSUME NEW R, OneReply(s, R)
      PROVE  \/ s[1].kind = "notice" /\ OneReply(Tail(s), R)
             \/ s[1].kind = "reply" /\ s[1].res \in R /\ OnlyNotices(Tail(s))
  <2>1. PICK k \in 1..Len(s) : /\ s[k].kind = "reply" /\ s[k].res \in R
                               /\ \A j \in 1..Len(s) : j # k => s[j].kind = "notice"
    BY <1>2 DEF OneReply
  <2>2. CASE k = 1
    <3>1. \A j \in 1..Len(Tail(s)) : Tail(s)[j].kind = "notice"
      BY <2>1, <2>2, FirstRead
    <3> QED
      BY <2>1, <2>2, <3>1 DEF OnlyNotices
  <2>3. CASE k # 1
    <3>1. s[1].kind = "notice"
      BY <2>1, <2>3, FirstRead
    <3>2. k - 1 \in 1..Len(Tail(s)) /\ Tail(s)[k - 1] = s[k]
          /\ \A j \in 1..Len(Tail(s)) : j # k - 1 => Tail(s)[j].kind = "notice"
      BY <2>1, <2>3, FirstRead
    <3> QED
      BY <2>1, <3>1, <3>2 DEF OneReply
  <2> QED
    BY <2>2, <2>3
<1> QED
  BY <1>1, <1>2

(* There is no list that is only notifications and has a reply.            *)
LEMMA EmptyIsQuiet == OnlyNotices(<<>>)
  BY DEF OnlyNotices

-----------------------------------------------------------------------------
(* The start.                                                              *)

(* Lengths are counted in natural numbers.                                 *)
LEMMA Lengths ==
  ASSUME NEW n \in Sizes \cup {0}
  PROVE  Pieces(n) \in Nat /\ Frames(Cipher(n)) \in Nat
<1>1. chunkSize \in Nat \ {0} /\ n \in Nat /\ Cipher(n) \in Nat
  BY SizesAssumption DEF SizesAssumption, Cipher
<1>2. \A m \in Nat : Frames(m) \in Nat
  <2> SUFFICES ASSUME NEW m \in Nat PROVE Frames(m) \in Nat
    OBVIOUS
  <2>1. m + chunkSize - 1 \in Nat
    BY <1>1
  <2>2. \A a \in Nat, b \in Nat \ {0} : a \div b \in Nat
    OBVIOUS
  <2> QED
    BY <1>1, <2>1, <2>2 DEF Frames
<1> QED
  BY <1>1, <1>2 DEF Pieces

(* The versions that the server starts with are those of the jobs.         *)
LEMMA Found ==
  ASSUME Init
  PROVE  /\ last = NumJobs /\ NumJobs \in 1..MaxUid
         /\ version \in [Uids -> Version \cup {NoVersion}]
         /\ \A u \in 1..last : version[u] \in Version /\ version[u].by = "other"
         /\ \A u \in (last + 1)..MaxUid : version[u] = NoVersion
<1>1. PICK n, p : /\ n = (CHOOSE k \in Sizes : \A m \in Sizes : m <= k)
                  /\ p = (CHOOSE q \in Files : TRUE)
  OBVIOUS
<1>2. n \in Sizes /\ p \in Files
  BY <1>1, SizesAssumption, NamesAssumption DEF SizesAssumption, NamesAssumption
<1> DEFINE v == New(p, n, Frames(Cipher(n)), "other")
           f == [u \in Uids |-> IF u \in Jobs THEN v ELSE NoVersion]
<1>3. SessionInit(f, {Main})
  BY <1>1 DEF Init
<1>4. v \in Version /\ v # NoVersion /\ v.by = "other"
  BY <1>2, Lengths DEF New, Version, NoVersion
<1>5. NumJobs \in 1..MaxUid /\ MaxUid \in Nat /\ Jobs \subseteq Uids
  BY PoolAssumption, BoundAssumption DEF PoolAssumption, BoundAssumption, Jobs, Uids
<1> HIDE DEF v
<1>6. {u \in Uids : f[u] # NoVersion} = 1..NumJobs
  BY <1>4, <1>5 DEF Jobs
<1>7. last = NumJobs
  <2>1. last = Cardinality({u \in Uids : f[u] # NoVersion})
    BY <1>3 DEF SessionInit
  <2>2. Cardinality(1..NumJobs) = NumJobs
    BY <1>5, FS_Interval
  <2> QED
    BY <1>6, <2>1, <2>2
<1>8. version = f
  BY <1>3 DEF SessionInit
<1> QED
  BY <1>4, <1>5, <1>7, <1>8 DEF Jobs, Uids

(* Nobody has asked for anything.                                          *)
LEMMA WireInit == Init => WireInv
<1> SUFFICES ASSUME Init PROVE WireInv
  OBVIOUS
<1>1. /\ gone = {} /\ upload = [c \in Conns |-> None]
      /\ request = [c \in Conns |-> <<>>] /\ inbox = [c \in Conns |-> <<>>]
      /\ open = {Main} /\ call = [c \in Conns |-> None] /\ result = [c \in Conns |-> None]
      /\ remote = [p \in Files |-> 0] /\ told = [c \in Conns |-> [p \in Files |-> 0]]
  BY DEF Init, SessionInit
<1>2. MaxUid \in Nat /\ Main \in Conns /\ Workers \subseteq Conns
  BY PoolAssumption, BoundAssumption DEF PoolAssumption, BoundAssumption
<1>3. WireTypes
  <2>1. None \in Calls /\ None \in Uploads /\ <<>> \in Seq(Requests) /\ <<>> \in Seq(Messages)
    BY DEF Calls, Uploads
  <2> QED
    BY <1>1, <1>2, <2>1, Found DEF WireTypes
<1>4. RestTypes
  BY <1>1, <1>2 DEF RestTypes
<1>5. PoolPulls /\ UploadsKnown
  BY <1>1, <1>2 DEF PoolPulls, UploadsKnown
<1>6. ASSUME NEW c \in Conns PROVE InCall(c)
  <2>1. call[c] = None /\ None.op = "none" /\ BetweenCalls(c)
    BY <1>1, EmptyIsQuiet DEF BetweenCalls, None
  <2> QED
    BY <2>1 DEF InCall
<1> QED
  BY <1>3, <1>4, <1>5, <1>6 DEF WireInv

-----------------------------------------------------------------------------
(* Steps on other connections.                                             *)

(* A connection that no step is about, but for a notification.             *)
LEMMA Untouched ==
  ASSUME WireInv, NEW d \in Conns,
         call'[d] = call[d], request'[d] = request[d], upload'[d] = upload[d],
         \/ inbox'[d] = inbox[d]
         \/ /\ call[d].op # "pull"
            /\ \E p \in Files, u \in Uids : inbox'[d] = Append(inbox[d], Notice(p, u)),
         upload[d] # None => version'[upload[d].uid] = version[upload[d].uid]
  PROVE  InCall(d)'
<1>1. InCall(d) /\ inbox[d] \in Seq(Messages)
  BY DEF WireInv, WireTypes
<1>2. /\ OnlyNotices(inbox[d]) => OnlyNotices(inbox'[d])
      /\ \A R : OneReply(inbox[d], R) => OneReply(inbox'[d], R)
  <2>1. CASE inbox'[d] = inbox[d]
    BY <2>1
  <2>2. ASSUME NEW p \in Files, NEW u \in Uids, inbox'[d] = Append(inbox[d], Notice(p, u))
        PROVE  /\ OnlyNotices(inbox[d]) => OnlyNotices(inbox'[d])
               /\ \A R : OneReply(inbox[d], R) => OneReply(inbox'[d], R)
    <3>1. Notice(p, u) \in Messages /\ Notice(p, u).kind = "notice"
      BY MessageKinds
    <3> QED
      BY <1>1, <2>2, <3>1, NoticeComes
  <2> QED
    BY <2>1, <2>2
<1>3. BetweenCalls(d) => BetweenCalls(d)'
  BY <1>2 DEF BetweenCalls
<1>4. call[d].op = "pull" /\ InPull(d) => InPull(d)'
  BY DEF InPull, Asked
<1>5. \A n : Receives(d, n) => Receives(d, n)'
  BY DEF Receives
<1>6. InPush(d) => InPush(d)'
  BY <1>2, <1>5 DEF InPush, Asked
<1>7. InDelete(d) => InDelete(d)'
  BY <1>2 DEF InDelete, Asked
<1> QED
  BY <1>1, <1>3, <1>4, <1>6, <1>7 DEF InCall

-----------------------------------------------------------------------------
(* The client asks.                                                        *)

(* One request is sent, and the rest is as between calls.                  *)
LEMMA Asking ==
  ASSUME WireInv, NEW c \in Conns, NEW m \in Requests, NEW what \in Calls, Ask(c, m, what)
  PROVE  /\ WireTypes' /\ RestTypes' /\ UploadsKnown'
         /\ \A d \in Conns : d # c => InCall(d)' /\ call'[d] = call[d]
         /\ call'[c] = what /\ Len(request'[c]) = 1 /\ request'[c][1] = m
         /\ upload'[c] = None /\ inbox'[c] = inbox[c] /\ OnlyNotices(inbox[c])
<1>1. /\ c \in open /\ call[c] = None
      /\ request' = [request EXCEPT ![c] = Append(request[c], m)]
      /\ call' = [call EXCEPT ![c] = what]
      /\ result' = [result EXCEPT ![c] = None]
      /\ UNCHANGED <<version, last, gone, upload, inbox, open, remote, told>>
  BY DEF Ask, Idle, server
<1>2. request \in [Conns -> Seq(Requests)] /\ call \in [Conns -> Calls]
  BY DEF WireInv, WireTypes
<1>3. BetweenCalls(c)
  BY <1>1 DEF WireInv, InCall
<1>4. /\ Append(request[c], m) \in Seq(Requests) /\ Len(Append(request[c], m)) = 1
      /\ Append(request[c], m)[1] = m
  BY <1>2, <1>3 DEF BetweenCalls
<1>5. WireTypes' /\ RestTypes' /\ UploadsKnown'
  BY <1>1, <1>2, <1>4 DEF WireInv, WireTypes, RestTypes, UploadsKnown
<1>6. \A d \in Conns : d # c => InCall(d)' /\ call'[d] = call[d]
  <2> SUFFICES ASSUME NEW d \in Conns, d # c PROVE InCall(d)' /\ call'[d] = call[d]
    OBVIOUS
  <2>1. call'[d] = call[d] /\ request'[d] = request[d]
    BY <1>1, <1>2
  <2> QED
    BY <1>1, <2>1, Untouched
<1> QED
  BY <1>1, <1>2, <1>3, <1>4, <1>5, <1>6 DEF BetweenCalls

(* To pull,                                                                *)
LEMMA StartingPull ==
  ASSUME WireInv, "noticeInPull" \notin Faults, NEW c \in Conns, NEW u \in Uids, StartPull(c, u)
  PROVE  WireInv'
<1> DEFINE m == [op |-> "pull", uid |-> u]
           what == [op |-> "pull", uid |-> u, left |-> 0, got |-> <<>>]
<1>1. inbox[c] = <<>> /\ Ask(c, m, what)
  BY DEF StartPull
<1>2. m \in Requests /\ m.op = "pull" /\ m.uid = u
  BY DEF Requests
<1>3. /\ what \in Calls /\ what # None /\ what.op = "pull" /\ what.uid = u /\ what.left = 0
      /\ what.got = <<>>
  BY DEF Calls, None
<1> HIDE DEF m, what
<1>4. /\ WireTypes' /\ RestTypes' /\ UploadsKnown'
      /\ \A d \in Conns : d # c => InCall(d)' /\ call'[d] = call[d]
      /\ call'[c] = what /\ Len(request'[c]) = 1 /\ request'[c][1] = m
      /\ upload'[c] = None /\ inbox'[c] = inbox[c]
  BY <1>1, <1>2, <1>3, Asking
<1>5. PoolPulls'
  BY <1>3, <1>4, PoolAssumption DEF PoolPulls, PoolAssumption, WireInv
<1>6. InPull(c)'
  BY <1>1, <1>2, <1>3, <1>4 DEF InPull, Asked
<1>7. InCall(c)'
  BY <1>3, <1>4, <1>6 DEF InCall
<1> QED
  BY <1>4, <1>5, <1>7 DEF WireInv

(* to push,                                                                *)
LEMMA StartingPush ==
  ASSUME WireInv, NEW p \in Files, NEW n \in Sizes, StartPush(Main, p, n)
  PROVE  WireInv'
<1> DEFINE c == Main
           m == [op |-> "push", path |-> p, size |-> n, pieces |-> Pieces(n)]
           what == [op |-> "push", path |-> p, size |-> n, sent |-> 0]
<1>0. c \in Conns /\ c \notin Workers /\ Workers \subseteq Conns
  BY PoolAssumption DEF PoolAssumption
<1>1. Ask(c, m, what)
  BY DEF StartPush
<1>2. m \in Requests /\ m.op = "push"
  BY Lengths DEF Requests
<1>3. /\ what \in Calls /\ what # None /\ what.op = "push" /\ what.sent = 0
      /\ m = [op |-> "push", path |-> what.path, size |-> what.size,
              pieces |-> Pieces(what.size)]
  BY DEF Calls, None
<1> HIDE DEF c, m, what
<1>4. /\ WireTypes' /\ RestTypes' /\ UploadsKnown'
      /\ \A d \in Conns : d # c => InCall(d)' /\ call'[d] = call[d]
      /\ call'[c] = what /\ Len(request'[c]) = 1 /\ request'[c][1] = m
      /\ upload'[c] = None /\ inbox'[c] = inbox[c] /\ OnlyNotices(inbox[c])
  BY <1>0, <1>1, <1>2, <1>3, Asking
<1>5. PoolPulls'
  BY <1>0, <1>4 DEF PoolPulls, WireInv, c
<1>6. InPush(c)'
  BY <1>2, <1>3, <1>4 DEF InPush, Asked
<1>7. InCall(c)'
  BY <1>3, <1>4, <1>6 DEF InCall
<1> QED
  BY <1>4, <1>5, <1>7 DEF WireInv

(* and to delete.                                                          *)
LEMMA StartingDelete ==
  ASSUME WireInv, NEW p \in Files, StartDelete(Main, p)
  PROVE  WireInv'
<1> DEFINE c == Main
           m == [op |-> "delete", path |-> p]
<1>0. c \in Conns /\ c \notin Workers /\ Workers \subseteq Conns
  BY PoolAssumption DEF PoolAssumption
<1>1. Ask(c, m, m)
  BY DEF StartDelete
<1>2. m \in Requests /\ m.op = "delete" /\ m \in Calls /\ m # None
  BY DEF Requests, Calls, None
<1> HIDE DEF c, m
<1>4. /\ WireTypes' /\ RestTypes' /\ UploadsKnown'
      /\ \A d \in Conns : d # c => InCall(d)' /\ call'[d] = call[d]
      /\ call'[c] = m /\ Len(request'[c]) = 1 /\ request'[c][1] = m
      /\ upload'[c] = None /\ inbox'[c] = inbox[c] /\ OnlyNotices(inbox[c])
  BY <1>0, <1>1, <1>2, Asking
<1>5. PoolPulls'
  BY <1>0, <1>4 DEF PoolPulls, WireInv, c
<1>6. InDelete(c)'
  BY <1>2, <1>4 DEF InDelete, Asked
<1>7. InCall(c)'
  BY <1>2, <1>4, <1>6 DEF InCall
<1> QED
  BY <1>4, <1>5, <1>7 DEF WireInv

-----------------------------------------------------------------------------
(* The server reads and answers.                                           *)

(* What it can have read, and where the client is then.                    *)
LEMMA ServerReads ==
  ASSUME WireInv, NEW c \in Conns, Took(c)
  PROVE  /\ request' \in [Conns -> Seq(Requests)] /\ request'[c] = <<>>
         /\ \A d \in Conns : d # c => request'[d] = request[d]
         /\ call[c] \in Calls /\ inbox[c] \in Seq(Messages)
         /\ \/ /\ call[c].op = "pull" /\ Req(c).op = "pull" /\ Req(c).uid = call[c].uid
               /\ call[c].uid \in Uids
               /\ inbox[c] = <<>> /\ upload[c] = None /\ call[c].left = 0 /\ call[c].got = <<>>
            \/ /\ call[c].op = "push" /\ call[c].sent = 0 /\ upload[c] = None
               /\ Req(c) = [op |-> "push", path |-> call[c].path, size |-> call[c].size,
                            pieces |-> Pieces(call[c].size)]
               /\ call[c].path \in Files /\ call[c].size \in Sizes
               /\ OnlyNotices(inbox[c])
            \/ /\ call[c].op = "push" /\ Req(c).op = "frame" /\ call[c].size \in Sizes
               /\ call[c].sent \in 1..Pieces(call[c].size) /\ Receives(c, call[c].sent - 1)
               /\ OnlyNotices(inbox[c])
            \/ /\ call[c].op = "delete" /\ Req(c).op = "delete" /\ Req(c).path = call[c].path
               /\ call[c].path \in Files
               /\ upload[c] = None /\ OnlyNotices(inbox[c])
<1>1. /\ request \in [Conns -> Seq(Requests)] /\ call[c] \in Calls /\ inbox[c] \in Seq(Messages)
      /\ InCall(c) /\ request[c] # <<>> /\ request' = [request EXCEPT ![c] = Tail(request[c])]
  BY DEF WireInv, WireTypes, Took
<1>2. \/ call[c] = None
      \/ call[c].op = "pull" /\ call[c].uid \in Uids
      \/ call[c].op = "push" /\ call[c].path \in Files /\ call[c].size \in Sizes
      \/ call[c].op = "delete" /\ call[c].path \in Files
  BY <1>1 DEF Calls
<1>3. \/ call[c].op = "pull" /\ call[c].uid \in Uids /\ InPull(c)
      \/ call[c].op = "push" /\ call[c].path \in Files /\ call[c].size \in Sizes /\ InPush(c)
      \/ call[c].op = "delete" /\ call[c].path \in Files /\ InDelete(c)
  BY <1>1, <1>2 DEF InCall, BetweenCalls
<1>4. /\ Len(request[c]) = 1
      /\ \/ /\ call[c].op = "pull" /\ request[c][1].op = "pull" /\ request[c][1].uid = call[c].uid
            /\ call[c].uid \in Uids
            /\ inbox[c] = <<>> /\ upload[c] = None /\ call[c].left = 0 /\ call[c].got = <<>>
         \/ /\ call[c].op = "push" /\ call[c].sent = 0 /\ upload[c] = None
            /\ request[c][1] = [op |-> "push", path |-> call[c].path, size |-> call[c].size,
                                pieces |-> Pieces(call[c].size)]
            /\ call[c].path \in Files /\ call[c].size \in Sizes
            /\ OnlyNotices(inbox[c])
         \/ /\ call[c].op = "push" /\ request[c][1].op = "frame" /\ call[c].size \in Sizes
            /\ call[c].sent \in 1..Pieces(call[c].size) /\ Receives(c, call[c].sent - 1)
            /\ OnlyNotices(inbox[c])
         \/ /\ call[c].op = "delete" /\ request[c][1].op = "delete"
            /\ request[c][1].path = call[c].path /\ call[c].path \in Files
            /\ upload[c] = None /\ OnlyNotices(inbox[c])
  <2>1. CASE call[c].op = "pull" /\ call[c].uid \in Uids /\ InPull(c)
    BY <1>1, <2>1 DEF InPull, Asked
  <2>2. CASE call[c].op = "push" /\ call[c].path \in Files /\ call[c].size \in Sizes /\ InPush(c)
    BY <1>1, <2>2 DEF InPush, Asked
  <2>3. CASE call[c].op = "delete" /\ call[c].path \in Files /\ InDelete(c)
    BY <1>1, <2>3 DEF InDelete, Asked
  <2> QED
    BY <1>3, <2>1, <2>2, <2>3
<1>5. Head(request[c]) = request[c][1] /\ Tail(request[c]) = <<>> /\ Req(c) = request[c][1]
  BY <1>1, <1>4 DEF Req
<1>6. /\ request' \in [Conns -> Seq(Requests)] /\ request'[c] = <<>>
      /\ \A d \in Conns : d # c => request'[d] = request[d]
  BY <1>1, <1>5
<1> QED
  BY <1>1, <1>4, <1>5, <1>6

(* One message is sent on a connection.                                    *)
LEMMA Sending ==
  ASSUME WireInv, NEW c \in Conns, NEW m \in Messages, Step(c, <<m>>)
  PROVE  /\ inbox' \in [Conns -> Seq(Messages)] /\ inbox'[c] = Append(inbox[c], m)
         /\ \A d \in Conns : d # c => inbox'[d] = inbox[d]
<1>1. inbox \in [Conns -> Seq(Messages)] /\ inbox[c] \in Seq(Messages)
  BY DEF WireInv, WireTypes
<1>2. inbox' = [inbox EXCEPT ![c] = Append(inbox[c], m)]
  BY <1>1, OneJoined DEF Step
<1>3. Append(inbox[c], m) \in Seq(Messages)
  BY <1>1, Appended
<1> QED
  BY <1>1, <1>2, <1>3

(* An error is the answer, and the push is dropped.                        *)
LEMMA Refusing ==
  ASSUME WireInv, NEW c \in Conns, Refuse(c)
  PROVE  WireInv'
<1> DEFINE m == Reply("err", 0)
<1>1. /\ Took(c) /\ upload' = [upload EXCEPT ![c] = None] /\ Step(c, <<m>>)
      /\ UNCHANGED <<version, last, gone, open, call, result, remote, told>>
  BY DEF Refuse, client
<1>2. m \in Messages /\ m.kind = "reply" /\ m.res = "err" /\ None \in Uploads
  BY MessageKinds DEF Uploads
<1> HIDE DEF m
<1>3. /\ inbox' \in [Conns -> Seq(Messages)] /\ inbox'[c] = Append(inbox[c], m)
      /\ \A d \in Conns : d # c => inbox'[d] = inbox[d]
  BY <1>1, <1>2, Sending
<1>4. /\ request' \in [Conns -> Seq(Requests)] /\ request'[c] = <<>>
      /\ \A d \in Conns : d # c => request'[d] = request[d]
      /\ call[c] \in Calls /\ inbox[c] \in Seq(Messages)
  BY <1>1, ServerReads
<1>5. /\ upload' \in [Conns -> Uploads] /\ upload'[c] = None
      /\ \A d \in Conns : d # c => upload'[d] = upload[d]
  BY <1>1, <1>2 DEF WireInv, WireTypes
<1>6. WireTypes' /\ RestTypes' /\ UploadsKnown' /\ PoolPulls'
  BY <1>1, <1>3, <1>4, <1>5 DEF WireInv, WireTypes, RestTypes, UploadsKnown, PoolPulls
<1>7. ASSUME NEW d \in Conns, d # c PROVE InCall(d)'
  BY <1>1, <1>3, <1>4, <1>5, <1>7, Untouched
<1>8. InCall(c)'
  <2>1. CASE call[c].op = "pull" /\ inbox[c] = <<>> /\ call[c].left = 0 /\ call[c].got = <<>>
    <3>1. Len(inbox'[c]) = 1 /\ inbox'[c][1] = m
      BY <1>3, <2>1
    <3>2. InPull(c)'
      BY <1>1, <1>2, <1>4, <1>5, <2>1, <3>1 DEF InPull
    <3> QED
      BY <1>1, <2>1, <3>2 DEF InCall, None
  <2>2. CASE call[c].op \in {"push", "delete"} /\ OnlyNotices(inbox[c])
    <3>1. OneReply(inbox'[c], {"err"}) /\ OneReply(inbox'[c], {"ok", "err"})
      BY <1>2, <1>3, <1>4, <2>2, ReplyComes
    <3>2. InPush(c)' /\ InDelete(c)'
      BY <1>1, <1>4, <1>5, <3>1 DEF InPush, InDelete
    <3> QED
      BY <1>1, <2>2, <3>2 DEF InCall, None
  <2> QED
    BY <1>1, <2>1, <2>2, ServerReads
<1> QED
  BY <1>6, <1>7, <1>8 DEF WireInv

(* The content of a version is its frames in order.                        *)
LEMMA ContentInOrder ==
  ASSUME WireInv, NEW u \in Uids
  PROVE  /\ Content(u) \in Seq(Messages) /\ Len(Content(u)) \in Nat
         /\ \A i \in 1..Len(Content(u)) : Content(u)[i] = Part(u, i)
<1>1. version[u].frames \in Nat
  BY DEF WireInv, WireTypes, Version, NoVersion
<1>2. \A i \in Nat : Part(u, i) \in Messages
  BY MessageKinds
<1>3. CASE u \in gone
  BY <1>3 DEF Content
<1>4. CASE u \notin gone
  <2> DEFINE n == version[u].frames
             s == [i \in 1..n |-> Part(u, i)]
  <2>1. Content(u) = s
    BY <1>4 DEF Content
  <2> HIDE DEF n
  <2>2. n \in Nat
    BY <1>1 DEF n
  <2>3. s \in Seq(Messages)
    BY <1>2, <2>2, IsASeq
  <2>4. Len(s) = n
    BY <2>2, <2>3, LenProperties
  <2> QED
    BY <2>1, <2>2, <2>3, <2>4
<1> QED
  BY <1>3, <1>4

(* The answer to a pull.                                                   *)
LEMMA ServingPull ==
  ASSUME WireInv, NEW c \in Conns, ServePull(c)
  PROVE  WireInv'
<1> DEFINE u == call[c].uid
           n == Len(Content(u))
           m == Reply("ok", n)
           s == inbox[c] \o (<<m>> \o Content(u))
<1>1. /\ Took(c) /\ Req(c).op = "pull"
      /\ inbox' = [inbox EXCEPT ![c] = inbox[c] \o (<<Reply("ok", Len(Content(Req(c).uid)))>>
                                                   \o Content(Req(c).uid))]
      /\ UNCHANGED <<version, last, gone, upload, open, call, result, remote, told>>
  BY DEF ServePull, server, client, Step
<1>2. /\ request' \in [Conns -> Seq(Requests)] /\ request'[c] = <<>>
      /\ \A d \in Conns : d # c => request'[d] = request[d]
      /\ call[c].op = "pull" /\ Req(c).uid = u /\ u \in Uids
      /\ inbox[c] = <<>> /\ upload[c] = None /\ call[c].left = 0 /\ call[c].got = <<>>
  <2>1. call[c] \in Calls
    BY DEF WireInv, WireTypes
  <2> QED
    BY <1>1, <2>1, ServerReads
<1>3. inbox' = [inbox EXCEPT ![c] = s]
  BY <1>1, <1>2
<1>4. /\ Content(u) \in Seq(Messages) /\ n \in Nat
      /\ \A i \in 1..n : Content(u)[i] = Part(u, i)
  BY <1>2, ContentInOrder
<1>5. m \in Messages /\ m.kind = "reply" /\ m.res = "ok" /\ m.pieces = n
  BY <1>4, MessageKinds
<1>6. /\ s \in Seq(Messages) /\ Len(s) = n + 1 /\ s[1] = m
      /\ \A i \in 2..Len(s) : s[i] = Part(u, i - 1)
  <2> DEFINE one == <<m>>
             t == one \o Content(u)
  <2> HIDE DEF u, m
  <2>1. one \in Seq(Messages) /\ Len(one) = 1 /\ one[1] = m
    BY <1>5
  <2> HIDE DEF one
  <2>2. /\ t \in Seq(Messages) /\ Len(t) = Len(one) + n
        /\ \A i \in 1..Len(t) : t[i] = IF i <= Len(one) THEN one[i]
                                          ELSE Content(u)[i - Len(one)]
    BY <1>4, <2>1, ConcatProperties
  <2>3. s = t
    BY <1>2, <2>2, ConcatEmptySeq DEF one
  <2> HIDE DEF n, s, t
  <2>4. Len(t) = n + 1 /\ t[1] = m
    BY <1>4, <2>1, <2>2
  <2>5. ASSUME NEW i \in 2..Len(t) PROVE t[i] = Part(u, i - 1)
    <3>1. t[i] = Content(u)[i - 1] /\ i - 1 \in 1..n
      BY <1>4, <2>2, <2>4
    <3> QED
      BY <1>4, <3>1
  <2> QED
    BY <2>2, <2>3, <2>4, <2>5
<1> HIDE DEF s, m
<1>7. /\ inbox' \in [Conns -> Seq(Messages)] /\ inbox'[c] = s
      /\ \A d \in Conns : d # c => inbox'[d] = inbox[d]
  BY <1>3, <1>6 DEF WireInv, WireTypes
<1>8. WireTypes' /\ RestTypes' /\ UploadsKnown' /\ PoolPulls'
  BY <1>1, <1>2, <1>7 DEF WireInv, WireTypes, RestTypes, UploadsKnown, PoolPulls
<1>9. ASSUME NEW d \in Conns, d # c PROVE InCall(d)'
  BY <1>1, <1>2, <1>7, <1>9, Untouched
<1>10. InCall(c)'
  <2>1. InPull(c)'
    BY <1>1, <1>2, <1>4, <1>5, <1>6, <1>7 DEF InPull
  <2> QED
    BY <1>1, <1>2, <2>1 DEF InCall, None
<1> QED
  BY <1>8, <1>9, <1>10 DEF WireInv

(* A notification before or after the answer.                              *)
LEMMA Echoed ==
  ASSUME NEW s \in Seq(Messages), OnlyNotices(s), NEW p \in Files, NEW u \in Uids,
         NEW r \in {"ok", "err", "next"}, NEW R, r \in R, NEW msgs \in Echo(p, u, Reply(r, 0))
  PROVE  s \o msgs \in Seq(Messages) /\ OneReply(s \o msgs, R)
<1> DEFINE m == Reply(r, 0)
           n == Notice(p, u)
<1>1. msgs \in {<<n, m>>, <<m, n>>}
  BY DEF Echo
<1>2. /\ m \in Messages /\ m.kind = "reply" /\ m.res \in R
      /\ n \in Messages /\ n.kind = "notice"
  BY MessageKinds
<1> HIDE DEF m, n
<1>3. CASE msgs = <<n, m>>
  <2>1. s \o msgs = Append(Append(s, n), m)
    BY <1>2, <1>3, TwoJoined
  <2>2. Append(s, n) \in Seq(Messages) /\ OnlyNotices(Append(s, n))
    BY <1>2, Appended, NoticeComes
  <2>3. Append(Append(s, n), m) \in Seq(Messages)
    BY <1>2, <2>2, Appended
  <2>4. OneReply(Append(Append(s, n), m), R)
    BY <1>2, <2>2, ReplyComes
  <2> QED
    BY <2>1, <2>3, <2>4
<1>4. CASE msgs = <<m, n>>
  <2>1. s \o msgs = Append(Append(s, m), n)
    BY <1>2, <1>4, TwoJoined
  <2>2. Append(s, m) \in Seq(Messages) /\ OneReply(Append(s, m), R)
    BY <1>2, Appended, ReplyComes
  <2> QED
    BY <1>2, <2>1, <2>2, Appended, NoticeComes
<1> QED
  BY <1>1, <1>3, <1>4

(* Everyone else is notified, unless it pulls.                             *)
LEMMA Telling ==
  ASSUME WireInv, "noticeInPull" \notin Faults, NEW c \in Conns, NEW p \in Files,
         NEW u \in Uids, NEW msgs, CanTell(c), Tell(c, p, u, msgs),
         inbox[c] \o msgs \in Seq(Messages)
  PROVE  /\ inbox' \in [Conns -> Seq(Messages)] /\ inbox'[c] = inbox[c] \o msgs
         /\ \A d \in Conns : d # c =>
              \/ inbox'[d] = inbox[d]
              \/ call[d].op # "pull" /\ inbox'[d] = Append(inbox[d], Notice(p, u))
         /\ told' \in [Conns -> [Files -> 0..MaxUid]]
<1>1. inbox \in [Conns -> Seq(Messages)] /\ told \in [Conns -> [Files -> 0..MaxUid]]
  BY DEF WireInv, WireTypes, RestTypes
<1>2. Notice(p, u) \in Messages
  BY MessageKinds
<1>3. \A d \in Conns : Append(inbox[d], Notice(p, u)) \in Seq(Messages)
  BY <1>1, <1>2, Appended
<1>4. /\ inbox' = [d \in Conns |-> IF d = c THEN inbox[d] \o msgs
                                   ELSE IF d \in open THEN Append(inbox[d], Notice(p, u))
                                   ELSE inbox[d]]
      /\ told' = [d \in Conns |-> IF d = c \/ d \in open THEN [told[d] EXCEPT ![p] = u] ELSE told[d]]
  BY DEF Tell
<1>5. u \in 0..MaxUid
  BY BoundAssumption DEF BoundAssumption, Uids
<1> QED
  BY <1>1, <1>3, <1>4, <1>5 DEF CanTell

(* A version that is new.                                                  *)
LEMMA NewVersion ==
  ASSUME WireInv, last < MaxUid, NEW v \in Version, last' = last + 1,
         version' = [version EXCEPT ![last + 1] = v]
  PROVE  /\ last + 1 \in Uids /\ last' \in 0..MaxUid
         /\ version' \in [Uids -> Version \cup {NoVersion}] /\ version'[last + 1] = v
         /\ \A w \in 1..last' : version'[w] \in Version
         /\ \A w \in (last' + 1)..MaxUid : version'[w] = NoVersion
         /\ \A w \in Uids : w # last + 1 => version'[w] = version[w]
         /\ \A d \in Conns : upload[d] # None =>
              /\ upload[d].uid \in Uids /\ upload[d].uid <= last'
              /\ version'[upload[d].uid] = version[upload[d].uid]
<1>1. /\ last \in 0..MaxUid /\ version \in [Uids -> Version \cup {NoVersion}]
      /\ \A w \in 1..last : version[w] \in Version
      /\ \A w \in (last + 1)..MaxUid : version[w] = NoVersion
      /\ MaxUid \in Nat /\ Uids = 1..MaxUid
  BY BoundAssumption DEF BoundAssumption, WireInv, WireTypes, Uids
<1>2. ASSUME NEW d \in Conns, upload[d] # None
      PROVE  upload[d].uid \in Uids /\ upload[d].uid <= last
  BY <1>2 DEF WireInv, WireTypes, Uploads, UploadsKnown
<1> QED
  BY <1>1, <1>2

(* A push is answered at once or frame by frame.                           *)
LEMMA ServingPush ==
  ASSUME WireInv, "noticeInPull" \notin Faults, NEW c \in Conns, ServePush(c)
  PROVE  WireInv'
<1> DEFINE u == last + 1
           k == call[c]
           Given(n) == [version EXCEPT ![u] = New(k.path, k.size, n, c)]
<1>1. /\ Took(c) /\ Req(c).op = "push" /\ last < MaxUid /\ CanTell(c) /\ last' = u
      /\ UNCHANGED <<gone, open, call, result, remote>>
  BY DEF ServePush, client
<1>2. /\ request' \in [Conns -> Seq(Requests)] /\ request'[c] = <<>>
      /\ \A d \in Conns : d # c => request'[d] = request[d]
      /\ k.op = "push" /\ k.sent = 0 /\ upload[c] = None /\ k.path \in Files
      /\ k.size \in Sizes /\ inbox[c] \in Seq(Messages) /\ OnlyNotices(inbox[c])
      /\ Req(c).path = k.path /\ Req(c).size = k.size /\ Req(c).pieces = Pieces(k.size)
  BY <1>1, ServerReads
<1>3. u \in Uids
  BY <1>1, BoundAssumption DEF WireInv, WireTypes, Uids, BoundAssumption
<1>4. \A n \in Nat : New(k.path, k.size, n, c) \in Version /\ New(k.path, k.size, n, c).frames = n
  BY <1>2 DEF New, Version
<1>5. PICK n, r, msgs :
        /\ n \in Nat /\ r \in {"ok", "next"} /\ msgs \in Echo(k.path, u, Reply(r, 0))
        /\ version' = Given(n) /\ Tell(c, k.path, u, msgs)
        /\ \/ r = "ok" /\ upload' = upload
           \/ /\ r = "next" /\ n = 0 /\ Pieces(k.size) > 0
              /\ upload' = [upload EXCEPT ![c] = [op |-> "push", uid |-> u,
                                                  pieces |-> Pieces(k.size)]]
  <2>1. CASE /\ version' = Given(Frames(Cipher(k.size)))
             /\ \E msgs \in Echo(k.path, u, Reply("ok", 0)) : Tell(c, k.path, u, msgs)
             /\ UNCHANGED upload
    <3>1. Frames(Cipher(k.size)) \in Nat
      BY <1>2, Lengths
    <3> QED
      BY <2>1, <3>1
  <2>2. CASE /\ Pieces(k.size) > 0
             /\ version' = Given(0)
             /\ upload' = [upload EXCEPT ![c] = [op |-> "push", uid |-> u,
                                                 pieces |-> Pieces(k.size)]]
             /\ \E msgs \in Echo(k.path, u, Reply("next", 0)) : Tell(c, k.path, u, msgs)
    BY <2>2
  <2> QED
    BY <1>2, <2>1, <2>2 DEF ServePush
<1>6. inbox[c] \o msgs \in Seq(Messages) /\ OneReply(inbox[c] \o msgs, {r})
  BY <1>2, <1>3, <1>5, Echoed
<1>7. /\ inbox' \in [Conns -> Seq(Messages)] /\ OneReply(inbox'[c], {r})
      /\ \A d \in Conns : d # c =>
           \/ inbox'[d] = inbox[d]
           \/ call[d].op # "pull" /\ inbox'[d] = Append(inbox[d], Notice(k.path, u))
      /\ told' \in [Conns -> [Files -> 0..MaxUid]]
  <2>1. /\ k.path \in Files /\ u \in Uids /\ CanTell(c) /\ Tell(c, k.path, u, msgs)
        /\ inbox[c] \o msgs \in Seq(Messages)
    BY <1>1, <1>2, <1>3, <1>5, <1>6
  <2> HIDE DEF u, k
  <2>2. /\ inbox' \in [Conns -> Seq(Messages)] /\ inbox'[c] = inbox[c] \o msgs
        /\ \A d \in Conns : d # c =>
             \/ inbox'[d] = inbox[d]
             \/ call[d].op # "pull" /\ inbox'[d] = Append(inbox[d], Notice(k.path, u))
        /\ told' \in [Conns -> [Files -> 0..MaxUid]]
    BY <2>1, Telling
  <2> QED
    BY <1>6, <2>2
<1>8. /\ last' \in 0..MaxUid
      /\ version' \in [Uids -> Version \cup {NoVersion}] /\ version'[u].frames = n
      /\ \A w \in 1..last' : version'[w] \in Version
      /\ \A w \in (last' + 1)..MaxUid : version'[w] = NoVersion
      /\ \A d \in Conns : upload[d] # None =>
           upload[d].uid <= last' /\ version'[upload[d].uid] = version[upload[d].uid]
  BY <1>1, <1>4, <1>5, NewVersion
<1>9. /\ upload' \in [Conns -> Uploads]
      /\ \A d \in Conns : d # c => upload'[d] = upload[d]
      /\ \/ r = "ok" /\ upload'[c] = None
         \/ /\ r = "next" /\ n = 0 /\ Pieces(k.size) > 0 /\ upload'[c] # None
            /\ upload'[c].pieces = Pieces(k.size) /\ upload'[c].uid = u
  <2>1. [op |-> "push", uid |-> u, pieces |-> Pieces(k.size)] \in Uploads \ {None}
    BY <1>2, <1>3, Lengths DEF Uploads, None
  <2>2. upload \in [Conns -> Uploads]
    BY DEF WireInv, WireTypes
  <2>3. CASE r = "ok" /\ upload' = upload
    BY <1>2, <2>2, <2>3
  <2>4. CASE /\ r = "next" /\ n = 0 /\ Pieces(k.size) > 0
             /\ upload' = [upload EXCEPT ![c] = [op |-> "push", uid |-> u,
                                                 pieces |-> Pieces(k.size)]]
    BY <2>1, <2>2, <2>4
  <2> QED
    BY <1>5, <2>3, <2>4
<1>10. WireTypes' /\ RestTypes' /\ PoolPulls'
  BY <1>1, <1>2, <1>7, <1>8, <1>9 DEF WireInv, WireTypes, RestTypes, PoolPulls
<1>11. UploadsKnown'
  BY <1>1, <1>3, <1>8, <1>9 DEF UploadsKnown, Uids
<1>12. ASSUME NEW d \in Conns, d # c PROVE InCall(d)'
  <2>1. call'[d] = call[d] /\ request'[d] = request[d] /\ upload'[d] = upload[d]
    BY <1>1, <1>2, <1>9, <1>12
  <2>2. \/ inbox'[d] = inbox[d]
        \/ /\ call[d].op # "pull"
           /\ \E p \in Files, v \in Uids : inbox'[d] = Append(inbox[d], Notice(p, v))
    BY <1>2, <1>3, <1>7, <1>12
  <2> QED
    BY <1>8, <2>1, <2>2, Untouched
<1>13. InCall(c)'
  <2>1. Pieces(k.size) \in Nat
    BY <1>2, Lengths
  <2>2. InPush(c)'
    <3>1. CASE r = "ok"
      BY <1>1, <1>2, <1>7, <1>9, <3>1 DEF InPush
    <3>2. CASE r = "next"
      <4>1. /\ upload'[c] # None /\ upload'[c].pieces = Pieces(k.size) /\ n = 0
            /\ upload'[c].uid = u /\ OneReply(inbox'[c], {"next"}) /\ 0 < Pieces(k.size)
        BY <1>7, <1>9, <3>2
      <4>2. Receives(c, 0)'
        BY <1>1, <1>8, <4>1 DEF Receives
      <4> QED
        BY <1>1, <1>2, <4>1, <4>2 DEF InPush
    <3> QED
      BY <1>5, <3>1, <3>2
  <2> QED
    BY <1>1, <1>2, <2>2 DEF InCall, None
<1> QED
  BY <1>10, <1>11, <1>12, <1>13 DEF WireInv

(* Only the plan pushes.                                                   *)
LEMMA OneUploads ==
  ASSUME WireInv, NEW c \in Conns, NEW d \in Conns, upload[c] # None, upload[d] # None
  PROVE  c = d
<1>1. \A e \in Conns : upload[e] # None => call[e].op = "push"
  <2> SUFFICES ASSUME NEW e \in Conns, upload[e] # None PROVE call[e].op = "push"
    OBVIOUS
  <2>1. call[e] \in Calls /\ InCall(e)
    BY DEF WireInv, WireTypes
  <2>2. call[e] # None /\ call[e].op # "pull" /\ call[e].op # "delete"
    BY <2>1 DEF InCall, BetweenCalls, InPull, InDelete
  <2> QED
    BY <2>1, <2>2 DEF Calls
<1>2. \A w \in Workers : call[w].op # "push"
  BY DEF WireInv, PoolPulls, None
<1> QED
  BY <1>1, <1>2, PoolAssumption DEF PoolAssumption

(* A frame is stored.                                                      *)
LEMMA ServingFrame ==
  ASSUME WireInv, NEW c \in Conns, ServeFrame(c)
  PROVE  WireInv'
<1> DEFINE k == call[c]
           u == upload[c].uid
           n == version[u].frames + 1
           r == IF n = upload[c].pieces THEN "ok" ELSE "next"
           m == Reply(r, 0)
<1>1. /\ Took(c) /\ Req(c).op = "frame" /\ upload[c] # None
      /\ version' = [version EXCEPT ![u].frames = n]
      /\ Step(c, <<m>>)
      /\ upload' = IF r = "ok" THEN [upload EXCEPT ![c] = None] ELSE upload
      /\ UNCHANGED <<last, gone, open, call, result, remote, told>>
  BY DEF ServeFrame, client
<1>2. /\ request' \in [Conns -> Seq(Requests)] /\ request'[c] = <<>>
      /\ \A d \in Conns : d # c => request'[d] = request[d]
      /\ k.op = "push" /\ k.size \in Sizes /\ k.sent \in 1..Pieces(k.size)
      /\ Receives(c, k.sent - 1)
      /\ inbox[c] \in Seq(Messages) /\ OnlyNotices(inbox[c])
  BY <1>1, ServerReads
<1>3. /\ Pieces(k.size) \in Nat /\ n = k.sent /\ upload[c].pieces = Pieces(k.size)
      /\ n \in Nat
  BY <1>2, Lengths DEF Receives
<1>4. m \in Messages /\ m.kind = "reply" /\ m.res = r /\ r \in {"ok", "next"}
  BY MessageKinds
<1>5. u \in Uids /\ u \in 1..last /\ version[u] \in Version
  BY <1>1 DEF WireInv, WireTypes, Uploads, UploadsKnown, Uids
<1>6. (r = "ok" /\ n = Pieces(k.size)) \/ (r = "next" /\ n # Pieces(k.size))
  BY <1>3
<1> HIDE DEF m, r, n, u
<1>7. /\ inbox' \in [Conns -> Seq(Messages)] /\ OneReply(inbox'[c], {r})
      /\ \A d \in Conns : d # c => inbox'[d] = inbox[d]
  BY <1>1, <1>2, <1>4, Sending, ReplyComes
<1>8. /\ version' \in [Uids -> Version \cup {NoVersion}] /\ version'[u].frames = n
      /\ version'[u] \in Version
      /\ \A w \in Uids : w # u => version'[w] = version[w]
  <2>1. version \in [Uids -> Version \cup {NoVersion}]
    BY DEF WireInv, WireTypes
  <2>2. [version[u] EXCEPT !.frames = n] \in Version
    BY <1>3, <1>5 DEF Version
  <2>3. version' = [version EXCEPT ![u] = [version[u] EXCEPT !.frames = n]]
    BY <1>1
  <2>4. [version[u] EXCEPT !.frames = n].frames = n
    BY <1>5 DEF Version
  <2> QED
    BY <1>5, <2>1, <2>2, <2>3, <2>4
<1>9. /\ upload' \in [Conns -> Uploads]
      /\ \A d \in Conns : d # c => upload'[d] = upload[d]
      /\ upload'[c] = IF r = "ok" THEN None ELSE upload[c]
  <2>1. upload \in [Conns -> Uploads] /\ None \in Uploads
    BY DEF WireInv, WireTypes, Uploads
  <2> QED
    BY <1>1, <2>1
<1>10. WireTypes'
  <2>1. last \in 0..MaxUid /\ MaxUid \in Nat /\ Uids = 1..MaxUid
    BY BoundAssumption DEF WireInv, WireTypes, BoundAssumption, Uids
  <2>2. /\ \A w \in 1..last : version'[w] \in Version
        /\ \A w \in (last + 1)..MaxUid : version'[w] = NoVersion
    BY <1>5, <1>8, <2>1 DEF WireInv, WireTypes
  <2> QED
    BY <1>1, <1>2, <1>7, <1>8, <1>9, <2>2 DEF WireInv, WireTypes
<1>11. RestTypes' /\ PoolPulls' /\ UploadsKnown'
  BY <1>1, <1>9 DEF WireInv, RestTypes, PoolPulls, UploadsKnown
<1>12. ASSUME NEW d \in Conns, d # c PROVE InCall(d)'
  <2>1. upload[d] = None
    BY <1>1, <1>12, OneUploads
  <2> QED
    BY <1>1, <1>2, <1>7, <1>9, <1>12, <2>1, Untouched
<1>13. InCall(c)'
  <2>1. InPush(c)'
    <3>1. CASE r = "ok"
      <4>1. n = Pieces(k.size) /\ upload'[c] = None
        BY <1>6, <1>9, <3>1
      <4>2. OneReply(inbox'[c], {"ok"}) /\ k.sent \in {0, Pieces(k.size)}
        BY <1>3, <1>7, <3>1, <4>1
      <4> QED
        BY <1>1, <1>2, <4>1, <4>2 DEF InPush
    <3>2. CASE r = "next"
      <4>1. k.sent < Pieces(k.size) /\ upload'[c] = upload[c] /\ OneReply(inbox'[c], {"next"})
        BY <1>2, <1>3, <1>6, <1>7, <1>9, <3>2
      <4>2. Receives(c, k.sent)'
        BY <1>1, <1>3, <1>8, <4>1 DEF Receives, u
      <4> QED
        BY <1>1, <1>2, <4>1, <4>2 DEF InPush
    <3> QED
      BY <1>4, <3>1, <3>2
  <2> QED
    BY <1>1, <1>2, <2>1 DEF InCall, None
<1> QED
  BY <1>10, <1>11, <1>12, <1>13 DEF WireInv

(* A deletion is a version of its own.                                     *)
LEMMA ServingDelete ==
  ASSUME WireInv, "noticeInPull" \notin Faults, NEW c \in Conns, ServeDelete(c)
  PROVE  WireInv'
<1> DEFINE u == last + 1
           p == call[c].path
           v == New(p, 0, 0, c)
<1>1. /\ Took(c) /\ Req(c).op = "delete" /\ last < MaxUid /\ CanTell(c) /\ last' = u
      /\ version' = [version EXCEPT ![u] = New(Req(c).path, 0, 0, c)]
      /\ gone' = gone \cup {u}
      /\ \E msgs \in Echo(Req(c).path, u, Reply("ok", 0)) : Tell(c, Req(c).path, u, msgs)
      /\ UNCHANGED <<upload, open, call, result, remote>>
  BY DEF ServeDelete, client
<1>2. /\ request' \in [Conns -> Seq(Requests)] /\ request'[c] = <<>>
      /\ \A d \in Conns : d # c => request'[d] = request[d]
      /\ call[c].op = "delete" /\ Req(c).path = p /\ p \in Files
      /\ upload[c] = None /\ inbox[c] \in Seq(Messages) /\ OnlyNotices(inbox[c])
  BY <1>1, ServerReads
<1>3. u \in Uids
  BY <1>1, BoundAssumption DEF WireInv, WireTypes, Uids, BoundAssumption
<1>4. v \in Version /\ version' = [version EXCEPT ![u] = v]
  BY <1>1, <1>2 DEF New, Version
<1>5. PICK msgs : msgs \in Echo(p, u, Reply("ok", 0)) /\ Tell(c, p, u, msgs)
  BY <1>1, <1>2
<1> HIDE DEF p, v
<1>6. inbox[c] \o msgs \in Seq(Messages) /\ OneReply(inbox[c] \o msgs, {"ok", "err"})
  BY <1>2, <1>3, <1>5, Echoed
<1>7. /\ inbox' \in [Conns -> Seq(Messages)] /\ OneReply(inbox'[c], {"ok", "err"})
      /\ \A d \in Conns : d # c =>
           \/ inbox'[d] = inbox[d]
           \/ call[d].op # "pull" /\ inbox'[d] = Append(inbox[d], Notice(p, u))
      /\ told' \in [Conns -> [Files -> 0..MaxUid]]
  <2>1. CanTell(c) /\ Tell(c, p, u, msgs) /\ inbox[c] \o msgs \in Seq(Messages)
    BY <1>1, <1>5, <1>6
  <2> HIDE DEF u
  <2>2. /\ inbox' \in [Conns -> Seq(Messages)] /\ inbox'[c] = inbox[c] \o msgs
        /\ \A d \in Conns : d # c =>
             \/ inbox'[d] = inbox[d]
             \/ call[d].op # "pull" /\ inbox'[d] = Append(inbox[d], Notice(p, u))
        /\ told' \in [Conns -> [Files -> 0..MaxUid]]
    BY <1>2, <1>3, <2>1, Telling
  <2> QED
    BY <1>6, <2>2
<1>8. /\ last' \in 0..MaxUid
      /\ version' \in [Uids -> Version \cup {NoVersion}]
      /\ \A w \in 1..last' : version'[w] \in Version
      /\ \A w \in (last' + 1)..MaxUid : version'[w] = NoVersion
      /\ \A d \in Conns : upload[d] # None =>
           upload[d].uid <= last' /\ version'[upload[d].uid] = version[upload[d].uid]
  BY <1>1, <1>4, NewVersion
<1>9. WireTypes' /\ RestTypes' /\ PoolPulls' /\ UploadsKnown'
  BY <1>1, <1>2, <1>3, <1>7, <1>8
     DEF WireInv, WireTypes, RestTypes, PoolPulls, UploadsKnown
<1>10. ASSUME NEW d \in Conns, d # c PROVE InCall(d)'
  <2>1. \/ inbox'[d] = inbox[d]
        \/ /\ call[d].op # "pull"
           /\ \E q \in Files, w \in Uids : inbox'[d] = Append(inbox[d], Notice(q, w))
    BY <1>2, <1>3, <1>7, <1>10
  <2> QED
    BY <1>1, <1>2, <1>8, <1>10, <2>1, Untouched
<1>11. InCall(c)'
  <2>1. InDelete(c)'
    BY <1>1, <1>2, <1>7 DEF InDelete
  <2> QED
    BY <1>1, <1>2, <2>1 DEF InCall, None
<1> QED
  BY <1>9, <1>10, <1>11 DEF WireInv

(* Another device is heard of on every connection.                         *)
LEMMA OtherDeviceKeeps ==
  ASSUME WireInv, "noticeInPull" \notin Faults, NEW p \in Files, NEW n \in Sizes,
         NEW deletes \in BOOLEAN, OtherDevice(p, n, deletes)
  PROVE  WireInv'
<1> DEFINE u == last + 1
           v == New(p, n, Frames(Cipher(n)), "other")
<1>1. /\ last < MaxUid /\ last' = u /\ version' = [version EXCEPT ![u] = v]
      /\ \A d \in open : call[d].op # "pull"
      /\ inbox' = [d \in Conns |-> IF d \in open THEN Append(inbox[d], Notice(p, u)) ELSE inbox[d]]
      /\ told' = [d \in Conns |-> IF d \in open THEN [told[d] EXCEPT ![p] = u] ELSE told[d]]
      /\ UNCHANGED <<upload, request, open, call, result, remote>>
  BY DEF OtherDevice, client
<1>2. u \in Uids /\ u \in 0..MaxUid
  BY <1>1, BoundAssumption DEF WireInv, WireTypes, Uids, BoundAssumption
<1>3. v \in Version
  BY Lengths DEF New, Version
<1>4. gone' \subseteq Uids
  <2>1. gone' \in {gone, gone \cup {w \in Uids : w <= last /\ version[w].path = p} \cup {u}}
    BY DEF OtherDevice
  <2> QED
    BY <1>2, <2>1 DEF WireInv, RestTypes
<1>5. Notice(p, u) \in Messages
  BY <1>2, MessageKinds
<1>6. /\ inbox' \in [Conns -> Seq(Messages)]
      /\ told' \in [Conns -> [Files -> 0..MaxUid]]
  BY <1>1, <1>2, <1>5, Appended DEF WireInv, WireTypes, RestTypes
<1>7. /\ last' \in 0..MaxUid
      /\ version' \in [Uids -> Version \cup {NoVersion}]
      /\ \A w \in 1..last' : version'[w] \in Version
      /\ \A w \in (last' + 1)..MaxUid : version'[w] = NoVersion
      /\ \A d \in Conns : upload[d] # None =>
           upload[d].uid <= last' /\ version'[upload[d].uid] = version[upload[d].uid]
  BY <1>1, <1>3, NewVersion
<1>8. WireTypes' /\ RestTypes' /\ PoolPulls' /\ UploadsKnown'
  BY <1>1, <1>4, <1>6, <1>7 DEF WireInv, WireTypes, RestTypes, PoolPulls, UploadsKnown
<1>9. ASSUME NEW d \in Conns PROVE InCall(d)'
  BY <1>1, <1>2, <1>7, Untouched
<1> QED
  BY <1>8, <1>9 DEF WireInv

-----------------------------------------------------------------------------
(* The client reads.                                                       *)

(* What reading does on the connection, and on the others.                 *)
LEMMA Reading ==
  ASSUME WireInv, NEW c \in Conns, call[c] # None, inbox[c] # <<>>,
         inbox' = [inbox EXCEPT ![c] = Tail(inbox[c])],
         UNCHANGED <<version, last, gone, upload, open, told>>,
         DOMAIN result' = Conns, remote' \in [Files -> 0..MaxUid],
         call' \in [Conns -> Calls], request' \in [Conns -> Seq(Requests)],
         call'[c] = None \/ call'[c].op = call[c].op,
         \A d \in Conns : d # c => call'[d] = call[d] /\ request'[d] = request[d]
  PROVE  /\ InCall(c)' => WireInv'
         /\ inbox'[c] = Tail(inbox[c]) /\ Msg(c) = inbox[c][1] /\ inbox[c][1] \in Messages
         /\ inbox[c] \in Seq(Messages) /\ Len(inbox[c]) \in Nat \ {0}
         /\ Len(inbox'[c]) = Len(inbox[c]) - 1
         /\ \A i \in 1..Len(inbox'[c]) : inbox'[c][i] = inbox[c][i + 1]
<1>1. inbox \in [Conns -> Seq(Messages)]
  BY DEF WireInv, WireTypes
<1>2. /\ inbox' \in [Conns -> Seq(Messages)] /\ inbox'[c] = Tail(inbox[c])
      /\ Head(inbox[c]) = inbox[c][1] /\ inbox[c][1] \in Messages
      /\ Len(inbox[c]) \in Nat \ {0} /\ Len(inbox'[c]) = Len(inbox[c]) - 1
      /\ \A i \in 1..Len(inbox'[c]) : inbox'[c][i] = inbox[c][i + 1]
      /\ \A d \in Conns : d # c => inbox'[d] = inbox[d]
  BY <1>1, FirstRead
<1>3. WireTypes' /\ RestTypes' /\ UploadsKnown'
  BY <1>2 DEF WireInv, WireTypes, RestTypes, UploadsKnown
<1>4. PoolPulls'
  <2> SUFFICES ASSUME NEW w \in Workers PROVE call'[w] = None \/ call'[w].op = "pull"
    BY DEF PoolPulls
  <2>1. w \in Conns /\ (call[w] = None \/ call[w].op = "pull")
    BY PoolAssumption DEF PoolAssumption, WireInv, PoolPulls
  <2> QED
    BY <2>1
<1>5. ASSUME NEW d \in Conns, d # c PROVE InCall(d)'
  BY <1>2, <1>5, Untouched
<1> QED
  BY <1>1, <1>2, <1>3, <1>4, <1>5 DEF WireInv, Msg

(* A notification is read by push and delete.                              *)
LEMMA Absorbing ==
  ASSUME WireInv, NEW c \in Conns, AbsorbNotice(c)
  PROVE  WireInv'
<1>1. /\ call[c] # None /\ inbox[c] # <<>> /\ Msg(c).kind = "notice"
      /\ inbox' = [inbox EXCEPT ![c] = Tail(inbox[c])] /\ call[c].op \in {"push", "delete"}
      /\ remote' = [remote EXCEPT ![Msg(c).path] = Msg(c).uid]
      /\ UNCHANGED <<version, last, gone, upload, request, open, call, result, told>>
  BY DEF AbsorbNotice, Reads, Msg, server
<1>2. call \in [Conns -> Calls] /\ request \in [Conns -> Seq(Requests)] /\ DOMAIN result = Conns
      /\ inbox[c] \in Seq(Messages) /\ remote \in [Files -> 0..MaxUid]
      /\ InCall(c)
  BY DEF WireInv, WireTypes, RestTypes
<1>3. Msg(c) = inbox[c][1] /\ Msg(c) \in Messages
  BY <1>1, <1>2, FirstRead DEF Msg
<1>4. Msg(c).uid \in 0..MaxUid
  BY <1>1, <1>3, BoundAssumption, MessageKinds DEF BoundAssumption, Notices, Uids
<1>5. remote' \in [Files -> 0..MaxUid]
  BY <1>1, <1>2, <1>4
<1>6. (InCall(c)' => WireInv') /\ inbox'[c] = Tail(inbox[c])
  BY <1>1, <1>2, <1>5, Reading
<1>7. /\ OnlyNotices(inbox[c]) => OnlyNotices(inbox'[c])
      /\ \A R : OneReply(inbox[c], R) => OneReply(inbox'[c], R)
  BY <1>1, <1>2, <1>3, <1>6, NoticeRead
<1>8. \A n : Receives(c, n) => Receives(c, n)'
  BY <1>1 DEF Receives
<1>9. InPush(c) => InPush(c)'
  BY <1>1, <1>7, <1>8 DEF InPush, Asked
<1>10. InDelete(c) => InDelete(c)'
  BY <1>1, <1>7 DEF InDelete, Asked
<1>11. InCall(c)'
  BY <1>1, <1>2, <1>9, <1>10 DEF InCall, None
<1> QED
  BY <1>6, <1>11

(* A call that ends leaves nothing outstanding.                            *)
LEMMA Ending ==
  ASSUME WireInv, NEW c \in Conns, NEW r, Ends(c, r), call[c] # None, inbox[c] # <<>>,
         inbox' = [inbox EXCEPT ![c] = Tail(inbox[c])], remote' \in [Files -> 0..MaxUid],
         UNCHANGED <<version, last, gone, upload, request, open, told>>,
         request[c] = <<>>, upload[c] = None, OnlyNotices(Tail(inbox[c]))
  PROVE  WireInv'
<1>1. call \in [Conns -> Calls] /\ request \in [Conns -> Seq(Requests)] /\ DOMAIN result = Conns
  BY DEF WireInv, WireTypes, RestTypes
<1>2. /\ call' = [call EXCEPT ![c] = None] /\ result' = [result EXCEPT ![c] = r]
  BY DEF Ends
<1>3. /\ call' \in [Conns -> Calls] /\ DOMAIN result' = Conns /\ call'[c] = None
      /\ \A d \in Conns : d # c => call'[d] = call[d] /\ request'[d] = request[d]
      /\ request' \in [Conns -> Seq(Requests)]
  BY <1>1, <1>2 DEF Calls
<1>4. (InCall(c)' => WireInv') /\ inbox'[c] = Tail(inbox[c])
  BY <1>3, Reading
<1>5. InCall(c)'
  BY <1>3, <1>4 DEF InCall, BetweenCalls, None
<1> QED
  BY <1>4, <1>5

(* The answer to a pull is read.                                           *)
LEMMA ReadingAnswer ==
  ASSUME WireInv, NEW c \in Conns, PullReadsAnswer(c)
  PROVE  WireInv'
<1> DEFINE k == call[c]
           s == inbox[c]
<1>1. /\ k # None /\ s # <<>> /\ inbox' = [inbox EXCEPT ![c] = Tail(s)]
      /\ k.op = "pull" /\ k.left = 0
      /\ UNCHANGED <<version, last, gone, upload, request, open, remote, told>>
  BY DEF PullReadsAnswer, Reads, server
<1>2. /\ call \in [Conns -> Calls] /\ request \in [Conns -> Seq(Requests)] /\ DOMAIN result = Conns
      /\ s \in Seq(Messages) /\ remote \in [Files -> 0..MaxUid] /\ InPull(c)
  BY <1>1 DEF WireInv, WireTypes, RestTypes, InCall
<1>3. k \in [op : {"pull"}, uid : Uids, left : Nat, got : Seq(Messages)]
  BY <1>1, <1>2 DEF Calls
<1>4. /\ request[c] = <<>> /\ upload[c] = None /\ k.got = <<>>
      /\ Len(s) > 0 /\ s[1].kind = "reply"
      /\ \/ s[1].res = "err" /\ Len(s) = 1
         \/ s[1].res = "ok" /\ s[1].pieces = Len(s) - 1
      /\ \A i \in 2..Len(s) : s[i] = Part(k.uid, i - 1)
  BY <1>1, <1>2, <1>3 DEF InPull, Asked
<1>5. /\ Msg(c) = s[1] /\ Tail(s) \in Seq(Messages) /\ Len(s) \in Nat \ {0}
      /\ Len(Tail(s)) = Len(s) - 1 /\ \A i \in 1..Len(Tail(s)) : Tail(s)[i] = s[i + 1]
  BY <1>1, <1>2, FirstRead DEF Msg
<1>6. CASE Len(s) = 1
  <2>1. Tail(s) = <<>>
    <3>1. Len(Tail(s)) = 0
      BY <1>5, <1>6
    <3> QED
      BY <1>5, <3>1, Emptied
  <2>2. IsError(Msg(c)) \/ Announced(Msg(c)) = 0
    BY <1>4, <1>5, <1>6 DEF IsError, Announced
  <2>3. \E r : Ends(c, r)
    BY <2>2 DEF PullReadsAnswer, Fails, PullEnds
  <2> QED
    BY <1>1, <1>2, <1>4, <2>1, <2>3, Ending, EmptyIsQuiet
<1>7. CASE Len(s) # 1
  <2> DEFINE n == Len(s) - 1
             now == [k EXCEPT !.left = n]
  <2>1. n \in Nat \ {0} /\ n = Len(s) - 1 /\ ~IsError(Msg(c)) /\ Announced(Msg(c)) = n
    BY <1>4, <1>5, <1>7 DEF IsError, Announced
  <2>2. call' = [call EXCEPT ![c] = now] /\ UNCHANGED result
    BY <2>1 DEF PullReadsAnswer
  <2>3. now \in Calls /\ now.op = "pull" /\ now.uid = k.uid /\ now.left = n /\ now.got = k.got
    BY <1>3, <2>1 DEF Calls
  <2> HIDE DEF n, now
  <2>4. call' \in [Conns -> Calls] /\ call'[c] = now /\ \A d \in Conns : d # c => call'[d] = call[d]
    BY <1>2, <2>2, <2>3
  <2>5. (InCall(c)' => WireInv') /\ inbox'[c] = Tail(s)
    BY <1>1, <1>2, <2>2, <2>3, <2>4, Reading
  <2>6. InPull(c)'
    <3>1. Len(inbox'[c]) = n /\ \A i \in 1..n : inbox'[c][i] = Part(k.uid, i)
      BY <1>4, <1>5, <2>1, <2>5
    <3>2. /\ call'[c].got = <<>> /\ call'[c].left = n /\ n > 0 /\ call'[c].uid = k.uid
          /\ request'[c] = <<>> /\ upload'[c] = None
      <4>1. call'[c].got = <<>> /\ call'[c].left = n /\ call'[c].uid = k.uid
        BY <1>4, <2>3, <2>4
      <4>2. n > 0
        <5>1. n \in Nat \ {0}
          BY <2>1
        <5>2. \A a \in Nat \ {0} : a > 0
          OBVIOUS
        <5> QED
          BY <5>1, <5>2, Zenon
      <4>3. request'[c] = <<>> /\ upload'[c] = None
        BY <1>1, <1>4
      <4> QED
        BY <4>1, <4>2, <4>3
    <3>3. ASSUME NEW i \in 1..Len(inbox'[c])
          PROVE  inbox'[c][i] = Part(k.uid, Len(call'[c].got) + i)
      <4>1. inbox'[c][i] = Part(k.uid, i)
        BY <3>1, <3>3
      <4>2. Len(call'[c].got) + i = i
        BY <2>1, <3>1, <3>2, <3>3
      <4> QED
        BY <4>1, <4>2
    <3>4. \A i \in 1..Len(call'[c].got) : call'[c].got[i] = Part(k.uid, i)
      BY <3>2
    <3> QED
      BY <3>1, <3>2, <3>3, <3>4 DEF InPull
  <2> QED
    BY <2>3, <2>4, <2>5, <2>6 DEF InCall, None
<1> QED
  BY <1>6, <1>7

(* A piece is read.                                                        *)
LEMMA ReadingPiece ==
  ASSUME WireInv, NEW c \in Conns, PullReadsPiece(c)
  PROVE  WireInv'
<1> DEFINE k == call[c]
           s == inbox[c]
           got == Append(k.got, s[1])
<1>1. /\ k # None /\ s # <<>> /\ inbox' = [inbox EXCEPT ![c] = Tail(s)]
      /\ k.op = "pull" /\ k.left > 0
      /\ UNCHANGED <<version, last, gone, upload, request, open, remote, told>>
  BY DEF PullReadsPiece, Reads, server
<1>2. /\ call \in [Conns -> Calls] /\ request \in [Conns -> Seq(Requests)] /\ DOMAIN result = Conns
      /\ s \in Seq(Messages) /\ remote \in [Files -> 0..MaxUid] /\ InPull(c)
  BY <1>1 DEF WireInv, WireTypes, RestTypes, InCall
<1>3. k \in [op : {"pull"}, uid : Uids, left : Nat, got : Seq(Messages)]
  BY <1>1, <1>2 DEF Calls
<1>4. /\ request[c] = <<>> /\ upload[c] = None /\ Len(s) = k.left
      /\ \A i \in 1..Len(k.got) : k.got[i] = Part(k.uid, i)
      /\ \A i \in 1..Len(s) : s[i] = Part(k.uid, Len(k.got) + i)
  <2>1. k.left # 0
    BY <1>1, <1>3
  <2> QED
    BY <1>2, <2>1 DEF InPull
<1>5. /\ Msg(c) = s[1] /\ s[1] \in Messages /\ Tail(s) \in Seq(Messages) /\ Len(s) \in Nat \ {0}
      /\ Len(Tail(s)) = Len(s) - 1 /\ \A i \in 1..Len(Tail(s)) : Tail(s)[i] = s[i + 1]
  BY <1>1, <1>2, FirstRead DEF Msg
<1>6. /\ got \in Seq(Messages) /\ Len(got) = Len(k.got) + 1 /\ Len(k.got) \in Nat
      /\ \A i \in 1..Len(got) : got[i] = Part(k.uid, i)
  <2>1. /\ got \in Seq(Messages) /\ Len(got) = Len(k.got) + 1 /\ Len(k.got) \in Nat
        /\ \A i \in 1..Len(k.got) : got[i] = k.got[i]
        /\ got[Len(k.got) + 1] = s[1]
    BY <1>3, <1>5, Appended
  <2>2. s[1] = Part(k.uid, Len(k.got) + 1)
    BY <1>4, <1>5
  <2> HIDE DEF got, k, s
  <2> QED
    BY <1>4, <2>1, <2>2
<1>7. /\ k.left > 1 => call' = [call EXCEPT ![c] = [k EXCEPT !.left = k.left - 1, !.got = got]]
                       /\ UNCHANGED result
      /\ ~(k.left > 1) => \E r : Ends(c, r)
  BY <1>5 DEF PullReadsPiece, Fails, PullEnds
<1> HIDE DEF got
<1>8. CASE ~(k.left > 1)
  <2>1. Tail(s) = <<>>
    BY <1>1, <1>3, <1>4, <1>5, <1>8
  <2> QED
    BY <1>1, <1>2, <1>4, <1>7, <1>8, <2>1, Ending, EmptyIsQuiet
<1>9. CASE k.left > 1
  <2> DEFINE n == k.left - 1
             now == [k EXCEPT !.left = n, !.got = got]
  <2>1. n \in Nat \ {0}
    BY <1>3, <1>9
  <2>2. call' = [call EXCEPT ![c] = now] /\ UNCHANGED result
    BY <1>7, <1>9
  <2>3. now \in Calls /\ now.op = "pull" /\ now.uid = k.uid /\ now.left = n /\ now.got = got
    BY <1>3, <1>6, <2>1 DEF Calls
  <2> HIDE DEF now
  <2>4. call' \in [Conns -> Calls] /\ call'[c] = now /\ \A d \in Conns : d # c => call'[d] = call[d]
    BY <1>2, <2>2, <2>3
  <2>5. (InCall(c)' => WireInv') /\ inbox'[c] = Tail(s)
    BY <1>1, <1>2, <2>2, <2>3, <2>4, Reading
  <2>6. InPull(c)'
    <3>1. Len(inbox'[c]) = n
      BY <1>4, <1>5, <2>5
    <3>2. ASSUME NEW i \in 1..Len(inbox'[c])
          PROVE  inbox'[c][i] = Part(k.uid, Len(got) + i)
      <4>1. inbox'[c][i] = s[i + 1] /\ i + 1 \in 1..Len(s)
        BY <1>5, <2>5, <3>1, <3>2
      <4>2. s[i + 1] = Part(k.uid, Len(k.got) + (i + 1))
        BY <1>4, <4>1
      <4>3. Len(k.got) + (i + 1) = Len(got) + i
        <5>1. i \in Nat /\ Len(k.got) \in Nat /\ Len(got) = Len(k.got) + 1
          BY <1>6, <2>1, <3>1, <3>2
        <5>2. \A a, b, j \in Nat : b = a + 1 => a + (j + 1) = b + j
          OBVIOUS
        <5>3. Len(got) \in Nat
          BY <1>6
        <5> QED
          BY <5>1, <5>2, <5>3
      <4> QED
        BY <4>1, <4>2, <4>3
    <3> QED
      <4>1. /\ call'[c].got = got /\ call'[c].left = n /\ n > 0 /\ call'[c].uid = k.uid
            /\ request'[c] = <<>> /\ upload'[c] = None
        BY <1>1, <1>4, <2>1, <2>3, <2>4
      <4> QED
        BY <1>6, <3>1, <3>2, <4>1 DEF InPull
  <2> QED
    BY <2>3, <2>4, <2>5, <2>6 DEF InCall, None
<1> QED
  BY <1>8, <1>9

(* What a push can read as its answer.                                     *)
LEMMA PushAnswer ==
  ASSUME WireInv, NEW c \in Conns, PushReadsReply(c)
  PROVE  /\ call[c] \in [op : {"push"}, path : Files, size : Sizes, sent : Nat]
         /\ Pieces(call[c].size) \in Nat /\ Msg(c) = inbox[c][1]
         /\ request[c] = <<>> /\ inbox[c][1].kind = "reply" /\ OnlyNotices(Tail(inbox[c]))
         /\ \/ upload[c] = None /\ inbox[c][1].res = "err"
            \/ /\ upload[c] = None /\ inbox[c][1].res = "ok"
               /\ call[c].sent \in {0, Pieces(call[c].size)}
            \/ /\ inbox[c][1].res = "next" /\ Receives(c, call[c].sent)
               /\ call[c].sent < Pieces(call[c].size)
<1> DEFINE k == call[c]
           s == inbox[c]
<1>1. /\ k # None /\ s # <<>> /\ k.op = "push"
      /\ Head(s).kind \in {"reply", "frame"} /\ Msg(c) = Head(s)
  BY DEF PushReadsReply, Reads, Msg
<1>2. call[c] \in Calls /\ s \in Seq(Messages) /\ InPush(c)
  BY <1>1 DEF WireInv, WireTypes, InCall
<1>3. k \in [op : {"push"}, path : Files, size : Sizes, sent : Nat]
  BY <1>1, <1>2 DEF Calls
<1>4. Head(s) = s[1] /\ Pieces(k.size) \in Nat
  BY <1>1, <1>2, <1>3, FirstRead, Lengths
<1>5. ~OnlyNotices(s) /\ \A R : OneReply(s, R) =>
        s[1].kind = "reply" /\ s[1].res \in R /\ OnlyNotices(Tail(s))
  BY <1>1, <1>2, <1>4, NoticeRead
<1> QED
  BY <1>1, <1>2, <1>3, <1>4, <1>5 DEF InPush

(* The answer to a push is read, and the push ends or sends a frame.       *)
LEMMA ReadingPushReply ==
  ASSUME WireInv, NEW c \in Conns, PushReadsReply(c)
  PROVE  WireInv'
<1> DEFINE k == call[c]
           s == inbox[c]
           pieces == Pieces(k.size)
           now == [k EXCEPT !.sent = k.sent + 1]
<1>1. /\ k # None /\ k.op = "push" /\ s # <<>> /\ inbox' = [inbox EXCEPT ![c] = Tail(s)]
      /\ UNCHANGED <<version, last, gone, upload, open, remote, told>>
  BY DEF PushReadsReply, Reads, server
<1>2. /\ call \in [Conns -> Calls] /\ request \in [Conns -> Seq(Requests)] /\ DOMAIN result = Conns
      /\ s \in Seq(Messages) /\ remote \in [Files -> 0..MaxUid]
  BY <1>1 DEF WireInv, WireTypes, RestTypes
<1>3. k \in [op : {"push"}, path : Files, size : Sizes, sent : Nat]
  BY PushAnswer
<1>4. Msg(c) = s[1] /\ pieces \in Nat /\ k.sent \in Nat
  BY <1>3, PushAnswer
<1>6. /\ request[c] = <<>> /\ s[1].kind = "reply" /\ OnlyNotices(Tail(s))
      /\ \/ upload[c] = None /\ s[1].res = "err"
         \/ upload[c] = None /\ s[1].res = "ok" /\ k.sent \in {0, pieces}
         \/ s[1].res = "next" /\ Receives(c, k.sent) /\ k.sent < pieces
  BY PushAnswer
<1>7. IsError(Msg(c)) <=> s[1].res = "err"
  BY <1>1, <1>4, <1>6 DEF IsError
<1>8. CASE s[1].res \in {"err", "ok"}
  <2>1. (\E r : Ends(c, r)) /\ UNCHANGED request
    <3>1. ~GoesOn(Msg(c), k)
      BY <1>1, <1>4, <1>7, <1>8 DEF GoesOn
    <3> QED
      BY <3>1 DEF PushReadsReply, PushEnds, Fails
  <2>2. PICK r : Ends(c, r)
    BY <2>1
  <2> QED
    BY <1>1, <1>2, <1>6, <1>8, <2>1, <2>2, Ending
<1>9. CASE s[1].res = "next"
  <2>1. /\ call' = [call EXCEPT ![c] = now]
        /\ request' = [request EXCEPT ![c] = Append(request[c], [op |-> "frame"])]
        /\ UNCHANGED result
    <3>1. GoesOn(Msg(c), k)
      BY <1>1, <1>4, <1>6, <1>7, <1>9 DEF GoesOn
    <3> QED
      BY <3>1 DEF PushReadsReply
  <2>2. k.sent + 1 \in 1..pieces /\ k.sent + 1 \in Nat /\ (k.sent + 1) - 1 = k.sent
    BY <1>4, <1>6, <1>9
  <2>3. now \in Calls /\ now.op = "push" /\ now.size = k.size /\ now.sent = k.sent + 1
    BY <1>3, <2>2 DEF Calls
  <2>4. /\ Append(request[c], [op |-> "frame"]) \in Seq(Requests)
        /\ Len(Append(request[c], [op |-> "frame"])) = 1
        /\ Append(request[c], [op |-> "frame"])[1] = [op |-> "frame"]
    BY <1>2, <1>6 DEF Requests
  <2> HIDE DEF now
  <2>5. /\ call' \in [Conns -> Calls] /\ call'[c] = now
        /\ request' \in [Conns -> Seq(Requests)]
        /\ Len(request'[c]) = 1 /\ request'[c][1].op = "frame"
        /\ \A d \in Conns : d # c => call'[d] = call[d] /\ request'[d] = request[d]
    BY <1>2, <2>1, <2>3, <2>4
  <2>6. (InCall(c)' => WireInv') /\ inbox'[c] = Tail(s)
    BY <1>1, <1>2, <2>1, <2>3, <2>5, Reading
  <2>7. InPush(c)'
    <3>1. Receives(c, k.sent)
      BY <1>6, <1>9
    <3>2. upload[c] # None /\ upload[c].pieces = pieces
          /\ version[upload[c].uid].frames = now.sent - 1
      BY <2>2, <2>3, <3>1 DEF Receives
    <3>3. Asked(c, "frame")' /\ OnlyNotices(inbox'[c]) /\ now.sent \in 1..pieces
      BY <1>6, <2>2, <2>3, <2>5, <2>6 DEF Asked
    <3> QED
      BY <1>1, <2>3, <2>5, <3>2, <3>3 DEF InPush, Receives
  <2> QED
    BY <2>3, <2>5, <2>6, <2>7 DEF InCall, None
<1> QED
  BY <1>6, <1>8, <1>9

(* The answer to a deletion is read.                                       *)
LEMMA ReadingDeleteReply ==
  ASSUME WireInv, NEW c \in Conns, DeleteReadsReply(c)
  PROVE  WireInv'
<1> DEFINE s == inbox[c]
<1>1. /\ call[c] # None /\ s # <<>> /\ inbox' = [inbox EXCEPT ![c] = Tail(s)]
      /\ call[c].op = "delete" /\ Head(s).kind \in {"reply", "frame"}
      /\ remote' \in {remote, [remote EXCEPT ![call[c].path] = 0]}
      /\ UNCHANGED <<version, last, gone, upload, request, open, told>>
      /\ \E r : Ends(c, r)
  BY DEF DeleteReadsReply, Reads, server, Fails
<1>2. s \in Seq(Messages) /\ remote \in [Files -> 0..MaxUid] /\ InDelete(c) /\ MaxUid \in Nat
  BY <1>1, BoundAssumption DEF WireInv, WireTypes, RestTypes, InCall, BoundAssumption
<1>3. remote' \in [Files -> 0..MaxUid]
  BY <1>1, <1>2
<1>4. Head(s) = s[1]
  BY <1>1, <1>2, FirstRead
<1>5. ~OnlyNotices(s) /\ (OneReply(s, {"ok", "err"}) => OnlyNotices(Tail(s)))
  BY <1>1, <1>2, <1>4, NoticeRead
<1>6. request[c] = <<>> /\ upload[c] = None /\ OnlyNotices(Tail(s))
  BY <1>2, <1>5 DEF InDelete
<1> QED
  BY <1>1, <1>3, <1>6, Ending

-----------------------------------------------------------------------------
(* Connections end, and all the rest.                                      *)

(* A connection that breaks is as between calls.                           *)
LEMMA Breaking ==
  ASSUME WireInv, NEW c \in Conns, Break(c)
  PROVE  WireInv'
<1>1. /\ open' = open \ {c}
      /\ request' = [request EXCEPT ![c] = <<>>] /\ inbox' = [inbox EXCEPT ![c] = <<>>]
      /\ upload' = [upload EXCEPT ![c] = None]
      /\ IF call[c] # None THEN Fails(c) ELSE UNCHANGED <<call, result>>
      /\ UNCHANGED <<version, last, gone, remote, told>>
  BY DEF Break
<1>2. /\ call \in [Conns -> Calls] /\ request \in [Conns -> Seq(Requests)] /\ DOMAIN result = Conns
      /\ inbox \in [Conns -> Seq(Messages)] /\ upload \in [Conns -> Uploads]
      /\ <<>> \in Seq(Requests) /\ <<>> \in Seq(Messages) /\ None \in Uploads /\ None \in Calls
  BY DEF WireInv, WireTypes, RestTypes, Uploads, Calls
<1>3. /\ call' \in [Conns -> Calls] /\ DOMAIN result' = Conns /\ call'[c] = None
      /\ \A d \in Conns : d # c => call'[d] = call[d]
  BY <1>1, <1>2 DEF Fails, Ends
<1>4. /\ request' \in [Conns -> Seq(Requests)] /\ inbox' \in [Conns -> Seq(Messages)]
      /\ upload' \in [Conns -> Uploads]
      /\ request'[c] = <<>> /\ inbox'[c] = <<>> /\ upload'[c] = None
      /\ \A d \in Conns : d # c => /\ request'[d] = request[d] /\ inbox'[d] = inbox[d]
                                   /\ upload'[d] = upload[d]
  BY <1>1, <1>2
<1>5. WireTypes' /\ RestTypes' /\ UploadsKnown'
  BY <1>1, <1>3, <1>4 DEF WireInv, WireTypes, RestTypes, UploadsKnown
<1>6. PoolPulls'
  <2> SUFFICES ASSUME NEW w \in Workers PROVE call'[w] = None \/ call'[w].op = "pull"
    BY DEF PoolPulls
  <2>1. w \in Conns /\ (call[w] = None \/ call[w].op = "pull")
    BY PoolAssumption DEF PoolAssumption, WireInv, PoolPulls
  <2> QED
    BY <1>3, <2>1
<1>7. ASSUME NEW d \in Conns, d # c PROVE InCall(d)'
  BY <1>1, <1>3, <1>4, <1>7, Untouched
<1>8. InCall(c)'
  BY <1>3, <1>4, EmptyIsQuiet DEF InCall, BetweenCalls, None
<1> QED
  BY <1>5, <1>6, <1>7, <1>8 DEF WireInv

(* The rest of the pool at most opens and closes connections.              *)
LEMMA WireAlone ==
  ASSUME WireInv, UNCHANGED <<server, wire, call, remote, told>>, DOMAIN result' = Conns,
         open' \subseteq Conns
  PROVE  WireInv'
<1>1. UNCHANGED <<version, last, gone, upload, request, inbox, call, remote, told>>
  BY DEF server, wire
<1>2. WireTypes' /\ RestTypes' /\ PoolPulls' /\ UploadsKnown'
  BY <1>1 DEF WireInv, WireTypes, RestTypes, PoolPulls, UploadsKnown
<1>3. ASSUME NEW d \in Conns PROVE InCall(d)'
  BY <1>1, Untouched
<1> QED
  BY <1>2, <1>3 DEF WireInv

(* The steps of a worker.                                                  *)
LEMMA WorkersOnWire ==
  ASSUME WireInv, PoolInv, "noticeInPull" \notin Faults, NEW w \in Workers, WorkerStep(w)
  PROVE  WireInv'
<1>1. /\ DOMAIN result = Conns /\ open \subseteq Conns /\ w \in Conns
      /\ open \cup {w} \subseteq Conns /\ open \ {w} \subseteq Conns
  BY PoolAssumption DEF WireInv, RestTypes, PoolAssumption
<1>2. CASE Take(w)
  <2>1. StartPull(w, Head(jobsCh)) /\ jobsCh # <<>>
    BY <1>2 DEF Take
  <2>2. jobsCh \in Seq(Jobs) /\ Jobs \subseteq Uids
    BY PoolAssumption, BoundAssumption
       DEF PoolInv, PoolTypes, PoolAssumption, BoundAssumption, Jobs, Uids
  <2>3. Head(jobsCh) \in Uids
    BY <2>1, <2>2
  <2> QED
    BY <1>1, <2>1, <2>3, StartingPull
<1>3. CASE Dial(w) \/ DialFails(w) \/ TakeInVain(w)
  <2>1. UNCHANGED sessionVars
    BY <1>3 DEF Dial, DialFails, TakeInVain
  <2> QED
    BY <1>1, <2>1, WireAlone DEF sessionVars, client
<1>4. CASE DialSucceeds(w)
  BY <1>1, <1>4, WireAlone DEF DialSucceeds
<1>5. CASE Exit(w) \/ PullFails(w)
  <2>1. Leaves(w)
    BY <1>5 DEF Exit, PullFails
  <2> QED
    BY <1>1, <2>1, WireAlone DEF Leaves
<1>6. CASE Store(w)
  <2>1. UNCHANGED sessionVars \/ Leaves(w)
    BY <1>6 DEF Store
  <2> QED
    BY <1>1, <2>1, WireAlone DEF Leaves, sessionVars, client
<1> QED
  BY <1>2, <1>3, <1>4, <1>5, <1>6 DEF WorkerStep

(* Every step keeps client and server in step.                             *)
LEMMA WireStep ==
  ASSUME WireInv, PoolInv, "noticeInPull" \notin Faults, [Next]_vars
  PROVE  WireInv'
<1>0. DOMAIN result = Conns /\ open \subseteq Conns /\ Main \in Conns
  BY PoolAssumption DEF WireInv, RestTypes, PoolAssumption
<1>1. CASE PlanCalls
  <2>1. CASE \E u \in 1..last : StartPull(Main, u)
    <3>1. 1..last \subseteq Uids
      BY BoundAssumption DEF WireInv, WireTypes, Uids, BoundAssumption
    <3> QED
      BY <1>0, <2>1, <3>1, StartingPull
  <2>2. CASE \E p \in Files : StartDelete(Main, p)
    BY <2>2, StartingDelete
  <2>3. CASE \E p \in Files, n \in Sizes : StartPush(Main, p, n)
    BY <2>3, StartingPush
  <2> QED
    BY <1>1, <2>1, <2>2, <2>3 DEF PlanCalls
<1>2. CASE MainStep \/ BreakerTimesOut \/ UNCHANGED vars
  <2>1. UNCHANGED sessionVars
    BY <1>2 DEF MainStep, PlanFails, PlanDone, StartPool, Feed, StopFeeding, Return,
                BreakerTimesOut, vars
  <2> QED
    BY <1>0, <2>1, WireAlone DEF sessionVars, client
<1>3. CASE Cancel
  BY <1>0, <1>3, WireAlone DEF Cancel, sessionVars, client
<1>4. CASE Others
  BY <1>4, OtherDeviceKeeps DEF Others
<1>5. CASE \E w \in Workers : WorkerStep(w)
  BY <1>5, WorkersOnWire
<1>6. ASSUME NEW c \in Conns, OnConn(c) PROVE WireInv'
  <2>1. ServerStep(c) \/ ClientStep(c)
    BY <1>6 DEF OnConn
  <2> QED
    BY <2>1, Refusing, ServingPull, ServingPush, ServingFrame, ServingDelete, Absorbing,
       ReadingAnswer, ReadingPiece, ReadingPushReply, ReadingDeleteReply
       DEF ServerStep, ClientStep
<1>7. ASSUME NEW c \in Conns, Breaks(c) PROVE WireInv'
  BY <1>7, Breaking DEF Breaks
<1> QED
  BY <1>1, <1>2, <1>3, <1>4, <1>5, <1>6, <1>7 DEF Next

(* Client and server stay in step on every connection: after a call,       *)
(* however it ends, no answer and no frame is left for the next call to    *)
(* take for its own, unless a pull may be sent a notification.             *)
THEOREM InStepTheorem ==
  ASSUME "noticeInPull" \notin Faults
  PROVE  Spec => []InStep
<1>1. Init => WireInv
  BY WireInit
<1>2. WireInv /\ PoolInv /\ [Next]_vars => WireInv'
  BY WireStep
<1>3. WireInv => InStep
  <2> SUFFICES ASSUME WireInv, NEW c \in open, call[c] = None
               PROVE  /\ request[c] = <<>> /\ upload[c] = None
                      /\ \A k \in 1..Len(inbox[c]) : inbox[c][k].kind = "notice"
    BY DEF InStep
  <2>1. BetweenCalls(c)
    BY DEF WireInv, RestTypes, InCall
  <2> QED
    BY <2>1 DEF BetweenCalls, OnlyNotices
<1> QED
  BY <1>1, <1>2, <1>3, PoolTheorem, PTL DEF Spec

-----------------------------------------------------------------------------
(***************************************************************************)
(* Pushes.  A push that the server receives, or has answered with ok, is   *)
(* the last version that this connection has made.                         *)
(***************************************************************************)
Says(s, r) == \E k \in 1..Len(s) : s[k].kind = "reply" /\ s[k].res = r

Stored(c, u, n) == /\ version[u].by = c /\ version[u].size = n
                   /\ \A v \in Uids : version[v].by = c => v <= u

PushOf(c) ==
  /\ result[c] # None => call[c] = None
  /\ call[c].op = "push" /\ upload[c] # None => Stored(c, upload[c].uid, call[c].size)
  /\ call[c].op = "push" /\ Says(inbox[c], "ok") =>
       \E u \in Uids : Stored(c, u, call[c].size) /\ Whole(u)
  /\ Succeeded(c, "push") => \E u \in Uids : Stored(c, u, result[c].size) /\ Whole(u)

PushInv == \A c \in Conns : PushOf(c)

(* What this connection has made is as it was.                             *)
Kept(c) == \A u \in Uids : version'[u] = version[u] \/ (version[u].by # c /\ version'[u].by # c)

(* What is said before and after one message.                              *)
LEMMA Said1 ==
  ASSUME NEW s \in Seq(Messages), NEW r
  PROVE  /\ OnlyNotices(s) => ~Says(s, r)
         /\ \A m \in Messages : Says(Append(s, m), r) =>
              Says(s, r) \/ (m.kind = "reply" /\ m.res = r)
         /\ s # <<>> => /\ Says(Tail(s), r) => Says(s, r)
                        /\ s[1].kind = "reply" /\ s[1].res = r => Says(s, r)
<1>1. OnlyNotices(s) => ~Says(s, r)
  BY DEF OnlyNotices, Says
<1>2. ASSUME NEW m \in Messages, Says(Append(s, m), r)
      PROVE  Says(s, r) \/ (m.kind = "reply" /\ m.res = r)
  <2>1. PICK k \in 1..Len(Append(s, m)) : /\ Append(s, m)[k].kind = "reply"
                                          /\ Append(s, m)[k].res = r
    BY <1>2 DEF Says
  <2>2. CASE k = Len(s) + 1
    BY <2>1, <2>2, Appended
  <2>3. CASE k # Len(s) + 1
    <3>1. k \in 1..Len(s) /\ Append(s, m)[k] = s[k]
      BY <2>3, Appended
    <3> QED
      BY <2>1, <3>1 DEF Says
  <2> QED
    BY <2>2, <2>3
<1>3. ASSUME s # <<>>
      PROVE  /\ Says(Tail(s), r) => Says(s, r)
             /\ s[1].kind = "reply" /\ s[1].res = r => Says(s, r)
  <2>1. ASSUME Says(Tail(s), r) PROVE Says(s, r)
    <3>1. PICK k \in 1..Len(Tail(s)) : Tail(s)[k].kind = "reply" /\ Tail(s)[k].res = r
      BY <2>1 DEF Says
    <3>2. k + 1 \in 1..Len(s) /\ s[k + 1] = Tail(s)[k]
      BY <1>3, FirstRead
    <3> QED
      BY <3>1, <3>2 DEF Says
  <2>2. 1 \in 1..Len(s)
    BY <1>3, FirstRead
  <2> QED
    BY <2>1, <2>2 DEF Says
<1> QED
  BY <1>1, <1>2, <1>3

(* A connection on which nothing of a push changes.                        *)
LEMMA PushAside ==
  ASSUME WireInv, NEW d \in Conns, PushOf(d), Kept(d), call'[d] = call[d],
         upload'[d] = upload[d], result'[d] = result[d],
         Says(inbox'[d], "ok") => Says(inbox[d], "ok")
  PROVE  PushOf(d)'
<1>1. ASSUME NEW u \in Uids, NEW n, Stored(d, u, n)
      PROVE  Stored(d, u, n)' /\ version'[u] = version[u]
  BY <1>1 DEF Stored, Kept
<1>2. upload[d] # None => upload[d].uid \in Uids
  BY DEF WireInv, WireTypes, Uploads
<1>3. \A u \in Uids : version'[u] = version[u] /\ Whole(u) => Whole(u)'
  BY DEF Whole
<1>4. Succeeded(d, "push")' <=> Succeeded(d, "push")
  BY DEF Succeeded, Ended
<1> QED
  BY <1>1, <1>2, <1>3, <1>4 DEF PushOf

(* What the server does on one connection leaves the others alone.         *)
LEMMA OthersServed ==
  ASSUME WireInv, PushInv, NEW c \in Conns, ServerStep(c), NEW d \in Conns, d # c
  PROVE  /\ call' = call /\ result' = result /\ upload'[d] = upload[d] /\ Kept(d)
         /\ Says(inbox'[d], "ok") => Says(inbox[d], "ok")
<1>0. /\ Took(c) /\ call' = call /\ result' = result
      /\ version \in [Uids -> Version \cup {NoVersion}] /\ upload \in [Conns -> Uploads]
      /\ inbox \in [Conns -> Seq(Messages)]
  BY DEF ServerStep, Refuse, ServePull, ServePush, ServeFrame, ServeDelete, client,
         WireInv, WireTypes
<1>1. upload'[d] = upload[d]
  BY <1>0 DEF ServerStep, Refuse, ServePull, ServePush, ServeFrame, ServeDelete, server
<1>2. ASSUME last < MaxUid
      PROVE  last + 1 \in Uids /\ version[last + 1].by # d
  <2>1. last + 1 \in Uids /\ version[last + 1] = NoVersion
    BY <1>2, BoundAssumption DEF WireInv, WireTypes, BoundAssumption, Uids
  <2> QED
    BY <2>1, NamesAssumption DEF NoVersion, NamesAssumption
<1>3. Kept(d)
  <2>1. CASE Refuse(c) \/ ServePull(c)
    BY <2>1 DEF Refuse, ServePull, server, Kept
  <2>2. CASE ServePush(c) \/ ServeDelete(c)
    <3>1. last < MaxUid /\ \E v : v.by = c /\ version' = [version EXCEPT ![last + 1] = v]
      BY <2>2 DEF ServePush, ServeDelete, New
    <3> QED
      BY <1>0, <1>2, <3>1 DEF Kept
  <2>3. CASE ServeFrame(c)
    <3> DEFINE u == upload[c].uid
    <3>1. upload[c] # None /\ \E n : version' = [version EXCEPT ![u].frames = n]
      BY <2>3 DEF ServeFrame
    <3>2. call[c].op = "push"
      BY <1>0, <2>3, ServerReads DEF ServeFrame
    <3>3. version[u].by = c /\ u \in Uids
      BY <1>0, <3>1, <3>2 DEF PushInv, PushOf, Stored, Uploads
    <3>4. version[u] \in Version
      BY <1>0, <3>3, NamesAssumption DEF NoVersion, NamesAssumption
    <3>5. version'[u].by = c /\ \A w \in Uids : w # u => version'[w] = version[w]
      BY <1>0, <3>1, <3>3, <3>4 DEF Version
    <3> QED
      BY <3>3, <3>5 DEF Kept
  <2> QED
    BY <2>1, <2>2, <2>3 DEF ServerStep
<1>4. Says(inbox'[d], "ok") => Says(inbox[d], "ok")
  <2>1. CASE Refuse(c) \/ ServePull(c) \/ ServeFrame(c)
    <3>1. inbox'[d] = inbox[d]
      BY <1>0, <2>1 DEF Refuse, ServePull, ServeFrame, Step
    <3> QED
      BY <3>1
  <2>2. CASE ServePush(c) \/ ServeDelete(c)
    <3>1. PICK msgs : Tell(c, Req(c).path, last + 1, msgs) /\ last < MaxUid
                      /\ Req(c).op \in {"push", "delete"}
      BY <2>2 DEF ServePush, ServeDelete
    <3>2. Req(c).path \in Files
      <4>0. Took(c)
        BY <1>0
      <4>1. CASE Req(c).op = "push"
        <5>1. Req(c).path = call[c].path /\ call[c].path \in Files
          BY <4>0, <4>1, ServerReads
        <5> QED
          BY <5>1
      <4>2. CASE Req(c).op = "delete"
        <5>1. Req(c).path = call[c].path /\ call[c].path \in Files
          BY <4>0, <4>2, ServerReads
        <5> QED
          BY <5>1
      <4> QED
        BY <3>1, <4>1, <4>2
    <3> DEFINE m == Notice(Req(c).path, last + 1)
    <3>3. m \in Messages /\ m.kind = "notice"
      BY <1>2, <3>1, <3>2, MessageKinds
    <3>4. inbox'[d] = inbox[d] \/ inbox'[d] = Append(inbox[d], m)
      BY <3>1 DEF Tell
    <3> HIDE DEF m
    <3>5. inbox[d] \in Seq(Messages)
      BY <1>0
    <3>6. Says(Append(inbox[d], m), "ok") => Says(inbox[d], "ok")
      BY <3>3, <3>5, Said1
    <3> QED
      BY <3>4, <3>6
  <2> QED
    BY <2>1, <2>2 DEF ServerStep
<1> QED
  BY <1>0, <1>1, <1>3, <1>4

(* The length of content is counted alike, encrypted or not.               *)
SameFrames == \A n \in Sizes : Frames(Cipher(n)) = Frames(n)

(* What is said after an answer with or without a notification.            *)
LEMMA Said2 ==
  ASSUME NEW s \in Seq(Messages), OnlyNotices(s), NEW p \in Files, NEW u \in Uids,
         NEW r \in {"ok", "err", "next"}, NEW msgs \in Echo(p, u, Reply(r, 0)), NEW q,
         Says(s \o msgs, q)
  PROVE  q = r
<1> DEFINE m == Reply(r, 0)
           n == Notice(p, u)
<1>1. msgs \in {<<n, m>>, <<m, n>>}
  BY DEF Echo
<1>2. /\ m \in Messages /\ m.kind = "reply" /\ m.res = r
      /\ n \in Messages /\ n.kind = "notice"
  BY MessageKinds
<1>3. ~Says(s, q) /\ Append(s, m) \in Seq(Messages) /\ Append(s, n) \in Seq(Messages)
  BY <1>2, Said1, Appended
<1> HIDE DEF m, n
<1>4. Says(Append(s, m), q) => q = r
  BY <1>2, <1>3, Said1
<1>5. ~Says(Append(s, n), q)
  BY <1>2, <1>3, Said1
<1>6. Says(Append(Append(s, m), n), q) => q = r
  BY <1>2, <1>3, <1>4, Said1
<1>7. Says(Append(Append(s, n), m), q) => q = r
  BY <1>2, <1>3, <1>5, Said1
<1> QED
  BY <1>1, <1>2, <1>6, <1>7, TwoJoined

(* A push is received: what it makes is the last version.                  *)
LEMMA PushReceived ==
  ASSUME WireInv, NEW c \in Conns, ServePush(c)
  PROVE  /\ call[c].op = "push"
         /\ upload'[c] # None => Stored(c, upload[c].uid, call[c].size)'
         /\ Says(inbox'[c], "ok") =>
              \E u \in Uids : Stored(c, u, call[c].size)' /\ Whole(u)'
<1>0. PICK u, k : u = last + 1 /\ k = call[c]
  OBVIOUS
<1> DEFINE Given(n) == New(k.path, k.size, n, c)
<1>1. /\ Took(c) /\ Req(c).op = "push" /\ last < MaxUid /\ call' = call
  BY <1>0 DEF ServePush, client
<1>2. /\ k.op = "push" /\ upload[c] = None /\ k.path \in Files /\ k.size \in Sizes
      /\ inbox[c] \in Seq(Messages) /\ OnlyNotices(inbox[c])
      /\ Req(c).path = k.path /\ Req(c).size = k.size
  BY <1>0, <1>1, ServerReads
<1>3. /\ u \in Uids /\ version \in [Uids -> Version \cup {NoVersion}]
      /\ \A v \in Uids : version[v].by = c => v <= u
  <2>1. /\ u \in Uids /\ Uids = 1..MaxUid /\ MaxUid \in Nat /\ last \in Nat
        /\ version \in [Uids -> Version \cup {NoVersion}]
        /\ \A v \in (last + 1)..MaxUid : version[v] = NoVersion
    BY <1>0, <1>1, BoundAssumption DEF WireInv, WireTypes, Uids, BoundAssumption
  <2>2. NoVersion.by # c
    BY NamesAssumption DEF NoVersion, NamesAssumption
  <2>3. ASSUME NEW v \in Uids, version[v].by = c PROVE v <= u
    <3>1. ~(v \in (last + 1)..MaxUid)
      BY <2>1, <2>2, <2>3
    <3> QED
      BY <1>0, <2>1, <3>1
  <2> QED
    BY <2>1, <2>3
<1>4. ASSUME NEW n, version' = [version EXCEPT ![u] = Given(n)]
      PROVE  Stored(c, u, k.size)' /\ version'[u].frames = n
  <2>1. Given(n).by = c /\ Given(n).size = k.size /\ Given(n).frames = n
    BY DEF New
  <2>2. version'[u] = Given(n) /\ \A v \in Uids : v # u => version'[v] = version[v]
    BY <1>3, <1>4
  <2>3. ASSUME NEW v \in Uids, version'[v].by = c PROVE v <= u
    <3>1. u <= u
      BY <1>3, BoundAssumption DEF Uids, BoundAssumption
    <3>2. CASE v = u
      BY <3>1, <3>2
    <3>3. CASE v # u
      BY <1>3, <2>2, <2>3, <3>3
    <3> QED
      BY <3>2, <3>3
  <2> QED
    BY <1>1, <2>1, <2>2, <2>3 DEF Stored
<1>5. CASE /\ version' = [version EXCEPT ![u] = Given(Frames(Cipher(k.size)))]
           /\ UNCHANGED upload
  <2>1. Stored(c, u, k.size)' /\ version'[u].frames = Frames(Cipher(k.size))
    BY <1>4, <1>5
  <2>2. version'[u].size = k.size
    BY <1>1, <2>1 DEF Stored
  <2>3. Whole(u)'
    BY <2>1, <2>2 DEF Whole
  <2> QED
    BY <1>0, <1>1, <1>2, <1>3, <1>5, <2>1, <2>3
<1>6. CASE /\ version' = [version EXCEPT ![u] = Given(0)]
           /\ \E n : upload' = [upload EXCEPT ![c] = [op |-> "push", uid |-> u, pieces |-> n]]
           /\ \E msgs \in Echo(k.path, u, Reply("next", 0)) : Tell(c, k.path, u, msgs)
  <2>1. upload'[c].uid = u
    BY <1>6 DEF WireInv, WireTypes
  <2>2. Stored(c, u, k.size)'
    BY <1>4, <1>6
  <2>3. PICK msgs \in Echo(k.path, u, Reply("next", 0)) : inbox'[c] = inbox[c] \o msgs
    BY <1>6 DEF Tell
  <2>4. ~Says(inbox'[c], "ok")
    BY <1>2, <1>3, <2>3, Said2
  <2>5. Stored(c, upload[c].uid, call[c].size)'
    BY <1>0, <1>1, <2>1, <2>2 DEF Stored
  <2> QED
    BY <1>0, <1>2, <2>4, <2>5
<1> QED
  <2>1. \/ /\ version' = [version EXCEPT ![u] = Given(Frames(Cipher(k.size)))]
           /\ UNCHANGED upload
        \/ /\ version' = [version EXCEPT ![u] = Given(0)]
           /\ upload' = [upload EXCEPT ![c] = [op |-> "push", uid |-> u, pieces |-> Req(c).pieces]]
           /\ \E msgs \in Echo(k.path, u, Reply("next", 0)) : Tell(c, k.path, u, msgs)
    BY <1>0, <1>2 DEF ServePush
  <2> QED
    BY <1>5, <1>6, <2>1

(* A frame is received: when it is the last one, the content is whole.     *)
LEMMA FrameReceived ==
  ASSUME WireInv, PushInv, SameFrames, NEW c \in Conns, ServeFrame(c)
  PROVE  /\ upload'[c] # None => Stored(c, upload[c].uid, call[c].size)'
         /\ Says(inbox'[c], "ok") =>
              \E u \in Uids : Stored(c, u, call[c].size)' /\ Whole(u)'
<1>0. PICK u, k, n : u = upload[c].uid /\ k = call[c] /\ n = version[u].frames + 1
  OBVIOUS
<1>1. /\ Took(c) /\ Req(c).op = "frame" /\ upload[c] # None /\ call' = call
      /\ version' = [version EXCEPT ![u].frames = n]
      /\ \/ n = upload[c].pieces /\ Step(c, <<Reply("ok", 0)>>)
         \/ Step(c, <<Reply("next", 0)>>)
      /\ upload'[c] \in {upload[c], None}
  <2>1. upload \in [Conns -> Uploads]
    BY DEF WireInv, WireTypes
  <2> QED
    BY <1>0, <2>1 DEF ServeFrame, client
<1>2. /\ k.op = "push" /\ k.size \in Sizes /\ Receives(c, k.sent - 1)
      /\ inbox[c] \in Seq(Messages) /\ OnlyNotices(inbox[c])
  BY <1>0, <1>1, ServerReads
<1>3. Stored(c, u, k.size) /\ u \in Uids /\ version[u] \in Version
  <2>1. Stored(c, u, k.size) /\ u \in Uids /\ version \in [Uids -> Version \cup {NoVersion}]
    BY <1>0, <1>1, <1>2 DEF PushInv, PushOf, WireInv, WireTypes, Uploads
  <2> QED
    BY <2>1, NamesAssumption DEF Stored, NoVersion, NamesAssumption
<1>4. /\ version'[u].by = c /\ version'[u].size = k.size /\ version'[u].frames = n
      /\ \A w \in Uids : w # u => version'[w] = version[w]
  <2>1. version \in [Uids -> Version \cup {NoVersion}]
    BY DEF WireInv, WireTypes
  <2>2. version'[u] = [version[u] EXCEPT !.frames = n]
    BY <1>1, <1>3, <2>1
  <2>3. [version[u] EXCEPT !.frames = n].by = version[u].by
        /\ [version[u] EXCEPT !.frames = n].size = version[u].size
        /\ [version[u] EXCEPT !.frames = n].frames = n
    BY <1>3 DEF Version
  <2> QED
    BY <1>1, <1>3, <2>1, <2>2, <2>3 DEF Stored
<1>5. Stored(c, u, k.size)'
  BY <1>3, <1>4 DEF Stored
<1>6. upload'[c] # None => Stored(c, upload[c].uid, call[c].size)'
  <2> SUFFICES ASSUME upload'[c] # None PROVE Stored(c, upload[c].uid, call[c].size)'
    OBVIOUS
  <2>1. upload'[c].uid = u /\ call'[c].size = k.size
    BY <1>0, <1>1
  <2> QED
    BY <1>5, <2>1 DEF Stored
<1>7. ASSUME Says(inbox'[c], "ok")
      PROVE  Whole(u)'
  <2>1. n = upload[c].pieces
    <3>1. CASE Step(c, <<Reply("next", 0)>>)
      <4> DEFINE m == Reply("next", 0)
      <4>1. m \in Messages /\ m.kind = "reply" /\ m.res = "next"
        BY MessageKinds
      <4> HIDE DEF m
      <4>2. inbox'[c] = Append(inbox[c], m)
        BY <3>1, <4>1, Sending DEF m
      <4>3. ~Says(inbox'[c], "ok")
        BY <1>2, <4>1, <4>2, Said1
      <4> QED
        BY <1>7, <4>3
    <3> QED
      BY <1>1, <3>1
  <2>2. n = Frames(Cipher(k.size))
    BY <1>0, <1>2, <2>1 DEF Receives, Pieces, SameFrames
  <2> QED
    BY <1>4, <2>2 DEF Whole
<1> QED
  <2>1. call'[c].size = k.size
    BY <1>0, <1>1
  <2> QED
    BY <1>3, <1>5, <1>6, <1>7, <2>1 DEF Stored

(* What the server does about a push.                                      *)
LEMMA PushServed ==
  ASSUME WireInv, PushInv, SameFrames, NEW c \in Conns, ServerStep(c)
  PROVE  PushOf(c)'
<1>1. Took(c) /\ call' = call /\ result' = result
  BY DEF ServerStep, Refuse, ServePull, ServePush, ServeFrame, ServeDelete, client
<1>2. /\ call[c].op \in {"pull", "push", "delete"} /\ inbox[c] \in Seq(Messages)
      /\ call[c].op = "push" => OnlyNotices(inbox[c]) /\ Req(c).op \in {"push", "frame"}
  BY <1>1, ServerReads
<1>3. result[c] = None
  BY <1>2 DEF PushInv, PushOf, None
<1>4. ~Succeeded(c, "push")'
  BY <1>1, <1>3 DEF Succeeded, Ended
<1>5. ASSUME call[c].op = "push"
      PROVE  /\ upload'[c] # None => Stored(c, upload[c].uid, call[c].size)'
             /\ Says(inbox'[c], "ok") =>
                  \E u \in Uids : Stored(c, u, call[c].size)' /\ Whole(u)'
  <2>1. CASE Refuse(c)
    <3> DEFINE m == Reply("err", 0)
    <3>1. m \in Messages /\ m.kind = "reply" /\ m.res = "err"
      BY MessageKinds
    <3>2. upload'[c] = None /\ Step(c, <<m>>)
      BY <2>1 DEF Refuse, WireInv, WireTypes
    <3> HIDE DEF m
    <3>3. inbox'[c] = Append(inbox[c], m)
      BY <3>1, <3>2, Sending
    <3>4. ~Says(inbox'[c], "ok")
      BY <1>2, <1>5, <3>1, <3>3, Said1
    <3> QED
      BY <3>2, <3>4
  <2>2. CASE ServePush(c)
    BY <2>2, PushReceived
  <2>3. CASE ServeFrame(c)
    BY <2>3, FrameReceived
  <2>4. ~ServePull(c) /\ ~ServeDelete(c)
    BY <1>2, <1>5 DEF ServePull, ServeDelete
  <2> QED
    BY <2>1, <2>2, <2>3, <2>4 DEF ServerStep
<1> QED
  BY <1>1, <1>3, <1>4, <1>5 DEF PushOf

(* A call that ends has the result that it ends with.                      *)
LEMMA PushEnded ==
  ASSUME WireInv, PushInv, NEW c \in Conns, NEW r, Ends(c, r), UNCHANGED version,
         r.op = "push" /\ r.ok = TRUE =>
           \E u \in Uids : Stored(c, u, r.size) /\ Whole(u)
  PROVE  PushOf(c)'
<1>1. call'[c] = None /\ result'[c] = r
  BY DEF Ends, WireInv, WireTypes, RestTypes
<1>2. ASSUME Succeeded(c, "push")' PROVE \E u \in Uids : Stored(c, u, r.size) /\ Whole(u)
  BY <1>1, <1>2 DEF Succeeded, Ended
<1>3. \A u \in Uids : \A n : /\ Stored(c, u, n) => Stored(c, u, n)'
                            /\ Whole(u) => Whole(u)'
  BY DEF Stored, Whole
<1>4. Succeeded(c, "push")' => \E u \in Uids : Stored(c, u, result[c].size)' /\ Whole(u)'
  BY <1>1, <1>2, <1>3 DEF Stored
<1> QED
  BY <1>1, <1>4 DEF PushOf, None

(* A step of a pull ends it or goes on with it.                            *)
LEMMA PullGoesOn ==
  ASSUME NEW c \in Conns, call \in [Conns -> Calls], PullReadsAnswer(c) \/ PullReadsPiece(c)
  PROVE  \/ \E r : Ends(c, r) /\ r.op = "pull"
         \/ UNCHANGED result /\ call'[c].op = "pull"
<1>1. call[c].op = "pull"
  BY DEF PullReadsAnswer, PullReadsPiece
<1>2. call[c] \in [op : {"pull"}, uid : Uids, left : Nat, got : Seq(Messages)]
  BY <1>1 DEF Calls, None
<1>3. CASE Fails(c)
  <2> DEFINE r == [op |-> call[c].op, ok |-> FALSE]
  <2>1. Ends(c, r) /\ r.op = "pull"
    BY <1>1, <1>3 DEF Fails
  <2> QED
    BY <2>1
<1>4. ASSUME NEW got, PullEnds(c, got) PROVE \E r : Ends(c, r) /\ r.op = "pull"
  <2> DEFINE r == [op |-> "pull", ok |-> TRUE, uid |-> call[c].uid, got |-> got]
  <2>1. Ends(c, r) /\ r.op = "pull"
    BY <1>4 DEF PullEnds
  <2> QED
    BY <2>1
<1>5. ASSUME NEW n, UNCHANGED result, call' = [call EXCEPT ![c].left = n] PROVE call'[c].op = "pull"
  BY <1>2, <1>5
<1>6. ASSUME NEW got, UNCHANGED result, call' = [call EXCEPT ![c].left = @ - 1, ![c].got = got]
      PROVE  call'[c].op = "pull"
  BY <1>2, <1>6
<1> DEFINE n == Announced(Msg(c))
           got == Append(call[c].got, Msg(c))
<1>7. CASE PullReadsAnswer(c)
  <2>1. \/ Fails(c) \/ PullEnds(c, <<>>)
        \/ UNCHANGED result /\ call' = [call EXCEPT ![c].left = n]
    BY <1>7, Zenon DEF PullReadsAnswer
  <2> HIDE DEF n
  <2> QED
    BY <1>3, <1>4, <1>5, <2>1
<1>8. CASE PullReadsPiece(c)
  <2>1. \/ Fails(c) \/ PullEnds(c, got)
        \/ UNCHANGED result /\ call' = [call EXCEPT ![c].left = @ - 1, ![c].got = got]
    BY <1>8, Zenon DEF PullReadsPiece
  <2> HIDE DEF got
  <2> QED
    BY <1>3, <1>4, <1>6, <2>1
<1> QED
  BY <1>7, <1>8

(* What the client does about one.                                         *)
LEMMA PushRead ==
  ASSUME WireInv, PushInv, NEW c \in Conns, ClientStep(c)
  PROVE  PushOf(c)'
<1>0. /\ UNCHANGED <<version, upload>> /\ call[c] # None /\ inbox[c] # <<>>
      /\ inbox' = [inbox EXCEPT ![c] = Tail(inbox[c])]
  BY DEF ClientStep, AbsorbNotice, PullReadsAnswer, PullReadsPiece, PushReadsReply,
         DeleteReadsReply, Reads, server
<1>1. /\ inbox \in [Conns -> Seq(Messages)] /\ call \in [Conns -> Calls] /\ PushOf(c)
      /\ DOMAIN result = Conns
  BY DEF WireInv, WireTypes, RestTypes, PushInv
<1>2. inbox'[c] = Tail(inbox[c]) /\ (Says(inbox'[c], "ok") => Says(inbox[c], "ok"))
  BY <1>0, <1>1, Said1
<1>3. CASE AbsorbNotice(c)
  <2>1. UNCHANGED <<call, result>>
    BY <1>3 DEF AbsorbNotice
  <2> QED
    BY <1>0, <1>1, <1>2, <2>1, PushAside DEF Kept
<1>4. CASE PullReadsAnswer(c) \/ PullReadsPiece(c)
  <2>1. ASSUME NEW r, Ends(c, r), r.op = "pull" PROVE PushOf(c)'
    BY <1>0, <2>1, PushEnded
  <2>2. CASE UNCHANGED result /\ call'[c].op = "pull"
    <3>1. result[c] = None /\ ~Succeeded(c, "push")'
      BY <1>0, <1>1, <2>2 DEF PushOf, Succeeded, Ended, None
    <3> QED
      BY <2>2, <3>1 DEF PushOf
  <2> QED
    BY <1>1, <1>4, <2>1, <2>2, PullGoesOn
<1>5. CASE PushReadsReply(c)
  <2>1. CASE GoesOn(Msg(c), call[c])
    <3>1. /\ call' = [call EXCEPT ![c].sent = call[c].sent + 1] /\ UNCHANGED result
      BY <1>5, <2>1 DEF PushReadsReply
    <3>2. call'[c].op = "push" /\ call'[c].size = call[c].size /\ call[c].op = "push"
      <4>1. call[c] \in [op : {"push"}, path : Files, size : Sizes, sent : Nat]
        BY <1>5, PushAnswer
      <4> QED
        BY <1>1, <3>1, <4>1
    <3>3. ~Says(inbox'[c], "ok")
      <4>1. OnlyNotices(Tail(inbox[c]))
        BY <1>5, PushAnswer
      <4>2. Tail(inbox[c]) \in Seq(Messages)
        BY <1>0, <1>1, FirstRead
      <4>3. ~Says(Tail(inbox[c]), "ok")
        BY <4>1, <4>2, Said1
      <4> QED
        BY <1>2, <4>3
    <3>4. result[c] = None /\ ~Succeeded(c, "push")'
      BY <1>0, <1>1, <3>1 DEF PushOf, Succeeded, Ended, None
    <3>5. upload[c] # None => Stored(c, upload[c].uid, call[c].size)'
      BY <1>0, <1>1, <3>2 DEF PushOf, Stored
    <3> QED
      BY <1>0, <3>1, <3>2, <3>3, <3>4, <3>5 DEF PushOf
  <2>2. CASE ~GoesOn(Msg(c), call[c])
    <3>1. CASE IsDone(Msg(c), call[c])
      <4> DEFINE r == [op |-> "push", ok |-> TRUE, path |-> call[c].path, size |-> call[c].size]
      <4>1. Ends(c, r)
        BY <1>5, <2>2, <3>1 DEF PushReadsReply, PushEnds
      <4>2. Says(inbox[c], "ok") /\ call[c].op = "push"
        <5>1. /\ inbox[c][1].kind = "reply" /\ call[c].op = "push"
              /\ inbox[c][1].res = "ok"
          BY <1>5, <3>1, PushAnswer DEF IsDone
        <5> QED
          BY <1>0, <1>1, <5>1, Said1
      <4>3. \E u \in Uids : Stored(c, u, r.size) /\ Whole(u)
        BY <1>1, <4>2 DEF PushOf
      <4> HIDE DEF r
      <4> QED
        BY <1>0, <4>1, <4>3, PushEnded
    <3>2. CASE ~IsDone(Msg(c), call[c])
      <4> DEFINE r == [op |-> call[c].op, ok |-> FALSE]
      <4>1. Ends(c, r) /\ r.ok = FALSE
        BY <1>5, <2>2, <3>2 DEF PushReadsReply, Fails
      <4> HIDE DEF r
      <4> QED
        BY <1>0, <4>1, PushEnded
    <3> QED
      BY <3>1, <3>2
  <2> QED
    BY <2>1, <2>2
<1>6. CASE DeleteReadsReply(c)
  <2>1. \E r : Ends(c, r) /\ r.op = "delete"
    BY <1>6 DEF DeleteReadsReply, Fails
  <2>2. PICK r : Ends(c, r) /\ r.op = "delete"
    BY <2>1
  <2> QED
    BY <1>0, <2>2, PushEnded
<1> QED
  BY <1>3, <1>4, <1>5, <1>6 DEF ClientStep, PullReadsAnswer, PullReadsPiece

(* The start of a call, and whatever does not end or change one.           *)
LEMMA PushAsked ==
  ASSUME WireInv, PushInv, NEW c \in Conns, NEW m, NEW what, Ask(c, m, what),
         what.op = "push" => inbox'[c] = inbox[c]
  PROVE  PushInv'
<1>1. /\ c \in open /\ call[c] = None
      /\ call' = [call EXCEPT ![c] = what] /\ result' = [result EXCEPT ![c] = None]
      /\ UNCHANGED <<version, upload, inbox>>
  BY DEF Ask, Idle, server
<1>2. /\ call \in [Conns -> Calls] /\ DOMAIN result = Conns /\ inbox[c] \in Seq(Messages)
      /\ BetweenCalls(c)
  BY <1>1 DEF WireInv, WireTypes, RestTypes, InCall
<1>3. ASSUME NEW d \in Conns, d # c PROVE PushOf(d)'
  <2>1. call'[d] = call[d] /\ result'[d] = result[d] /\ Kept(d)
    BY <1>1, <1>2, <1>3 DEF Kept
  <2> QED
    BY <1>1, <2>1, PushAside DEF PushInv
<1>4. PushOf(c)'
  <2>1. result'[c] = None /\ upload'[c] = None /\ ~Says(inbox'[c], "ok")
    BY <1>1, <1>2, Said1 DEF BetweenCalls
  <2> QED
    BY <2>1 DEF PushOf, Succeeded, Ended, None
<1> QED
  BY <1>3, <1>4 DEF PushInv

(* A connection breaks.                                                    *)
LEMMA PushBroken ==
  ASSUME WireInv, PushInv, NEW c \in Conns, Break(c)
  PROVE  PushInv'
<1>1. /\ inbox' = [inbox EXCEPT ![c] = <<>>] /\ upload' = [upload EXCEPT ![c] = None]
      /\ IF call[c] # None THEN Ends(c, [op |-> call[c].op, ok |-> FALSE])
         ELSE UNCHANGED <<call, result>>
      /\ UNCHANGED version
  BY DEF Break, Fails
<1>2. /\ call \in [Conns -> Calls] /\ upload \in [Conns -> Uploads] /\ DOMAIN result = Conns
      /\ inbox \in [Conns -> Seq(Messages)]
  BY DEF WireInv, WireTypes, RestTypes
<1>3. ASSUME NEW d \in Conns, d # c PROVE PushOf(d)'
  <2>1. call'[d] = call[d] /\ result'[d] = result[d] /\ upload'[d] = upload[d]
        /\ inbox'[d] = inbox[d] /\ Kept(d)
    BY <1>1, <1>2, <1>3 DEF Kept, Ends
  <2> QED
    BY <2>1, PushAside DEF PushInv
<1>4. PushOf(c)'
  <2>1. CASE call[c] # None
    <3> DEFINE r == [op |-> call[c].op, ok |-> FALSE]
    <3>1. Ends(c, r) /\ r.ok = FALSE
      BY <1>1, <2>1
    <3> HIDE DEF r
    <3> QED
      BY <1>1, <3>1, PushEnded
  <2>2. CASE call[c] = None
    <3>1. UNCHANGED <<call, result>> /\ upload'[c] = None
      BY <1>1, <1>2, <2>2
    <3>2. \A u \in Uids : \A n : (Stored(c, u, n) => Stored(c, u, n)') /\ (Whole(u) => Whole(u)')
      BY <1>1 DEF Stored, Whole
    <3>3. Succeeded(c, "push")' => Succeeded(c, "push") /\ result'[c].size = result[c].size
      BY <3>1 DEF Succeeded, Ended
    <3>4. Succeeded(c, "push")' => \E u \in Uids : Stored(c, u, result[c].size)' /\ Whole(u)'
      BY <3>1, <3>2, <3>3 DEF PushInv, PushOf, Stored
    <3> QED
      BY <2>2, <3>1, <3>4 DEF PushOf, None
  <2> QED
    BY <2>1, <2>2
<1> QED
  BY <1>3, <1>4 DEF PushInv

(* Another device pushes.                                                  *)
LEMMA PushHeard ==
  ASSUME WireInv, PushInv, NEW p \in Files, NEW n \in Sizes, NEW deletes \in BOOLEAN,
         OtherDevice(p, n, deletes)
  PROVE  PushInv'
<1> SUFFICES ASSUME NEW d \in Conns PROVE PushOf(d)'
  BY DEF PushInv
<1> DEFINE m == Notice(p, last + 1)
<1>1. /\ last < MaxUid /\ \E v : v.by = "other" /\ version' = [version EXCEPT ![last + 1] = v]
      /\ inbox'[d] \in {inbox[d], Append(inbox[d], m)}
      /\ UNCHANGED <<upload, call, result>>
  BY DEF OtherDevice, client, New
<1>2. /\ version \in [Uids -> Version \cup {NoVersion}] /\ inbox[d] \in Seq(Messages)
      /\ last + 1 \in Uids /\ version[last + 1] = NoVersion
  BY <1>1, BoundAssumption DEF WireInv, WireTypes, BoundAssumption, Uids
<1>3. NoVersion.by # d /\ d # "other"
  BY NamesAssumption DEF NoVersion, NamesAssumption
<1>4. Kept(d)
  BY <1>1, <1>2, <1>3 DEF Kept
<1>5. m \in Messages /\ m.kind = "notice"
  BY <1>2, MessageKinds
<1> HIDE DEF m
<1>6. Says(inbox'[d], "ok") => Says(inbox[d], "ok")
  <2>1. Says(Append(inbox[d], m), "ok") => Says(inbox[d], "ok")
    BY <1>2, <1>5, Said1
  <2> QED
    BY <1>1, <2>1
<1> QED
  BY <1>1, <1>4, <1>6, PushAside DEF PushInv

(* Every step.                                                             *)
LEMMA PushStep ==
  ASSUME WireInv, PushInv, SameFrames, [Next]_vars
  PROVE  PushInv'
<1>0. Main \in Conns /\ Workers \subseteq Conns
  BY PoolAssumption DEF PoolAssumption
<1>1. ASSUME UNCHANGED <<server, wire, call, result>> PROVE PushInv'
  <2> SUFFICES ASSUME NEW d \in Conns PROVE PushOf(d)'
    BY DEF PushInv
  <2> QED
    BY <1>1, PushAside DEF PushInv, server, wire, Kept
<1>2. ASSUME NEW c \in Conns, NEW m, NEW what, Ask(c, m, what) PROVE PushInv'
  <2>1. inbox' = inbox
    BY <1>2 DEF Ask
  <2> QED
    BY <1>2, <2>1, PushAsked
<1>3. CASE PlanCalls
  BY <1>0, <1>2, <1>3 DEF PlanCalls, StartPull, StartPush, StartDelete
<1>4. CASE MainStep \/ BreakerTimesOut \/ UNCHANGED vars
  <2>1. UNCHANGED sessionVars
    BY <1>4 DEF MainStep, PlanFails, PlanDone, StartPool, Feed, StopFeeding, Return,
                BreakerTimesOut, vars
  <2> QED
    BY <1>1, <2>1 DEF sessionVars, client
<1>5. CASE Cancel
  BY <1>1, <1>5 DEF Cancel, sessionVars, client
<1>6. CASE Others
  BY <1>6, PushHeard DEF Others
<1>7. ASSUME NEW w \in Workers, WorkerStep(w) PROVE PushInv'
  <2>1. CASE Take(w)
    BY <1>0, <1>2, <2>1 DEF Take, StartPull
  <2>2. CASE ~Take(w)
    <3>1. UNCHANGED <<server, wire, call, result>>
      BY <1>7, <2>2 DEF WorkerStep, Dial, DialSucceeds, DialFails, TakeInVain, Exit, PullFails,
                        Store, Leaves, sessionVars, client
    <3> QED
      BY <1>1, <3>1
  <2> QED
    BY <2>1, <2>2
<1>8. ASSUME NEW c \in Conns, OnConn(c) PROVE PushInv'
  <2>1. CASE ServerStep(c)
    <3>1. PushOf(c)'
      BY <2>1, PushServed
    <3>2. \A d \in Conns : d # c => PushOf(d)'
      <4> SUFFICES ASSUME NEW d \in Conns, d # c PROVE PushOf(d)'
        OBVIOUS
      <4> QED
        BY <2>1, OthersServed, PushAside DEF PushInv
    <3> QED
      BY <3>1, <3>2 DEF PushInv
  <2>2. CASE ClientStep(c)
    <3>1. PushOf(c)'
      BY <2>2, PushRead
    <3>2. ASSUME NEW d \in Conns, d # c PROVE PushOf(d)'
      <4>1. /\ UNCHANGED <<version, upload>> /\ inbox'[d] = inbox[d]
        BY <2>2, <3>2 DEF ClientStep, AbsorbNotice, PullReadsAnswer, PullReadsPiece,
             PushReadsReply, DeleteReadsReply, Reads, server, WireInv, WireTypes
      <4>2. call'[d] = call[d] /\ result'[d] = result[d]
        BY <2>2, <3>2 DEF ClientStep, AbsorbNotice, PullReadsAnswer, PullReadsPiece,
             PushReadsReply, DeleteReadsReply, Fails, PullEnds, PushEnds, Ends,
             WireInv, WireTypes, RestTypes
      <4> QED
        BY <4>1, <4>2, PushAside DEF PushInv, Kept
    <3> QED
      BY <3>1, <3>2 DEF PushInv
  <2> QED
    BY <1>8, <2>1, <2>2 DEF OnConn
<1>9. ASSUME NEW c \in Conns, Breaks(c) PROVE PushInv'
  BY <1>9, PushBroken DEF Breaks
<1> QED
  BY <1>3, <1>4, <1>5, <1>6, <1>7, <1>8, <1>9 DEF Next

(* A push that succeeds has left all of its content with the server, as    *)
(* the last version that this connection made, if encryption does not need *)
(* a frame more than the plain content does.                               *)
THEOREM PushedWholeTheorem ==
  ASSUME "noticeInPull" \notin Faults, \A n \in Sizes : Frames(Cipher(n)) = Frames(n)
  PROVE  Spec => []PushedWhole
<1>1. Init => WireInv /\ PushInv
  <2> SUFFICES ASSUME Init PROVE PushInv
    BY WireInit
  <2>1. ASSUME NEW c \in Conns PROVE PushOf(c)
    <3>1. call[c] = None /\ result[c] = None
      BY DEF Init, SessionInit
    <3> QED
      BY <3>1 DEF PushOf, None, Succeeded
  <2> QED
    BY <2>1 DEF PushInv
<1>2. WireInv /\ PushInv /\ PoolInv /\ [Next]_vars => WireInv' /\ PushInv'
  BY WireStep, PushStep DEF SameFrames
<1>3. PushInv => PushedWhole
  <2> SUFFICES ASSUME PushInv, NEW c \in Conns, Succeeded(c, "push")
               PROVE  \E u \in Pushed(c) : /\ \A v \in Pushed(c) : v <= u
                                           /\ version[u].size = result[c].size /\ Whole(u)
    BY DEF PushedWhole
  <2>1. PICK u \in Uids : Stored(c, u, result[c].size) /\ Whole(u)
    BY DEF PushInv, PushOf
  <2> QED
    BY <2>1 DEF Stored, Pushed
<1> QED
  BY <1>1, <1>2, <1>3, PoolTheorem, PTL DEF Spec

-----------------------------------------------------------------------------
(***************************************************************************)
(* News.  What the plan's connection was told last about a path is in      *)
(* session.remote, or is still to be read after all else about the path.   *)
(* Main is the only connection that is told anything: workers are not      *)
(* connected while the plan calls and other devices push.                  *)
(***************************************************************************)
Tells(s, p, u, from) == \E k \in from..Len(s) : /\ s[k].kind = "notice"
                                                /\ s[k].path = p /\ s[k].uid = u
LastTold(s, p, u) ==
  \A k \in 1..Len(s) : s[k].kind = "notice" /\ s[k].path = p => Tells(s, p, u, k)

(* The answer to a deletion takes p out of session.remote: what was told   *)
(* last is the deletion, or it comes after.                                *)
Unlisted(s, p, u, G) ==
  \A k \in 1..Len(s) : s[k].kind = "reply" /\ s[k].res = "ok" => u \in G \/ Tells(s, p, u, k)

(* Of a path p: s is what has not been read, u what was told last, r what  *)
(* is in session.remote, G what is gone, and k the call.                   *)
Deletes(k, p) == k.op = "delete" /\ k.path = p
News(s, p, u, r, G, k) ==
  /\ LastTold(s, p, u)
  /\ u \in {0} \cup G \/ r = u \/ Tells(s, p, u, 1)
  /\ Deletes(k, p) => Unlisted(s, p, u, G)

NewsOf(p) == News(inbox[Main], p, told[Main][p], remote[p], gone, call[Main])

NewsInv ==
  /\ phase = "plan" => open \subseteq {Main}
  /\ call[Main] # None => phase = "plan"
  /\ \A w \in Workers, p \in Files : told[w][p] = 0
  /\ Main \in open => \A p \in Files : NewsOf(p)

(* What a list tells before and after one more message.                    *)
LEMMA TellsMore ==
  ASSUME NEW s \in Seq(Messages), NEW m \in Messages, NEW p, NEW u
  PROVE  /\ \A k \in Nat \ {0} : Tells(s, p, u, k) => Tells(Append(s, m), p, u, k)
         /\ m.kind = "notice" /\ m.path = p /\ m.uid = u =>
              \A k \in 1..(Len(s) + 1) : Tells(Append(s, m), p, u, k)
<1>1. /\ Len(Append(s, m)) = Len(s) + 1 /\ Len(s) \in Nat
      /\ \A k \in 1..Len(s) : Append(s, m)[k] = s[k]
      /\ Append(s, m)[Len(s) + 1] = m
  BY Appended
<1> DEFINE t == Append(s, m)
<1> HIDE DEF t
<1>2. ASSUME NEW k \in Nat \ {0}, Tells(s, p, u, k) PROVE Tells(t, p, u, k)
  BY <1>1, <1>2 DEF Tells, t
<1>3. ASSUME m.kind = "notice" /\ m.path = p /\ m.uid = u, NEW k \in 1..(Len(s) + 1)
      PROVE  Tells(t, p, u, k)
  <2>1. Len(s) + 1 \in k..Len(t) /\ t[Len(s) + 1] = m
    BY <1>1 DEF t
  <2> QED
    BY <1>3, <2>1 DEF Tells
<1> QED
  BY <1>2, <1>3 DEF t

(* And before and after the first is read.                                 *)
LEMMA TellsRest ==
  ASSUME NEW s \in Seq(Messages), s # <<>>, NEW p, NEW u
  PROVE  /\ \A k \in Nat \ {0} : Tells(s, p, u, k + 1) => Tells(Tail(s), p, u, k)
         /\ Tells(s, p, u, 1) => \/ s[1].kind = "notice" /\ s[1].path = p /\ s[1].uid = u
                                 \/ Tells(Tail(s), p, u, 1)
         /\ LastTold(s, p, u) => LastTold(Tail(s), p, u)
         /\ \A G : Unlisted(s, p, u, G) => Unlisted(Tail(s), p, u, G)
<1> DEFINE t == Tail(s)
<1>1. /\ Len(s) \in Nat \ {0} /\ Len(t) = Len(s) - 1 /\ t \in Seq(Messages)
      /\ \A k \in 1..Len(t) : t[k] = s[k + 1]
  BY FirstRead
<1> HIDE DEF t
<1>2. ASSUME NEW k \in Nat \ {0}, Tells(s, p, u, k + 1) PROVE Tells(t, p, u, k)
  <2>1. PICK i \in (k + 1)..Len(s) : s[i].kind = "notice" /\ s[i].path = p /\ s[i].uid = u
    BY <1>2 DEF Tells
  <2>2. i - 1 \in k..Len(t) /\ t[i - 1] = s[i]
    BY <1>1
  <2> QED
    BY <2>1, <2>2 DEF Tells
<1>3. ASSUME Tells(s, p, u, 1)
      PROVE  (s[1].kind = "notice" /\ s[1].path = p /\ s[1].uid = u) \/ Tells(t, p, u, 1)
  <2>1. PICK i \in 1..Len(s) : s[i].kind = "notice" /\ s[i].path = p /\ s[i].uid = u
    BY <1>3 DEF Tells
  <2>2. CASE i = 1
    BY <2>1, <2>2
  <2>3. CASE i # 1
    <3>1. i - 1 \in 1..Len(t) /\ t[i - 1] = s[i]
      BY <1>1, <2>3
    <3> QED
      BY <2>1, <3>1 DEF Tells
  <2> QED
    BY <2>2, <2>3
<1>4. \A k \in 1..Len(t) : k \in Nat \ {0} /\ k + 1 \in 1..Len(s) /\ t[k] = s[k + 1]
  BY <1>1
<1>5. LastTold(s, p, u) => LastTold(t, p, u)
  BY <1>2, <1>4 DEF LastTold
<1>6. \A G : Unlisted(s, p, u, G) => Unlisted(t, p, u, G)
  BY <1>2, <1>4 DEF Unlisted
<1> QED
  BY <1>2, <1>3, <1>5, <1>6 DEF t

(* A notification comes.                                                   *)
LEMMA NewsNoticed ==
  ASSUME NEW s \in Seq(Messages), NEW p \in Files, NEW q \in Files, NEW v \in Uids,
         NEW u, NEW r, NEW G, NEW k, News(s, p, u, r, G, k)
  PROVE  News(Append(s, Notice(q, v)), p, IF q = p THEN v ELSE u, r, G, k)
<1> DEFINE m == Notice(q, v)
           t == Append(s, m)
<1>1. m \in Messages /\ m.kind = "notice" /\ m.path = q /\ m.uid = v
  BY MessageKinds
<1> HIDE DEF m
<1>2. /\ Len(t) = Len(s) + 1 /\ Len(s) \in Nat /\ t[Len(s) + 1] = m
      /\ \A i \in 1..Len(s) : t[i] = s[i]
  BY <1>1, Appended
<1>3. \A i \in 1..Len(t) : i \in Nat \ {0} /\ (i = Len(s) + 1 \/ i \in 1..Len(s))
  BY <1>2
<1>4. /\ \A w : \A i \in Nat \ {0} : Tells(s, p, w, i) => Tells(t, p, w, i)
      /\ q = p => \A i \in 1..Len(t) : Tells(t, p, v, i)
  BY <1>1, <1>2, TellsMore
<1>5. 1 \in 1..Len(t) /\ 1 \in Nat \ {0}
  BY <1>2
<1> HIDE DEF t
<1>6. CASE q = p
  BY <1>4, <1>5, <1>6 DEF News, LastTold, Unlisted, m, t
<1>7. CASE q # p
  <2>1. LastTold(t, p, u)
    BY <1>1, <1>2, <1>3, <1>4, <1>7 DEF News, LastTold
  <2>2. Unlisted(s, p, u, G) => Unlisted(t, p, u, G)
    BY <1>1, <1>2, <1>3, <1>4 DEF Unlisted
  <2> QED
    BY <1>4, <1>5, <1>7, <2>1, <2>2 DEF News, m, t
<1> QED
  BY <1>6, <1>7

(* An answer comes, or a frame.                                            *)
LEMMA NewsAnswered ==
  ASSUME NEW s \in Seq(Messages), NEW p, NEW m \in Messages, m.kind # "notice",
         NEW u, NEW r, NEW G, NEW k, News(s, p, u, r, G, k),
         Deletes(k, p) /\ m.kind = "reply" /\ m.res = "ok" => u \in G
  PROVE  News(Append(s, m), p, u, r, G, k)
<1> DEFINE t == Append(s, m)
<1>1. /\ Len(t) = Len(s) + 1 /\ Len(s) \in Nat /\ t[Len(s) + 1] = m
      /\ \A i \in 1..Len(s) : t[i] = s[i]
  BY Appended
<1>2. \A i \in 1..Len(t) : i \in Nat \ {0} /\ (i = Len(s) + 1 \/ i \in 1..Len(s))
  BY <1>1
<1>3. \A i \in Nat \ {0} : Tells(s, p, u, i) => Tells(t, p, u, i)
  BY TellsMore
<1> HIDE DEF t
<1>4. LastTold(t, p, u)
  BY <1>1, <1>2, <1>3 DEF News, LastTold
<1>5. Deletes(k, p) => Unlisted(t, p, u, G)
  BY <1>1, <1>2, <1>3 DEF News, Unlisted
<1>6. 1 \in Nat \ {0}
  OBVIOUS
<1> QED
  BY <1>3, <1>4, <1>5, <1>6 DEF News, t

(* The first message is read, and a notification is entered.               *)
LEMMA NewsHeard ==
  ASSUME NEW s \in Seq(Messages), s # <<>>, NEW p,
         NEW u, NEW r, NEW G, NEW k, News(s, p, u, r, G, k)
  PROVE  /\ s[1].kind # "notice" => News(Tail(s), p, u, r, G, k)
         /\ s[1].kind = "notice" =>
              News(Tail(s), p, u, IF s[1].path = p THEN s[1].uid ELSE r, G, k)
         /\ Deletes(k, p) /\ s[1].kind = "reply" /\ s[1].res = "ok" =>
              \A j : ~Deletes(j, p) => News(Tail(s), p, u, 0, G, j)
<1>1. /\ Tells(s, p, u, 1) => \/ s[1].kind = "notice" /\ s[1].path = p /\ s[1].uid = u
                              \/ Tells(Tail(s), p, u, 1)
      /\ LastTold(Tail(s), p, u)
      /\ Deletes(k, p) => Unlisted(Tail(s), p, u, G)
  BY TellsRest DEF News
<1>2. 1 \in 1..Len(s)
  BY FirstRead
<1>3. s[1].kind = "notice" /\ s[1].path = p => Tells(s, p, u, 1)
  BY <1>2 DEF News, LastTold
<1>4. Deletes(k, p) /\ s[1].kind = "reply" /\ s[1].res = "ok" => u \in G \/ Tells(s, p, u, 1)
  BY <1>2 DEF News, Unlisted
<1>5. u \in {0} \cup G \/ r = u \/ Tells(s, p, u, 1)
  BY DEF News
<1>6. s[1].kind # "notice" => News(Tail(s), p, u, r, G, k)
  BY <1>1, <1>5 DEF News
<1>7. s[1].kind = "notice" => News(Tail(s), p, u, IF s[1].path = p THEN s[1].uid ELSE r, G, k)
  BY <1>1, <1>3, <1>5 DEF News
<1>8. Deletes(k, p) /\ s[1].kind = "reply" /\ s[1].res = "ok" =>
        \A j : ~Deletes(j, p) => News(Tail(s), p, u, 0, G, j)
  BY <1>1, <1>4 DEF News
<1> QED
  BY <1>6, <1>7, <1>8

(* More is gone, or another call is made.                                  *)
LEMMA NewsOtherwise ==
  ASSUME NEW s, NEW p, NEW u, NEW r, NEW G, NEW k, News(s, p, u, r, G, k),
         NEW H, G \subseteq H, NEW j,
         j = k \/ ~Deletes(j, p) \/ OnlyNotices(s) \/ u \in H
  PROVE  News(s, p, u, r, H, j)
<1>1. Unlisted(s, p, u, G) => Unlisted(s, p, u, H)
  BY DEF Unlisted
<1>2. OnlyNotices(s) \/ u \in H => Unlisted(s, p, u, H)
  BY DEF Unlisted, OnlyNotices
<1> QED
  BY <1>1, <1>2 DEF News

(* Steps that leave the plan's connection alone, but for closing it.       *)
LEMMA NewsAlone ==
  ASSUME NewsInv, UNCHANGED <<remote, told, gone>>, inbox'[Main] = inbox[Main],
         call'[Main] \in {None, call[Main]},
         Main \in open' => Main \in open,
         phase' = "plan" => open' \subseteq {Main},
         call'[Main] # None => phase' = "plan"
  PROVE  NewsInv'
<1>1. ASSUME Main \in open', NEW p \in Files PROVE NewsOf(p)'
  <2>1. News(inbox[Main], p, told[Main][p], remote[p], gone, call[Main])
    BY <1>1 DEF NewsInv, NewsOf
  <2>2. ~Deletes(None, p)
    BY DEF Deletes, None
  <2>3. News(inbox[Main], p, told[Main][p], remote[p], gone, call'[Main])
    BY <2>1, <2>2, NewsOtherwise
  <2> QED
    BY <2>3 DEF NewsOf
<1> QED
  BY <1>1 DEF NewsInv

(* The plan calls.                                                         *)
LEMMA NewsAsked ==
  ASSUME WireInv, NewsInv, NEW m, NEW what, Ask(Main, m, what), phase = "plan", UNCHANGED phase
  PROVE  NewsInv'
<1>1. /\ call' = [call EXCEPT ![Main] = what] /\ call[Main] = None
      /\ UNCHANGED <<inbox, open, remote, told, gone>>
  BY DEF Ask, Idle, server
<1>2. Main \in Conns /\ BetweenCalls(Main)
  BY <1>1, PoolAssumption DEF PoolAssumption, WireInv, InCall
<1>3. ASSUME Main \in open', NEW p \in Files PROVE NewsOf(p)'
  <2>1. News(inbox[Main], p, told[Main][p], remote[p], gone, call[Main])
    BY <1>1, <1>3 DEF NewsInv, NewsOf
  <2>2. News(inbox[Main], p, told[Main][p], remote[p], gone, call'[Main])
    BY <1>2, <2>1, NewsOtherwise DEF BetweenCalls
  <2> QED
    BY <1>1, <2>2 DEF NewsOf
<1> QED
  BY <1>1, <1>3 DEF NewsInv

(* Another device pushes.                                                  *)
LEMMA NewsFromOthers ==
  ASSUME WireInv, NewsInv, NEW p \in Files, NEW n \in Sizes, NEW deletes \in BOOLEAN,
         OtherDevice(p, n, deletes), phase = "plan", UNCHANGED phase
  PROVE  NewsInv'
<1> DEFINE u == last + 1
<1>1. /\ last < MaxUid /\ gone \subseteq gone'
      /\ inbox' = [d \in Conns |-> IF d \in open THEN Append(inbox[d], Notice(p, u)) ELSE inbox[d]]
      /\ told' = [d \in Conns |-> IF d \in open THEN [told[d] EXCEPT ![p] = u] ELSE told[d]]
      /\ UNCHANGED <<open, call, remote>>
  BY DEF OtherDevice, client
<1>2. u \in Uids
  BY <1>1, BoundAssumption DEF WireInv, WireTypes, Uids, BoundAssumption
<1> HIDE DEF u
<1>3. /\ open \subseteq {Main} /\ Workers \subseteq Conns /\ Main \in Conns /\ Main \notin Workers
      /\ inbox \in [Conns -> Seq(Messages)] /\ told \in [Conns -> [Files -> 0..MaxUid]]
  BY PoolAssumption DEF NewsInv, PoolAssumption, WireInv, WireTypes, RestTypes
<1>4. \A w \in Workers, q \in Files : told'[w][q] = 0
  BY <1>1, <1>3 DEF NewsInv
<1>5. ASSUME Main \in open', NEW q \in Files PROVE NewsOf(q)'
  <2>1. News(inbox[Main], q, told[Main][q], remote[q], gone, call[Main])
    BY <1>1, <1>5 DEF NewsInv, NewsOf
  <2>2. /\ inbox'[Main] = Append(inbox[Main], Notice(p, u)) /\ inbox[Main] \in Seq(Messages)
        /\ told'[Main][q] = IF p = q THEN u ELSE told[Main][q]
    BY <1>1, <1>3, <1>5
  <2>3. News(inbox[Main], q, told[Main][q], remote[q], gone', call[Main])
    BY <1>1, <2>1, NewsOtherwise
  <2>4. News(inbox'[Main], q, told'[Main][q], remote[q], gone', call[Main])
    BY <1>2, <2>2, <2>3, NewsNoticed
  <2> QED
    BY <1>1, <2>4 DEF NewsOf
<1> QED
  BY <1>1, <1>3, <1>4, <1>5 DEF NewsInv

(* The answer to a push or a deletion, and the notification of it.         *)
LEMMA NewsEchoed ==
  ASSUME NEW s \in Seq(Messages), NEW p \in Files, NEW q \in Files, NEW v \in Uids,
         NEW x \in {"ok", "err", "next"}, NEW msgs \in Echo(q, v, Reply(x, 0)),
         NEW u, NEW r, NEW G, News(s, p, u, r, G, None)
  PROVE  News(s \o msgs, p, IF q = p THEN v ELSE u, r, G, None)
<1> DEFINE m == Reply(x, 0)
           n == Notice(q, v)
<1>1. msgs \in {<<n, m>>, <<m, n>>}
  BY DEF Echo
<1>2. /\ m \in Messages /\ m.kind # "notice" /\ n \in Messages /\ ~Deletes(None, p)
  BY MessageKinds DEF Deletes, None
<1>3. \A a \in Messages : Append(s, a) \in Seq(Messages)
  BY Appended
<1>4. ASSUME msgs = <<n, m>> PROVE News(s \o msgs, p, IF q = p THEN v ELSE u, r, G, None)
  <2>1. News(Append(s, n), p, IF q = p THEN v ELSE u, r, G, None)
    BY NewsNoticed
  <2> HIDE DEF m, n
  <2>2. News(Append(Append(s, n), m), p, IF q = p THEN v ELSE u, r, G, None)
    BY <1>2, <1>3, <2>1, NewsAnswered
  <2> QED
    BY <1>2, <1>4, <2>2, TwoJoined
<1>5. ASSUME msgs = <<m, n>> PROVE News(s \o msgs, p, IF q = p THEN v ELSE u, r, G, None)
  <2> HIDE DEF m
  <2>1. News(Append(s, m), p, u, r, G, None)
    BY <1>2, NewsAnswered
  <2>2. News(Append(Append(s, m), n), p, IF q = p THEN v ELSE u, r, G, None)
    BY <1>2, <1>3, <2>1, NewsNoticed
  <2> HIDE DEF n
  <2> QED
    BY <1>2, <1>5, <2>2, TwoJoined
<1> QED
  BY <1>1, <1>4, <1>5

(* A list without notifications tells nothing.                             *)
LEMMA NothingTold ==
  ASSUME NEW s, \A k \in 1..Len(s) : s[k].kind # "notice",
         NEW p, NEW u, NEW r, NEW G, NEW k, ~Deletes(k, p), News(<<>>, p, u, r, G, k)
  PROVE  News(s, p, u, r, G, k)
  BY DEF News, LastTold, Tells

(* The answer to a pull says how much of the content comes after it.       *)
LEMMA AnswerSent ==
  ASSUME WireInv, NEW c \in Conns, ServePull(c)
  PROVE  /\ inbox'[c] # <<>> /\ inbox'[c][1].pieces = Len(Content(call[c].uid))
         /\ \A k \in 1..Len(inbox'[c]) : inbox'[c][k].kind # "notice"
         /\ \A d \in Conns : d # c => inbox'[d] = inbox[d]
<1> DEFINE rest == Content(call[c].uid)
           m == Reply("ok", Len(rest))
           one == <<m>>
           t == one \o rest
<1>1. Took(c) /\ Req(c).op = "pull"
      /\ inbox' = [inbox EXCEPT ![c] = inbox[c] \o (<<Reply("ok", Len(Content(Req(c).uid)))>>
                                                   \o Content(Req(c).uid))]
  BY DEF ServePull, Step
<1>2. call[c].op = "pull" /\ Req(c).uid = call[c].uid /\ call[c].uid \in Uids /\ inbox[c] = <<>>
  <2>1. call[c] \in Calls
    BY DEF WireInv, WireTypes
  <2> QED
    BY <1>1, <2>1, ServerReads
<1>3. inbox' = [inbox EXCEPT ![c] = inbox[c] \o t]
  BY <1>1, <1>2
<1>4. /\ rest \in Seq(Messages) /\ Len(rest) \in Nat
      /\ \A i \in 1..Len(rest) : rest[i].kind = "frame"
  <2>1. /\ rest \in Seq(Messages) /\ Len(rest) \in Nat
        /\ \A i \in 1..Len(rest) : rest[i] = Part(call[c].uid, i)
    BY <1>2, ContentInOrder
  <2>2. \A i : Part(call[c].uid, i).kind = "frame"
    BY DEF Part
  <2> HIDE DEF rest
  <2> QED
    BY <2>1, <2>2
<1>5. m \in Messages /\ m.kind = "reply" /\ m.pieces = Len(rest)
  BY <1>4, MessageKinds
<1> HIDE DEF m, rest
<1>6. one \in Seq(Messages) /\ Len(one) = 1 /\ one[1] = m
  BY <1>5
<1> HIDE DEF one
<1>7. /\ t \in Seq(Messages) /\ Len(t) = 1 + Len(rest)
      /\ \A k \in 1..Len(t) : t[k] = IF k <= 1 THEN one[k] ELSE rest[k - 1]
  <2>1. one \in Seq(Messages) /\ rest \in Seq(Messages) /\ Len(one) = 1 /\ Len(rest) \in Nat
    BY <1>4, <1>6
  <2>2. /\ one \o rest \in Seq(Messages)
        /\ Len(one \o rest) = Len(one) + Len(rest)
        /\ \A k \in 1..Len(one) + Len(rest) :
              (one \o rest)[k] = IF k <= Len(one) THEN one[k] ELSE rest[k - Len(one)]
    BY <2>1, ConcatProperties, Zenon
  <2> QED
    BY <2>1, <2>2
<1> HIDE DEF t
<1>8. inbox'[c] = t /\ \A d \in Conns : d # c => inbox'[d] = inbox[d]
  BY <1>2, <1>3, <1>7 DEF WireInv, WireTypes
<1>9. t[1] = m /\ t # <<>>
  BY <1>4, <1>6, <1>7
<1>10. ASSUME NEW k \in 1..Len(t) PROVE t[k].kind # "notice"
  <2>1. CASE k = 1
    BY <1>5, <1>9, <2>1
  <2>2. CASE k # 1
    <3>1. t[k] = rest[k - 1] /\ k - 1 \in 1..Len(rest)
      BY <1>4, <1>7, <2>2
    <3> QED
      BY <1>4, <3>1
  <2> QED
    BY <2>1, <2>2
<1> QED
  BY <1>5, <1>8, <1>9, <1>10 DEF rest

(* The server answers on the plan's connection.                            *)
LEMMA NewsServed ==
  ASSUME WireInv, NewsInv, "noticeInPull" \notin Faults, ServerStep(Main), UNCHANGED phase
  PROVE  NewsInv'
<1>0. /\ Main \in Conns /\ Workers \subseteq Conns /\ Main \notin Workers
      /\ UNCHANGED <<open, call, remote>>
  BY PoolAssumption DEF PoolAssumption, ServerStep, Refuse, ServePull, ServePush, ServeFrame,
                        ServeDelete, client
<1>1. /\ inbox \in [Conns -> Seq(Messages)] /\ told \in [Conns -> [Files -> 0..MaxUid]]
      /\ inbox[Main] \in Seq(Messages)
  BY <1>0 DEF WireInv, WireTypes, RestTypes
<1>2. Took(Main)
  BY DEF ServerStep, Refuse, ServePull, ServePush, ServeFrame, ServeDelete
<1>3. call[Main].op \in {"pull", "push", "delete"} /\ call[Main] # None
  BY <1>0, <1>2, ServerReads DEF None
<1>4. phase = "plan" /\ open \subseteq {Main}
  BY <1>3 DEF NewsInv
<1>5. ASSUME \A p \in Files : NewsOf(p) => NewsOf(p)',
             \A w \in Workers, p \in Files : told'[w][p] = told[w][p]
      PROVE  NewsInv'
  BY <1>0, <1>4, <1>5 DEF NewsInv
<1>6. CASE Refuse(Main) \/ ServeFrame(Main)
  <2>1. /\ UNCHANGED <<told, gone>>
        /\ \E x \in {"ok", "err", "next"} :
             /\ Step(Main, <<Reply(x, 0)>>) /\ (x # "err" => call[Main].op = "push")
    <3>1. CASE Refuse(Main)
      BY <3>1 DEF Refuse
    <3>2. CASE ServeFrame(Main)
      <4>1. Req(Main).op = "frame"
        BY <3>2 DEF ServeFrame
      <4>2. call[Main].op = "push"
        BY <1>0, <1>2, <4>1, ServerReads
      <4> QED
        BY <3>2, <4>2 DEF ServeFrame
    <3> QED
      BY <1>6, <3>1, <3>2
  <2>2. PICK x \in {"ok", "err", "next"} :
          Step(Main, <<Reply(x, 0)>>) /\ (x # "err" => call[Main].op = "push")
    BY <2>1
  <2> DEFINE m == Reply(x, 0)
  <2>3. m \in Messages /\ m.kind = "reply" /\ m.res = x /\ Step(Main, <<m>>)
    BY <2>2, MessageKinds
  <2> HIDE DEF m
  <2>4. inbox'[Main] = Append(inbox[Main], m)
    BY <1>0, <2>3, Sending
  <2>5. ASSUME NEW p \in Files, NewsOf(p) PROVE NewsOf(p)'
    <3>1. ~(Deletes(call[Main], p) /\ m.kind = "reply" /\ m.res = "ok")
      BY <2>2, <2>3 DEF Deletes
    <3>2. News(Append(inbox[Main], m), p, told[Main][p], remote[p], gone, call[Main])
      BY <1>1, <2>3, <2>5, <3>1, NewsAnswered DEF NewsOf
    <3> QED
      BY <1>0, <2>1, <2>4, <3>2 DEF NewsOf
  <2> QED
    BY <1>5, <2>1, <2>5
<1>7. CASE ServePull(Main)
  <2>1. UNCHANGED <<told, gone>> /\ call[Main].op = "pull" /\ inbox[Main] = <<>>
    <3>1. UNCHANGED <<told, gone>> /\ Req(Main).op = "pull"
      BY <1>7 DEF ServePull, server
    <3> QED
      BY <1>0, <1>2, <3>1, ServerReads
  <2>2. \A k \in 1..Len(inbox'[Main]) : inbox'[Main][k].kind # "notice"
    BY <1>0, <1>7, AnswerSent
  <2>3. ASSUME NEW p \in Files, NewsOf(p) PROVE NewsOf(p)'
    <3>1. ~Deletes(call[Main], p)
      BY <2>1 DEF Deletes
    <3>2. News(inbox'[Main], p, told[Main][p], remote[p], gone, call[Main])
      BY <2>1, <2>2, <2>3, <3>1, NothingTold DEF NewsOf
    <3> QED
      BY <1>0, <2>1, <3>2 DEF NewsOf
  <2> QED
    BY <1>5, <2>1, <2>3
<1>8. CASE ServePush(Main) \/ ServeDelete(Main)
  <2> DEFINE u == last + 1
  <2>1. /\ last < MaxUid /\ Req(Main).op \in {"push", "delete"}
        /\ gone' = IF Req(Main).op = "push" THEN gone ELSE gone \cup {u}
        /\ \E x \in {"ok", "next"} : \E msgs \in Echo(Req(Main).path, u, Reply(x, 0)) :
             Tell(Main, Req(Main).path, u, msgs)
    <3>1. CASE ServePush(Main)
      BY <3>1 DEF ServePush
    <3>2. CASE ServeDelete(Main)
      BY <3>2 DEF ServeDelete
    <3> QED
      BY <1>8, <3>1, <3>2
  <2>2. u \in Uids
    BY <2>1, BoundAssumption DEF WireInv, WireTypes, Uids, BoundAssumption
  <2> DEFINE q == call[Main].path
  <2>3. q \in Files /\ Req(Main).path = q /\ call[Main].op = Req(Main).op
    <3>1. CASE Req(Main).op = "push"
      BY <1>0, <1>2, <3>1, ServerReads
    <3>2. CASE Req(Main).op = "delete"
      BY <1>0, <1>2, <3>2, ServerReads
    <3> QED
      BY <2>1, <3>1, <3>2
  <2>4. PICK x \in {"ok", "next"} : \E msgs \in Echo(q, u, Reply(x, 0)) : Tell(Main, q, u, msgs)
    BY <2>1, <2>3
  <2>5. PICK msgs \in Echo(q, u, Reply(x, 0)) : Tell(Main, q, u, msgs)
    BY <2>4
  <2> HIDE DEF u, q
  <2>6. /\ inbox'[Main] = inbox[Main] \o msgs
        /\ told'[Main] = [told[Main] EXCEPT ![q] = u]
        /\ \A w \in Workers : told'[w] = told[w]
    BY <1>0, <1>1, <1>4, <2>5 DEF Tell
  <2>7. ASSUME NEW p \in Files, NewsOf(p) PROVE NewsOf(p)'
    <3>1. told'[Main][p] = IF q = p THEN u ELSE told[Main][p]
      BY <1>0, <1>1, <2>3, <2>6, <2>7
    <3>2. gone \subseteq gone' /\ ~Deletes(None, p)
      BY <2>1 DEF Deletes, None
    <3>3. News(inbox[Main], p, told[Main][p], remote[p], gone', None)
      BY <2>7, <3>2, NewsOtherwise DEF NewsOf
    <3>4. News(inbox[Main] \o msgs, p, told'[Main][p], remote[p], gone', None)
      BY <1>1, <2>2, <2>3, <3>1, <3>3, NewsEchoed
    <3>5. ~Deletes(call[Main], p) \/ told'[Main][p] \in gone'
      BY <2>1, <2>3, <3>1 DEF Deletes, q
    <3>6. News(inbox[Main] \o msgs, p, told'[Main][p], remote[p], gone', call[Main])
      BY <3>4, <3>5, NewsOtherwise
    <3> QED
      BY <1>0, <2>6, <3>6 DEF NewsOf
  <2> QED
    BY <1>5, <2>6, <2>7
<1> QED
  BY <1>6, <1>7, <1>8 DEF ServerStep

(* What the plan's connection reads while it waits.                        *)
LEMMA NewsRead ==
  ASSUME WireInv, NewsInv, ClientStep(Main), UNCHANGED phase
  PROVE  NewsInv'
<1> DEFINE s == inbox[Main]
<1>0. Main \in Conns
  BY PoolAssumption DEF PoolAssumption
<1>1. /\ Main \in open /\ call[Main] # None /\ s # <<>> /\ inbox' = [inbox EXCEPT ![Main] = Tail(s)]
      /\ Msg(Main) = Head(s) /\ UNCHANGED <<open, told, gone>>
  BY DEF ClientStep, AbsorbNotice, PullReadsAnswer, PullReadsPiece, PushReadsReply,
         DeleteReadsReply, Reads, server, Msg
<1>2. inbox \in [Conns -> Seq(Messages)] /\ s \in Seq(Messages) /\ call \in [Conns -> Calls]
      /\ InCall(Main) /\ remote \in [Files -> 0..MaxUid]
  BY <1>0 DEF WireInv, WireTypes, RestTypes
<1>3. inbox'[Main] = Tail(s) /\ Head(s) = s[1] /\ s[1] \in Messages
  BY <1>0, <1>1, <1>2, FirstRead
<1>4. phase = "plan"
  BY <1>1 DEF NewsInv
<1>5. ASSUME \A p \in Files : NewsOf(p) => NewsOf(p)' PROVE NewsInv'
  BY <1>1, <1>4, <1>5 DEF NewsInv
<1>6. ASSUME UNCHANGED remote, s[1].kind # "notice",
             \A p \in Files : call'[Main] = call[Main] \/ ~Deletes(call'[Main], p)
      PROVE  NewsInv'
  <2>1. ASSUME NEW p \in Files, NewsOf(p) PROVE NewsOf(p)'
    <3>1. News(Tail(s), p, told[Main][p], remote[p], gone, call[Main])
      BY <1>1, <1>2, <1>6, <2>1, NewsHeard DEF NewsOf
    <3>2. News(Tail(s), p, told[Main][p], remote[p], gone, call'[Main])
      BY <1>6, <3>1, NewsOtherwise
    <3> QED
      BY <1>1, <1>3, <1>6, <3>2 DEF NewsOf
  <2> QED
    BY <1>5, <2>1
<1>7. \A r, p : ~Deletes(None, p) /\ (Ends(Main, r) => call'[Main] = None)
  BY <1>0, <1>2 DEF Deletes, None, Ends
<1>8. CASE AbsorbNotice(Main)
  <2>1. /\ UNCHANGED call /\ s[1].kind = "notice"
        /\ remote' = [remote EXCEPT ![s[1].path] = s[1].uid]
    BY <1>1, <1>3, <1>8 DEF AbsorbNotice, Reads
  <2>2. ASSUME NEW p \in Files, NewsOf(p) PROVE NewsOf(p)'
    <3>1. News(Tail(s), p, told[Main][p], IF s[1].path = p THEN s[1].uid ELSE remote[p],
               gone, call[Main])
      BY <1>1, <1>2, <2>1, <2>2, NewsHeard DEF NewsOf
    <3>2. remote'[p] = IF s[1].path = p THEN s[1].uid ELSE remote[p]
      BY <1>2, <2>1
    <3>3. News(Tail(s), p, told[Main][p], remote'[p], gone, call[Main])
      BY <3>1, <3>2
    <3> QED
      BY <1>1, <1>3, <2>1, <3>3 DEF NewsOf
  <2> QED
    BY <1>5, <2>2
<1>9. CASE PullReadsAnswer(Main) \/ PullReadsPiece(Main)
  <2>1. call[Main].op = "pull" /\ UNCHANGED remote
    BY <1>9 DEF PullReadsAnswer, PullReadsPiece
  <2>2. s[1].kind # "notice"
    <3>1. InPull(Main) /\ Len(s) \in Nat \ {0}
      BY <1>1, <1>2, <2>1, FirstRead DEF InCall
    <3>2. \A u, i : Part(u, i).kind = "frame"
      BY DEF Part
    <3> QED
      BY <1>1, <3>1, <3>2 DEF InPull
  <2>3. call'[Main] = None \/ call'[Main].op = "pull"
    BY <1>0, <1>2, <1>7, <1>9, PullGoesOn
  <2> QED
    BY <1>6, <1>7, <2>1, <2>2, <2>3 DEF Deletes
<1>10. CASE PushReadsReply(Main)
  <2>1. UNCHANGED remote /\ Head(s).kind # "notice"
    BY <1>1, <1>10 DEF PushReadsReply, Reads
  <2>2. call[Main] \in [op : {"push"}, path : Files, size : Sizes, sent : Nat]
    BY <1>0, <1>10, PushAnswer
  <2>3. call'[Main] = None \/ call'[Main].op = "push"
    <3>1. CASE GoesOn(Msg(Main), call[Main])
      <4>1. call' = [call EXCEPT ![Main].sent = call[Main].sent + 1]
        BY <1>10, <3>1 DEF PushReadsReply
      <4> QED
        BY <1>0, <1>2, <2>2, <4>1
    <3>2. CASE ~GoesOn(Msg(Main), call[Main])
      <4>1. PushEnds(Main) \/ Fails(Main)
        BY <1>10, <3>2 DEF PushReadsReply
      <4> QED
        BY <1>7, <4>1 DEF PushEnds, Fails
    <3> QED
      BY <3>1, <3>2
  <2> QED
    BY <1>3, <1>6, <1>7, <2>1, <2>3 DEF Deletes
<1>11. CASE DeleteReadsReply(Main)
  <2>1. call[Main].op = "delete" /\ Head(s).kind \in {"reply", "frame"}
    BY <1>1, <1>11 DEF DeleteReadsReply, Reads
  <2>2. call[Main] \in [op : {"delete"}, path : Files]
    BY <1>0, <1>2, <2>1 DEF Calls, None
  <2>3. s[1].kind = "reply"
    <3>1. InDelete(Main)
      BY <1>2, <2>1 DEF InCall
    <3>2. \A R : OneReply(s, R) => s[1].kind \in {"reply", "notice"}
      BY <1>1, <1>2, NoticeRead
    <3>3. OnlyNotices(s) => s[1].kind = "notice"
      BY <1>1, <1>2, NoticeRead
    <3> QED
      BY <1>3, <2>1, <3>1, <3>2, <3>3 DEF InDelete
  <2>4. CASE Fails(Main) /\ UNCHANGED remote
    BY <1>6, <1>7, <2>3, <2>4 DEF Fails
  <2>5. CASE ~(Fails(Main) /\ UNCHANGED remote)
    <3>1. /\ Ends(Main, [op |-> "delete", ok |-> TRUE, path |-> call[Main].path])
          /\ remote' = [remote EXCEPT ![call[Main].path] = 0]
          /\ s[1].res = "ok"
      BY <1>1, <1>3, <1>11, <2>5 DEF DeleteReadsReply
    <3>2. call'[Main] = None
      BY <1>7, <3>1
    <3>3. ASSUME NEW p \in Files, NewsOf(p) PROVE NewsOf(p)'
      <4>1. CASE call[Main].path = p
        <5>1. Deletes(call[Main], p) /\ remote'[p] = 0
          BY <1>2, <2>1, <2>2, <3>1, <4>1 DEF Deletes
        <5>2. News(Tail(s), p, told[Main][p], remote'[p], gone, call'[Main])
          BY <1>1, <1>2, <1>7, <2>3, <3>1, <3>2, <3>3, <5>1, NewsHeard DEF NewsOf
        <5> QED
          BY <1>1, <1>3, <5>2 DEF NewsOf
      <4>2. CASE call[Main].path # p
        <5>1. remote'[p] = remote[p]
          BY <1>2, <2>2, <3>1, <4>2
        <5>2. News(Tail(s), p, told[Main][p], remote[p], gone, call[Main])
          BY <1>1, <1>2, <2>3, <3>3, NewsHeard DEF NewsOf
        <5>3. News(Tail(s), p, told[Main][p], remote[p], gone, call'[Main])
          BY <1>7, <3>2, <5>2, NewsOtherwise
        <5> QED
          BY <1>1, <1>3, <5>1, <5>3 DEF NewsOf
      <4> QED
        BY <4>1, <4>2
    <3> QED
      BY <1>5, <3>3
  <2> QED
    BY <2>4, <2>5
<1> QED
  BY <1>8, <1>9, <1>10, <1>11 DEF ClientStep

(* What happens on the connections of the pool.                            *)
LEMMA NewsOfWorkers ==
  ASSUME WireInv, NewsInv, NEW w \in Workers, ServerStep(w) \/ ClientStep(w), UNCHANGED phase
  PROVE  NewsInv'
<1>0. w \in Conns /\ Main \in Conns /\ w # Main
  BY PoolAssumption DEF PoolAssumption
<1>1. call[w] = None \/ call[w].op = "pull"
  BY DEF WireInv, PoolPulls
<1>2. inbox \in [Conns -> Seq(Messages)] /\ call \in [Conns -> Calls] /\ None.op = "none"
  BY DEF WireInv, WireTypes, None
<1>3. CASE ServerStep(w)
  <2>1. Took(w) => Req(w).op = "pull"
    BY <1>0, <1>1, <1>2, ServerReads
  <2>2. Refuse(w) \/ ServePull(w)
    BY <1>3, <2>1 DEF ServerStep, ServePush, ServeFrame, ServeDelete
  <2>3. /\ UNCHANGED <<remote, told, gone, open, call>> /\ \E msgs : Step(w, msgs)
    BY <2>2 DEF Refuse, ServePull, client, server
  <2>4. inbox'[Main] = inbox[Main]
    BY <1>0, <1>2, <2>3 DEF Step
  <2> QED
    BY <2>3, <2>4, NewsAlone DEF NewsInv
<1>4. CASE ClientStep(w)
  <2>1. PullReadsAnswer(w) \/ PullReadsPiece(w)
    BY <1>1, <1>2, <1>4 DEF ClientStep, AbsorbNotice, PushReadsReply, DeleteReadsReply
  <2>2. UNCHANGED <<remote, told, gone, open>> /\ inbox' = [inbox EXCEPT ![w] = Tail(@)]
    BY <2>1 DEF PullReadsAnswer, PullReadsPiece, Reads, server
  <2>3. inbox'[Main] = inbox[Main]
    BY <1>0, <1>2, <2>2
  <2>4. call'[Main] = call[Main]
    BY <1>0, <1>2, <2>1 DEF PullReadsAnswer, PullReadsPiece, Fails, PullEnds, Ends
  <2> QED
    BY <2>2, <2>3, <2>4, NewsAlone DEF NewsInv
<1> QED
  BY <1>3, <1>4

(* Every step.                                                             *)
LEMMA NewsStep ==
  ASSUME WireInv, PoolInv, NewsInv, "noticeInPull" \notin Faults, [Next]_vars
  PROVE  NewsInv'
<1>0. Main \in Conns /\ Main \notin Workers /\ Conns = {Main} \cup Workers
  BY PoolAssumption DEF PoolAssumption
<1>1. inbox \in [Conns -> Seq(Messages)] /\ call \in [Conns -> Calls]
  BY DEF WireInv, WireTypes
<1>2. CASE PlanCalls
  <2>1. phase = "plan" /\ UNCHANGED phase /\ \E m, what : Ask(Main, m, what)
    BY <1>2 DEF PlanCalls, StartPull, StartPush, StartDelete
  <2> QED
    BY <2>1, NewsAsked
<1>3. CASE MainStep \/ BreakerTimesOut \/ UNCHANGED vars
  <2>1. UNCHANGED sessionVars
    BY <1>3 DEF MainStep, PlanFails, PlanDone, StartPool, Feed, StopFeeding, Return,
                BreakerTimesOut, vars
  <2>2. \/ UNCHANGED phase
        \/ phase = "plan" /\ call[Main] = None /\ phase' \in {"error", "nil", "pool"}
        \/ phase = "pool" /\ phase' \in {"error", "nil"}
    BY <1>3 DEF MainStep, PlanFails, PlanDone, StartPool, Feed, StopFeeding, Return,
                BreakerTimesOut, vars, context, Outcome
  <2> QED
    BY <2>1, <2>2, NewsAlone DEF NewsInv, sessionVars, server, wire, client
<1>4. CASE Cancel
  <2>1. UNCHANGED <<sessionVars, phase>>
    BY <1>4 DEF Cancel
  <2> QED
    BY <2>1, NewsAlone DEF NewsInv, sessionVars, server, wire, client
<1>5. CASE Others
  <2>1. phase = "plan" /\ UNCHANGED phase
    BY <1>5 DEF Others, context
  <2> QED
    BY <1>5, <2>1, NewsFromOthers DEF Others
<1>6. ASSUME NEW w \in Workers, WorkerStep(w) PROVE NewsInv'
  <2>1. UNCHANGED <<phase, remote, told, gone>>
    BY <1>6 DEF WorkerStep, Dial, DialSucceeds, DialFails, Take, TakeInVain, Exit, PullFails,
                Store, StartPull, Ask, Leaves, context, sessionVars, server, client
  <2>2. inbox' = inbox
    BY <1>6 DEF WorkerStep, Dial, DialSucceeds, DialFails, Take, TakeInVain, Exit, PullFails,
                Store, StartPull, Ask, Leaves, sessionVars, wire
  <2>3. call'[Main] = call[Main]
    <3>1. CASE Take(w)
      BY <1>0, <1>1, <3>1 DEF Take, StartPull, Ask
    <3>2. CASE ~Take(w)
      BY <1>6, <3>2 DEF WorkerStep, Dial, DialSucceeds, DialFails, TakeInVain, Exit, PullFails,
                        Store, Leaves, sessionVars, client
    <3> QED
      BY <3>1, <3>2
  <2>4. open' \subseteq open \/ (worker[w].at = "waiting" /\ open' = open \cup {w})
    BY <1>6 DEF WorkerStep, Dial, DialSucceeds, DialFails, Take, TakeInVain, Exit, PullFails,
                Store, StartPull, Ask, Leaves, sessionVars, client
  <2>5. worker[w].at = "waiting" => phase = "pool"
    BY AtWork
  <2> QED
    BY <1>0, <2>1, <2>2, <2>3, <2>4, <2>5, NewsAlone DEF NewsInv
<1>7. ASSUME NEW c \in Conns, OnConn(c) PROVE NewsInv'
  <2>1. UNCHANGED phase /\ (ServerStep(c) \/ ClientStep(c))
    BY <1>7 DEF OnConn, context
  <2> QED
    BY <1>0, <2>1, NewsServed, NewsRead, NewsOfWorkers
<1>8. ASSUME NEW c \in Conns, Breaks(c) PROVE NewsInv'
  <2>1. /\ UNCHANGED <<phase, remote, told, gone>> /\ open' = open \ {c}
        /\ inbox' = [inbox EXCEPT ![c] = <<>>]
        /\ IF call[c] # None THEN Fails(c) ELSE UNCHANGED call
    BY <1>8 DEF Breaks, Break, context
  <2>2. call'[Main] \in {None, call[Main]}
    BY <1>0, <1>1, <2>1 DEF Fails, Ends
  <2>3. CASE c = Main
    BY <2>1, <2>2, <2>3 DEF NewsInv
  <2>4. CASE c # Main
    <3>1. inbox'[Main] = inbox[Main]
      BY <1>0, <1>1, <2>1, <2>4
    <3> QED
      BY <2>1, <2>2, <3>1, NewsAlone DEF NewsInv
  <2> QED
    BY <2>3, <2>4
<1> QED
  BY <1>2, <1>3, <1>4, <1>5, <1>6, <1>7, <1>8 DEF Next

(* No news is lost: what the plan's connection was told last about a path  *)
(* is in session.remote, or has not been read, or a deletion of the path   *)
(* was the last there was, whatever was pushed and deleted meanwhile and   *)
(* however answers and notifications follow one another.                   *)
THEOREM NewsKeptTheorem ==
  ASSUME "noticeInPull" \notin Faults
  PROVE  Spec => []NewsKept
<1>0. Main \notin Workers /\ Conns = {Main} \cup Workers
  BY PoolAssumption DEF PoolAssumption
<1>1. Init => WireInv /\ NewsInv
  <2> SUFFICES ASSUME Init PROVE NewsInv
    BY WireInit
  <2>1. /\ open = {Main} /\ phase = "plan" /\ inbox[Main] = <<>> /\ call[Main] = None
        /\ told = [c \in Conns |-> [p \in Files |-> 0]]
    BY <1>0 DEF Init, SessionInit
  <2>2. ASSUME NEW p \in Files PROVE NewsOf(p)
    <3>1. told[Main][p] = 0 /\ ~Deletes(None, p)
      BY <1>0, <2>1 DEF Deletes, None
    <3> QED
      BY <2>1, <3>1 DEF NewsOf, News, LastTold
  <2> QED
    BY <1>0, <2>1, <2>2 DEF NewsInv
<1>2. WireInv /\ NewsInv /\ PoolInv /\ [Next]_vars => WireInv' /\ NewsInv'
  BY WireStep, NewsStep
<1>3. WireInv /\ NewsInv => NewsKept
  <2> SUFFICES ASSUME WireInv, NewsInv, NEW c \in open, NEW p \in Files
               PROVE  \/ told[c][p] = 0 \/ remote[p] = told[c][p] \/ told[c][p] \in gone
                      \/ \E k \in 1..Len(inbox[c]) : /\ inbox[c][k].kind = "notice"
                                                     /\ inbox[c][k].uid = told[c][p]
    BY DEF NewsKept
  <2>1. CASE c = Main
    BY <2>1 DEF NewsInv, NewsOf, News, Tells
  <2>2. CASE c # Main
    BY <1>0, <2>2 DEF NewsInv, WireInv, RestTypes
  <2> QED
    BY <2>1, <2>2
<1> QED
  BY <1>1, <1>2, <1>3, PoolTheorem, PTL DEF Spec
-----------------------------------------------------------------------------
(***************************************************************************)
(* Pulls.  What has been announced, or read and announced, is the content  *)
(* of the version that was asked for, and that content stays what it is:   *)
(* only the plan pushes, and it does not push while anything pulls.        *)
(***************************************************************************)
Text(u, v, G) == IF u \in G THEN <<>> ELSE [i \in 1..v[u].frames |-> Part(u, i)]

PullOf(c) ==
  LET k == call[c]
      s == inbox[c]
  IN  /\ result[c] # None => k = None
      /\ k.op = "pull" =>
           /\ k.uid <= last
           /\ k.left = 0 /\ s # <<>> /\ s[1].res = "ok" => s[1].pieces = Len(Text(k.uid, version, gone))
           /\ k.left > 0 => Len(k.got) + k.left = Len(Text(k.uid, version, gone))
      /\ Succeeded(c, "pull") => /\ result[c].uid \in 1..last
                                 /\ result[c].got = Text(result[c].uid, version, gone)

(* A worker pulls the job it has taken, or has pulled it.                  *)
JobOf(w) ==
  worker[w].at = "pulling" =>
    \/ call[w].op = "pull" /\ call[w].uid = worker[w].job
    \/ call[w] = None /\ (Ended(w, TRUE) => Succeeded(w, "pull") /\ result[w].uid = worker[w].job)

Waits == /\ \A w \in Workers : call[w] = None /\ result[w] = None
         /\ \A j \in Jobs : written[j] = {}

Stores == /\ NumJobs <= last /\ DOMAIN written = Jobs
          /\ \A j \in done : written[j] # {}
          /\ \A j \in Jobs : written[j] \subseteq {Text(j, version, gone)}

PullInv == /\ \A c \in Conns : PullOf(c)
           /\ \A w \in Workers : JobOf(w)
           /\ phase = "plan" => Waits
           /\ call[Main] # None => phase = "plan"
           /\ Stores

(* The contents of the versions there are do not change.                   *)
SameContents == last <= last' /\ \A u \in 1..last : Text(u, version', gone') = Text(u, version, gone)

(* A new version is of no account to the others.                           *)
LEMMA OldContents ==
  ASSUME WireInv, last <= last', last' \in Int, gone' \subseteq gone \cup {last + 1}, gone \subseteq gone',
         \A u \in Uids : u # last + 1 => version'[u] = version[u]
  PROVE  SameContents
<1>1. \A u \in 1..last : u \in Uids /\ u # last + 1
  BY BoundAssumption DEF WireInv, WireTypes, Uids, BoundAssumption
<1>2. ASSUME NEW u \in 1..last PROVE Text(u, version', gone') = Text(u, version, gone)
  <2>1. version'[u] = version[u] /\ (u \in gone' <=> u \in gone)
    BY <1>1
  <2> QED
    BY <2>1 DEF Text
<1> QED
  BY <1>2 DEF SameContents

(* A connection on which nothing is pulled or that no step is about.       *)
LEMMA PullAside ==
  ASSUME WireInv, SameContents, last' \in Int, NEW c \in Conns, PullOf(c),
         call'[c] = call[c], result'[c] = result[c],
         call[c].op = "pull" => inbox'[c] = inbox[c]
  PROVE  PullOf(c)'
<1>1. last \in Int /\ call[c] \in Calls
  BY DEF WireInv, WireTypes
<1>2. call[c].op = "pull" => call[c].uid \in 1..last
  <2>1. call[c].op = "pull" => call[c].uid \in Uids
    BY <1>1 DEF Calls, None
  <2> QED
    BY <1>1, <2>1 DEF PullOf, Uids
<1>3. Succeeded(c, "pull")' = Succeeded(c, "pull")
  BY DEF Succeeded, Ended
<1>4. call[c].op = "pull" => Text(call[c].uid, version', gone') = Text(call[c].uid, version, gone)
  BY <1>2 DEF SameContents
<1>5. Succeeded(c, "pull") => Text(result'[c].uid, version', gone') = Text(result[c].uid, version, gone)
  BY DEF SameContents, PullOf
<1>6. (call[c].op = "pull" => call'[c].uid <= last')
  BY <1>1, <1>2 DEF SameContents
<1>7. Succeeded(c, "pull") => result'[c].uid \in 1..last'
  BY <1>1 DEF SameContents, PullOf
<1>8. call[c].op = "pull" =>
        /\ Text(call'[c].uid, version', gone') = Text(call[c].uid, version, gone)
        /\ inbox'[c] = inbox[c]
  BY <1>4
<1>9. Succeeded(c, "pull") => result'[c].got = Text(result'[c].uid, version', gone')
  BY <1>5 DEF PullOf
<1> QED
  BY <1>3, <1>6, <1>7, <1>8, <1>9 DEF PullOf

(* A call ends.                                                            *)
LEMMA PullOver ==
  ASSUME WireInv, NEW c \in Conns, call'[c] = None,
         Succeeded(c, "pull")' => /\ result'[c].uid \in 1..last'
                                  /\ result'[c].got = Text(result'[c].uid, version', gone')
  PROVE  PullOf(c)'
  BY DEF PullOf, None

(* The steps of a pull: it fails, it returns what it was asked for, or it  *)
(* still waits for the rest of it.                                         *)
LEMMA PullReads ==
  ASSUME WireInv, NEW c \in Conns, PullOf(c), PullReadsAnswer(c) \/ PullReadsPiece(c)
  PROVE  \/ Fails(c)
         \/ PullEnds(c, Text(call[c].uid, version, gone))
         \/ /\ UNCHANGED result /\ call'[c].op = "pull" /\ call'[c].uid = call[c].uid
            /\ call'[c].left > 0
            /\ Len(call'[c].got) + call'[c].left = Len(Text(call[c].uid, version, gone))
<1> DEFINE k == call[c]
           s == inbox[c]
<1>1. k.op = "pull" /\ k # None /\ s # <<>>
  BY DEF PullReadsAnswer, PullReadsPiece, Reads
<1>2. call \in [Conns -> Calls] /\ s \in Seq(Messages) /\ InPull(c)
  BY <1>1 DEF WireInv, WireTypes, InCall
<1>3. k \in [op : {"pull"}, uid : Uids, left : Nat, got : Seq(Messages)]
  BY <1>1, <1>2 DEF Calls
<1>4. Msg(c) = s[1] /\ s[1] \in Messages
  BY <1>1, <1>2, FirstRead DEF Msg
<1>5. /\ Text(k.uid, version, gone) \in Seq(Messages) /\ Len(Text(k.uid, version, gone)) \in Nat
      /\ \A i \in 1..Len(Text(k.uid, version, gone)) : Text(k.uid, version, gone)[i] = Part(k.uid, i)
  <2>1. Content(k.uid) = Text(k.uid, version, gone)
    BY DEF Content, Text
  <2> QED
    BY <1>3, <2>1, ContentInOrder
<1>6. CASE PullReadsAnswer(c)
  <2>1. k.left = 0
    BY <1>6 DEF PullReadsAnswer
  <2>2. /\ k.got = <<>> /\ s[1].kind = "reply" /\ s[1].res \in {"err", "ok"}
        /\ s[1].res = "ok" => s[1].pieces = Len(Text(k.uid, version, gone))
    BY <1>1, <1>2, <1>3, <2>1 DEF InPull, PullOf
  <2>3. CASE s[1].res = "err"
    <3>1. IsError(Msg(c))
      BY <1>4, <2>2, <2>3 DEF IsError
    <3> QED
      BY <1>6, <3>1 DEF PullReadsAnswer
  <2>4. CASE s[1].res = "ok"
    <3> DEFINE n == Len(Text(k.uid, version, gone))
    <3>1. ~IsError(Msg(c)) /\ Announced(Msg(c)) = n
      BY <1>4, <2>2, <2>4 DEF IsError, Announced
    <3>2. CASE n = 0
      <4>1. Text(k.uid, version, gone) = <<>>
        BY <1>5, <3>2, Emptied
      <4>2. PullEnds(c, <<>>)
        BY <1>6, <3>1, <3>2 DEF PullReadsAnswer
      <4> QED
        BY <4>1, <4>2
    <3>3. CASE n # 0
      <4>1. call' = [call EXCEPT ![c].left = n] /\ UNCHANGED result
        BY <1>6, <3>1, <3>3 DEF PullReadsAnswer
      <4>2. n \in Nat \ {0}
        BY <1>5, <3>3
      <4> HIDE DEF n
      <4>3. /\ call'[c].op = "pull" /\ call'[c].uid = k.uid
            /\ call'[c].left = n /\ call'[c].got = k.got
        BY <1>2, <1>3, <4>1
      <4>4. \A a \in Nat \ {0} : a > 0 /\ 0 + a = a
        OBVIOUS
      <4>5. Len(call'[c].got) + call'[c].left = n /\ n > 0
        BY <2>2, <4>2, <4>3, <4>4
      <4> QED
        BY <4>1, <4>3, <4>5 DEF n
    <3> QED
      BY <3>2, <3>3
  <2> QED
    BY <2>2, <2>3, <2>4
<1>7. CASE PullReadsPiece(c)
  <2> DEFINE got == Append(k.got, s[1])
  <2>1. k.left > 0 /\ k.left # 0
    BY <1>3, <1>7 DEF PullReadsPiece
  <2>2. /\ Len(s) = k.left /\ s[1] = Part(k.uid, Len(k.got) + 1)
        /\ \A i \in 1..Len(k.got) : k.got[i] = Part(k.uid, i)
        /\ Len(k.got) + k.left = Len(Text(k.uid, version, gone))
    <3>1. /\ Len(s) = k.left /\ \A i \in 1..Len(s) : s[i] = Part(k.uid, Len(k.got) + i)
          /\ \A i \in 1..Len(k.got) : k.got[i] = Part(k.uid, i)
      BY <1>2, <2>1 DEF InPull
    <3>2. 1 \in 1..Len(s)
      BY <1>3, <2>1, <3>1
    <3> QED
      BY <1>1, <2>1, <3>1, <3>2 DEF PullOf
  <2>3. /\ got \in Seq(Messages) /\ Len(got) = Len(k.got) + 1 /\ Len(k.got) \in Nat
        /\ \A i \in 1..Len(k.got) : got[i] = k.got[i]
        /\ got[Len(k.got) + 1] = s[1]
    BY <1>3, <1>4, Appended
  <2>4. CASE k.left > 1
    <3>1. call' = [call EXCEPT ![c] = [k EXCEPT !.left = k.left - 1, !.got = got]]
          /\ UNCHANGED result
      BY <1>4, <1>7, <2>4 DEF PullReadsPiece
    <3> HIDE DEF got
    <3>2. /\ call'[c].op = "pull" /\ call'[c].uid = k.uid
          /\ call'[c].left = k.left - 1 /\ call'[c].got = got
      BY <1>2, <1>3, <3>1
    <3>3. k.left - 1 > 0 /\ Len(got) + (k.left - 1) = Len(k.got) + k.left
      <4>1. \A a, b, d \in Nat : a > 1 /\ d = b + 1 => a - 1 > 0 /\ d + (a - 1) = b + a
        OBVIOUS
      <4>2. k.left \in Nat /\ Len(got) \in Nat
        BY <1>3, <2>3
      <4> QED
        BY <2>3, <2>4, <4>1, <4>2
    <3> QED
      BY <2>2, <3>1, <3>2, <3>3
  <2>5. CASE ~(k.left > 1)
    <3>1. Len(got) = Len(Text(k.uid, version, gone))
      BY <1>3, <2>1, <2>2, <2>3, <2>5
    <3>2. \A i \in 1..Len(got) : got[i] = Part(k.uid, i)
      BY <2>2, <2>3
    <3> HIDE DEF got
    <3>3. got = Text(k.uid, version, gone)
      BY <1>5, <2>3, <3>1, <3>2, SeqEqual
    <3>4. PullEnds(c, got) \/ Fails(c)
      BY <1>4, <1>7, <2>5, Zenon DEF PullReadsPiece, got
    <3> QED
      BY <3>3, <3>4
  <2> QED
    BY <2>4, <2>5
<1> QED
  BY <1>6, <1>7

(* The steps that leave what is pulled alone, and the files.               *)
LEMMA PullsKept ==
  ASSUME WireInv, PullInv, SameContents, last' \in Int, UNCHANGED <<written, done>>,
         \A c \in Conns : PullOf(c)', \A w \in Workers : JobOf(w)',
         phase' = "plan" => phase = "plan" /\ \A w \in Workers : call'[w] = None /\ result'[w] = None,
         call'[Main] # None => phase' = "plan"
  PROVE  PullInv'
<1>1. last \in Int /\ NumJobs \in Int
  BY PoolAssumption DEF WireInv, WireTypes, PoolAssumption
<1>2. \A j \in Jobs : Text(j, version', gone') = Text(j, version, gone)
  BY <1>1 DEF PullInv, Stores, SameContents, Jobs
<1>3. Stores'
  BY <1>1, <1>2 DEF PullInv, Stores, SameContents
<1>4. phase' = "plan" => Waits'
  BY DEF PullInv, Waits
<1> QED
  BY <1>3, <1>4 DEF PullInv

(* Nobody is on the wire.                                                  *)
LEMMA PullsAlone ==
  ASSUME WireInv, PullInv, UNCHANGED <<version, last, gone, inbox, call, result, written, done>>,
         \A w \in Workers : JobOf(w)', phase' = "plan" => phase = "plan",
         phase = "plan" /\ phase' # "plan" => call[Main] = None
  PROVE  PullInv'
<1>1. SameContents /\ last' \in Int
  BY DEF SameContents, WireInv, WireTypes
<1>2. \A c \in Conns : PullOf(c)'
  <2> SUFFICES ASSUME NEW c \in Conns PROVE PullOf(c)'
    OBVIOUS
  <2> QED
    BY <1>1, PullAside DEF PullInv
<1> QED
  BY <1>1, <1>2, PullsKept DEF PullInv, Waits

(* A worker that is not about to pull or has what it pulled.               *)
LEMMA JobKept ==
  ASSUME PullInv, NEW w \in Workers, worker'[w].at = "pulling" => worker'[w] = worker[w],
         call'[w] = call[w], result'[w] = result[w]
  PROVE  JobOf(w)'
<1>1. Succeeded(w, "pull")' <=> Succeeded(w, "pull")
  BY DEF Succeeded, Ended
<1>2. Ended(w, TRUE)' <=> Ended(w, TRUE)
  BY DEF Ended
<1> QED
  BY <1>1, <1>2 DEF PullInv, JobOf

(* A pull starts.                                                          *)
LEMMA PullStarts ==
  ASSUME WireInv, PullInv, "noticeInPull" \notin Faults, NEW c \in Conns, NEW u \in 1..last,
         StartPull(c, u)
  PROVE  /\ \A d \in Conns : PullOf(d)' /\ (d # c => call'[d] = call[d] /\ result'[d] = result[d])
         /\ call'[c].op = "pull" /\ call'[c].uid = u
         /\ UNCHANGED <<version, last, gone>> /\ SameContents /\ last' \in Int
<1> DEFINE what == [op |-> "pull", uid |-> u, left |-> 0, got |-> <<>>]
<1>1. /\ inbox[c] = <<>> /\ call' = [call EXCEPT ![c] = what]
      /\ result' = [result EXCEPT ![c] = None] /\ UNCHANGED <<version, last, gone, inbox>>
  BY DEF StartPull, Ask, server
<1>2. /\ call \in [Conns -> Calls] /\ DOMAIN result = Conns /\ last \in Int
  BY DEF WireInv, WireTypes, RestTypes
<1>3. SameContents /\ last' \in Int
  BY <1>1, <1>2 DEF SameContents
<1>4. /\ what.op = "pull" /\ what.uid = u /\ what.left = 0
      /\ call'[c] = what /\ result'[c] = None
      /\ \A d \in Conns : d # c => call'[d] = call[d] /\ result'[d] = result[d]
  BY <1>1, <1>2
<1> HIDE DEF what
<1>5. PullOf(c)'
  <2>1. ~Succeeded(c, "pull")'
    BY <1>4 DEF Succeeded, Ended
  <2>2. call'[c].uid <= last' /\ ~(call'[c].left > 0) /\ inbox'[c] = <<>>
    BY <1>1, <1>2, <1>4
  <2> QED
    BY <1>4, <2>1, <2>2 DEF PullOf
<1>6. ASSUME NEW d \in Conns, d # c PROVE PullOf(d)'
  BY <1>1, <1>3, <1>4, <1>6, PullAside DEF PullInv
<1> QED
  BY <1>1, <1>3, <1>4, <1>5, <1>6

(* A push or a deletion starts.                                            *)
LEMMA PlanAsks ==
  ASSUME WireInv, PullInv, NEW c \in Conns, NEW m, NEW what, Ask(c, m, what), what.op # "pull"
  PROVE  /\ \A d \in Conns : PullOf(d)' /\ (d # c => call'[d] = call[d] /\ result'[d] = result[d])
         /\ UNCHANGED <<version, last, gone>> /\ SameContents /\ last' \in Int
<1>1. /\ call' = [call EXCEPT ![c] = what]
      /\ result' = [result EXCEPT ![c] = None] /\ UNCHANGED <<version, last, gone, inbox>>
  BY DEF Ask, server
<1>2. /\ call \in [Conns -> Calls] /\ DOMAIN result = Conns /\ last \in Int
  BY DEF WireInv, WireTypes, RestTypes
<1>3. SameContents /\ last' \in Int
  BY <1>1, <1>2 DEF SameContents
<1>4. /\ call'[c] = what /\ result'[c] = None
      /\ \A d \in Conns : d # c => call'[d] = call[d] /\ result'[d] = result[d]
  BY <1>1, <1>2
<1>5. PullOf(c)'
  <2>1. ~Succeeded(c, "pull")'
    BY <1>4 DEF Succeeded, Ended
  <2> QED
    BY <1>4, <2>1 DEF PullOf
<1>6. ASSUME NEW d \in Conns, d # c PROVE PullOf(d)'
  BY <1>1, <1>3, <1>4, <1>6, PullAside DEF PullInv
<1> QED
  BY <1>1, <1>3, <1>4, <1>5, <1>6

(* The server answers.                                                     *)
LEMMA PullServed ==
  ASSUME WireInv, PullInv, "noticeInPull" \notin Faults, NEW c \in Conns, ServerStep(c),
         UNCHANGED <<pool, phase>>
  PROVE  PullInv'
<1>0. /\ UNCHANGED <<open, call, result, worker, done, written>> /\ Took(c)
      /\ Main \in Conns /\ Main \notin Workers /\ Conns = {Main} \cup Workers
  BY PoolAssumption DEF PoolAssumption, ServerStep, Refuse, ServePull, ServePush, ServeFrame,
                        ServeDelete, client, pool
<1>1. /\ inbox \in [Conns -> Seq(Messages)] /\ last \in Int /\ MaxUid \in Int
  BY BoundAssumption DEF WireInv, WireTypes, BoundAssumption
<1>2. /\ \A w \in Workers : JobOf(w)' /\ (phase' = "plan" => call'[w] = None /\ result'[w] = None)
      /\ call'[Main] # None => phase' = "plan"
  BY <1>0, JobKept DEF PullInv, Waits
<1>3. ASSUME SameContents, last' \in Int, PullOf(c)',
             \A d \in Conns \ {c} : call[d].op = "pull" => inbox'[d] = inbox[d]
      PROVE  PullInv'
  <2>1. ASSUME NEW d \in Conns, d # c PROVE PullOf(d)'
    BY <1>0, <1>3, <2>1, PullAside DEF PullInv
  <2> QED
    BY <1>0, <1>2, <1>3, <2>1, PullsKept DEF PullInv
<1>4. CASE Refuse(c)
  <2> DEFINE m == Reply("err", 0)
  <2>1. UNCHANGED <<version, last, gone>> /\ Step(c, <<m>>)
    BY <1>4 DEF Refuse
  <2>2. m \in Messages /\ m.res = "err"
    BY MessageKinds
  <2> HIDE DEF m
  <2>3. SameContents /\ last' \in Int
    BY <1>1, <2>1 DEF SameContents
  <2>4. inbox'[c] = Append(inbox[c], m) /\ \A d \in Conns : d # c => inbox'[d] = inbox[d]
    BY <2>1, <2>2, Sending
  <2>5. PullOf(c)'
    <3>1. CASE call[c].op = "pull"
      <4>1. inbox[c] = <<>> /\ ~(call[c].left > 0) /\ call[c].uid <= last
        <5>1. inbox[c] = <<>> /\ call[c].left = 0
          BY <1>0, <3>1, ServerReads
        <5> QED
          BY <3>1, <5>1 DEF PullInv, PullOf
      <4>2. inbox'[c][1].res # "ok"
        BY <2>2, <2>4, <4>1
      <4>3. result[c] = None
        BY <3>1 DEF PullInv, PullOf, None
      <4>4. ~Succeeded(c, "pull")'
        BY <1>0, <4>3 DEF Succeeded, Ended
      <4> QED
        BY <1>0, <2>1, <4>1, <4>2, <4>3, <4>4 DEF PullOf
    <3>2. CASE call[c].op # "pull"
      BY <1>0, <2>3, <3>2, PullAside DEF PullInv
    <3> QED
      BY <3>1, <3>2
  <2> QED
    BY <1>3, <2>3, <2>4, <2>5
<1>5. CASE ServePull(c)
  <2>1. UNCHANGED <<version, last, gone>> /\ Req(c).op = "pull"
    BY <1>5 DEF ServePull, server
  <2>2. call[c].op = "pull" /\ call[c].left = 0 /\ ~(call[c].left > 0)
    <3>1. call[c].op = "pull" /\ call[c].left = 0
      BY <1>0, <2>1, ServerReads
    <3> QED
      BY <3>1
  <2>3. SameContents /\ last' \in Int
    BY <1>1, <2>1 DEF SameContents
  <2>4. /\ inbox'[c][1].pieces = Len(Text(call[c].uid, version, gone))
        /\ \A d \in Conns : d # c => inbox'[d] = inbox[d]
    BY <1>5, AnswerSent DEF Content, Text
  <2>5. result[c] = None /\ call[c].uid <= last
    BY <2>2 DEF PullInv, PullOf, None
  <2>6. ~Succeeded(c, "pull")'
    BY <1>0, <2>5 DEF Succeeded, Ended
  <2>7. PullOf(c)'
    BY <1>0, <2>1, <2>2, <2>4, <2>5, <2>6 DEF PullOf
  <2> QED
    BY <1>3, <2>3, <2>4, <2>7
<1>6. CASE ServePush(c) \/ ServeDelete(c)
  <2>1. /\ Req(c).op \in {"push", "delete"} /\ last < MaxUid /\ last' = last + 1 /\ CanTell(c)
        /\ gone' \subseteq gone \cup {last + 1} /\ gone \subseteq gone'
        /\ \E v : version' = [version EXCEPT ![last + 1] = v]
        /\ \E p, msgs : Tell(c, p, last + 1, msgs)
    <3>1. CASE ServePush(c)
      BY <3>1 DEF ServePush
    <3>2. CASE ServeDelete(c)
      BY <3>2 DEF ServeDelete
    <3> QED
      BY <1>6, <3>1, <3>2
  <2>2. last <= last' /\ last' \in Int
    BY <1>1, <2>1
  <2>3. SameContents
    BY <2>1, <2>2, OldContents DEF WireInv, WireTypes
  <2>4. \A d \in Conns \ {c} : call[d].op = "pull" => inbox'[d] = inbox[d]
    <3>1. PICK p, msgs : Tell(c, p, last + 1, msgs)
      BY <2>1
    <3> QED
      BY <2>1, <3>1 DEF Tell, CanTell
  <2>5. call[c].op # "pull"
    BY <1>0, <2>1, ServerReads
  <2>6. PullOf(c)'
    BY <1>0, <2>2, <2>3, <2>5, PullAside DEF PullInv
  <2> QED
    BY <1>3, <2>2, <2>3, <2>4, <2>6
<1>7. CASE ServeFrame(c)
  <2>1. Req(c).op = "frame" /\ UNCHANGED <<last, gone>>
    BY <1>7 DEF ServeFrame
  <2>2. call[c].op = "push"
    BY <1>0, <2>1, ServerReads
  <2>3. c = Main /\ call[Main] # None
    BY <1>0, <2>2 DEF WireInv, PoolPulls, None
  <2>4. phase = "plan" /\ Waits
    BY <2>3 DEF PullInv
  <2>5. ASSUME NEW d \in Conns PROVE PullOf(d)'
    <3>1. call[d].op # "pull" /\ result[d] = None
      BY <1>0, <2>2, <2>3, <2>4 DEF Waits, PullInv, PullOf, None
    <3> QED
      BY <1>0, <3>1 DEF PullOf, Succeeded, Ended
  <2>6. Stores' /\ Waits'
    BY <1>0, <2>1, <2>4 DEF PullInv, Stores, Waits
  <2> QED
    BY <1>0, <1>2, <2>5, <2>6 DEF PullInv
<1> QED
  BY <1>4, <1>5, <1>6, <1>7 DEF ServerStep

(* Another device pushes.                                                  *)
LEMMA PullHears ==
  ASSUME WireInv, PullInv, {"noticeInPull", "deletedMeanwhile"} \cap Faults = {},
         NEW p \in Files, NEW n \in Sizes, NEW deletes \in BOOLEAN, OtherDevice(p, n, deletes),
         UNCHANGED <<pool, phase>>
  PROVE  PullInv'
<1>1. /\ last < MaxUid /\ last' = last + 1 /\ UNCHANGED <<gone, call, result>>
      /\ \E v : version' = [version EXCEPT ![last + 1] = v]
      /\ \A d \in open : call[d].op # "pull"
      /\ \A d \in Conns \ open : inbox'[d] = inbox[d]
      /\ UNCHANGED <<worker, done, written>>
  BY DEF OtherDevice, client, pool
<1>2. last \in Int /\ last <= last' /\ last' \in Int
  BY <1>1 DEF WireInv, WireTypes
<1>3. SameContents
  BY <1>1, <1>2, OldContents DEF WireInv, WireTypes
<1>4. \A w \in Workers : JobOf(w)'
  BY <1>1, PoolAssumption, JobKept DEF PoolAssumption
<1>5. ASSUME NEW d \in Conns PROVE PullOf(d)'
  BY <1>1, <1>2, <1>3, PullAside DEF PullInv
<1> QED
  BY <1>1, <1>2, <1>3, <1>4, <1>5, PullsKept DEF PullInv, Waits

(* The client reads.                                                       *)
LEMMA PullRead ==
  ASSUME WireInv, PullInv, NEW c \in Conns, ClientStep(c), UNCHANGED <<pool, phase>>
  PROVE  PullInv'
<1>0. /\ UNCHANGED <<version, last, gone, worker, done, written>> /\ call[c] # None
      /\ inbox' = [inbox EXCEPT ![c] = Tail(inbox[c])]
      /\ Main \in Conns /\ Main \notin Workers /\ Conns = {Main} \cup Workers
  BY PoolAssumption
     DEF PoolAssumption, ClientStep, AbsorbNotice, PullReadsAnswer, PullReadsPiece,
         PushReadsReply, DeleteReadsReply, Reads, server, pool
<1>1. /\ inbox \in [Conns -> Seq(Messages)] /\ call \in [Conns -> Calls] /\ DOMAIN result = Conns
      /\ SameContents /\ last' \in Int
  BY <1>0 DEF WireInv, WireTypes, RestTypes, SameContents
<1>2. result[c] = None /\ PullOf(c)
  BY <1>0 DEF PullInv, PullOf
<1>3. \A r : Ends(c, r) => call'[c] = None /\ result'[c] = r
  BY <1>1 DEF Ends
<1>4. ASSUME PullOf(c)', c \in Workers => JobOf(c)',
             \A d \in Conns : d # c => call'[d] = call[d] /\ result'[d] = result[d]
      PROVE  PullInv'
  <2>1. ASSUME NEW d \in Conns, d # c PROVE PullOf(d)'
    <3>1. inbox'[d] = inbox[d]
      BY <1>0, <1>1, <2>1
    <3> QED
      BY <1>1, <1>4, <2>1, <3>1, PullAside DEF PullInv
  <2>2. ASSUME NEW w \in Workers, w # c PROVE JobOf(w)'
    BY <1>0, <1>4, <2>2, JobKept
  <2>3. phase = "plan" => c \notin Workers
    BY <1>0 DEF PullInv, Waits
  <2> QED
    BY <1>0, <1>1, <1>4, <2>1, <2>2, <2>3, PullsKept DEF PullInv, Waits
<1>5. \A d \in Conns : d # c => call'[d] = call[d] /\ result'[d] = result[d]
  BY <1>1 DEF ClientStep, AbsorbNotice, PullReadsAnswer, PullReadsPiece, PushReadsReply,
              DeleteReadsReply, Fails, PullEnds, PushEnds, Ends
<1>6. call[c].op \in {"push", "delete"} => c \notin Workers
  BY <1>0 DEF WireInv, PoolPulls
<1>7. CASE AbsorbNotice(c)
  <2>1. UNCHANGED <<call, result>> /\ call[c].op \in {"push", "delete"}
    BY <1>7 DEF AbsorbNotice
  <2>2. PullOf(c)'
    BY <1>1, <1>2, <2>1, PullAside
  <2> QED
    BY <1>4, <1>5, <1>6, <2>1, <2>2
<1>8. CASE PullReadsAnswer(c) \/ PullReadsPiece(c)
  <2>1. call[c].op = "pull"
    BY <1>8 DEF PullReadsAnswer, PullReadsPiece
  <2>2. call[c].uid \in 1..last
    <3>1. call[c].uid \in Uids
      BY <1>1, <2>1 DEF Calls, None
    <3> QED
      BY <1>0, <1>1, <1>2, <2>1, <3>1 DEF PullOf, Uids
  <2>3. worker[c].at = "pulling" /\ c \in Workers => call[c].uid = worker[c].job
    <3>1. call[c] # None
      BY <1>0
    <3> QED
      BY <3>1, Zenon DEF PullInv, JobOf
  <2>4. CASE Fails(c)
    <3>1. call'[c] = None /\ result'[c].ok = FALSE
      BY <1>3, <2>4 DEF Fails
    <3>2. ~Succeeded(c, "pull")' /\ ~Ended(c, TRUE)'
      BY <3>1 DEF Succeeded, Ended
    <3>3. PullOf(c)'
      BY <3>1, <3>2, PullOver
    <3> QED
      BY <1>4, <1>5, <3>1, <3>2, <3>3 DEF JobOf
  <2>5. CASE PullEnds(c, Text(call[c].uid, version, gone))
    <3> DEFINE r == [op |-> "pull", ok |-> TRUE, uid |-> call[c].uid,
                     got |-> Text(call[c].uid, version, gone)]
    <3>1. call'[c] = None /\ result'[c] = r
      BY <1>3, <2>5 DEF PullEnds
    <3>2. /\ result'[c].op = "pull" /\ result'[c].ok = TRUE /\ result'[c].uid = call[c].uid
          /\ result'[c].got = Text(call[c].uid, version, gone)
      BY <3>1
    <3> HIDE DEF r
    <3>3. PullOf(c)'
      BY <1>0, <2>2, <3>1, <3>2, PullOver
    <3>4. Succeeded(c, "pull")'
      BY <3>2 DEF Succeeded, Ended, None
    <3> QED
      BY <1>0, <1>4, <1>5, <2>3, <3>1, <3>2, <3>3, <3>4 DEF JobOf
  <2>6. CASE /\ UNCHANGED result /\ call'[c].op = "pull" /\ call'[c].uid = call[c].uid
             /\ call'[c].left > 0
             /\ Len(call'[c].got) + call'[c].left = Len(Text(call[c].uid, version, gone))
    <3>1. ~Succeeded(c, "pull")' /\ result'[c] = None
      BY <1>2, <2>6 DEF Succeeded, Ended
    <3>2. call'[c].left # 0
      <4>1. \A a : a > 0 => a # 0
        OBVIOUS
      <4> QED
        BY <2>6, <4>1
    <3>3. PullOf(c)'
      BY <1>0, <1>1, <2>2, <2>6, <3>1, <3>2 DEF PullOf
    <3> QED
      BY <1>0, <1>4, <1>5, <2>3, <2>6, <3>3 DEF JobOf
  <2> QED
    BY <1>2, <1>8, <2>4, <2>5, <2>6, PullReads
<1>9. CASE PushReadsReply(c)
  <2>1. call[c] \in [op : {"push"}, path : Files, size : Sizes, sent : Nat]
    BY <1>9, PushAnswer
  <2>2. CASE GoesOn(Msg(c), call[c])
    <3>1. call' = [call EXCEPT ![c].sent = call[c].sent + 1] /\ UNCHANGED result
      BY <1>9, <2>2 DEF PushReadsReply
    <3>2. call'[c].op = "push"
      BY <1>1, <2>1, <3>1
    <3>3. ~Succeeded(c, "pull")' /\ result'[c] = None
      BY <1>2, <3>1 DEF Succeeded, Ended
    <3>4. PullOf(c)'
      BY <3>2, <3>3 DEF PullOf
    <3> QED
      BY <1>4, <1>5, <1>6, <2>1, <3>4
  <2>3. CASE ~GoesOn(Msg(c), call[c])
    <3>1. PushEnds(c) \/ Fails(c)
      BY <1>9, <2>3 DEF PushReadsReply
    <3>2. call'[c] = None /\ result'[c].op = "push"
      BY <1>3, <2>1, <3>1 DEF PushEnds, Fails
    <3>3. PullOf(c)'
      BY <3>2, PullOver DEF Succeeded
    <3> QED
      BY <1>4, <1>5, <1>6, <2>1, <3>3
  <2> QED
    BY <2>2, <2>3
<1>10. CASE DeleteReadsReply(c)
  <2>1. call[c].op = "delete"
    BY <1>10 DEF DeleteReadsReply
  <2>2. call'[c] = None /\ result'[c].op = "delete"
    BY <1>3, <1>10, <2>1 DEF DeleteReadsReply, Fails
  <2>3. PullOf(c)'
    BY <2>2, PullOver DEF Succeeded
  <2> QED
    BY <1>4, <1>5, <1>6, <2>1, <2>3
<1> QED
  BY <1>7, <1>8, <1>9, <1>10 DEF ClientStep

(* A call that is broken off fails.                                        *)
LEMMA PullBroken ==
  ASSUME WireInv, PullInv, NEW c \in Conns, SameContents, last' \in Int,
         \/ /\ call[c] # None /\ call'[c] = None
            /\ result'[c] = [op |-> call[c].op, ok |-> FALSE]
         \/ call[c] = None /\ call'[c] = None /\ result'[c] = result[c]
  PROVE  PullOf(c)' /\ (c \in Workers /\ UNCHANGED worker => JobOf(c)')
<1>1. CASE call[c] # None
  <2>1. result'[c].ok = FALSE
    BY <1>1
  <2>2. ~Succeeded(c, "pull")' /\ ~Ended(c, TRUE)'
    BY <2>1 DEF Succeeded, Ended
  <2> QED
    BY <1>1, <2>2, PullOver DEF JobOf
<1>2. CASE call[c] = None
  <2>1. PullOf(c)'
    BY <1>2, PullAside DEF PullInv, None
  <2> QED
    BY <1>2, <2>1, JobKept
<1> QED
  BY <1>1, <1>2

(* A connection breaks.                                                    *)
LEMMA PullsBroken ==
  ASSUME WireInv, PullInv, UNCHANGED <<pool, phase>>, \E c \in Conns : Break(c)
  PROVE  PullInv'
<1>0. /\ UNCHANGED <<version, last, gone, worker, done, written>> /\ Main \in Conns
      /\ Main \notin Workers /\ Conns = {Main} \cup Workers
  BY PoolAssumption DEF PoolAssumption, Break, pool
<1>1. /\ inbox \in [Conns -> Seq(Messages)] /\ call \in [Conns -> Calls] /\ DOMAIN result = Conns
      /\ SameContents /\ last' \in Int
  BY <1>0 DEF WireInv, WireTypes, RestTypes, SameContents
<1>2. ASSUME NEW d \in Conns
      PROVE  PullOf(d)' /\ (d \in Workers => JobOf(d)')
             /\ (call[d] = None => call'[d] = None /\ result'[d] = result[d])
  <2>1. ASSUME Break(d)
        PROVE  PullOf(d)' /\ (d \in Workers => JobOf(d)')
               /\ (call[d] = None => call'[d] = None /\ result'[d] = result[d])
    <3>1. IF call[d] # None THEN Fails(d) ELSE UNCHANGED <<call, result>>
      BY <2>1 DEF Break
    <3>2. \/ /\ call[d] # None /\ call'[d] = None
             /\ result'[d] = [op |-> call[d].op, ok |-> FALSE]
          \/ call[d] = None /\ call'[d] = None /\ result'[d] = result[d]
      BY <1>1, <3>1 DEF Fails, Ends
    <3> QED
      BY <1>0, <1>1, <3>2, PullBroken
  <2>2. ASSUME NEW c \in Conns, Break(c), c # d
        PROVE  PullOf(d)' /\ (d \in Workers => JobOf(d)')
               /\ (call[d] = None => call'[d] = None /\ result'[d] = result[d])
    <3>1. /\ inbox' = [inbox EXCEPT ![c] = <<>>]
          /\ IF call[c] # None THEN Fails(c) ELSE UNCHANGED <<call, result>>
      BY <2>2 DEF Break
    <3>2. inbox'[d] = inbox[d] /\ call'[d] = call[d] /\ result'[d] = result[d]
      BY <1>1, <2>2, <3>1 DEF Fails, Ends
    <3> QED
      BY <1>0, <1>1, <3>2, PullAside, JobKept DEF PullInv
  <2> QED
    BY <2>1, <2>2
<1>3. call'[Main] # None => phase' = "plan"
  BY <1>0, <1>2 DEF PullInv
<1> QED
  BY <1>0, <1>1, <1>2, <1>3, PullsKept DEF PullInv, Waits

(* The steps of a worker: it takes a job and pulls it, and it writes what  *)
(* it has pulled.                                                          *)
LEMMA PullWorks ==
  ASSUME WireInv, PoolInv, PullInv, "noticeInPull" \notin Faults, NEW w \in Workers, WorkerStep(w)
  PROVE  PullInv'
<1>0. /\ UNCHANGED <<version, last, gone, phase>> /\ w \in Conns /\ w # Main
      /\ Main \in Conns /\ Conns = {Main} \cup Workers
  BY PoolAssumption
     DEF PoolAssumption, WorkerStep, Dial, DialSucceeds, DialFails, Take, TakeInVain, Exit,
         PullFails, Store, StartPull, Ask, Leaves, sessionVars, server, context
<1>1. worker[w] \in Positions /\ phase = "pool" /\ phase # "plan"
  <2>1. worker[w].at \notin {"off", "exited"}
    BY DEF WorkerStep, Dial, DialSucceeds, DialFails, Take, TakeInVain, Exit, PullFails, Store, Pulled
  <2>2. phase = "pool"
    BY <2>1, AtWork
  <2> QED
    BY <2>2 DEF PoolInv, PoolTypes
<1>2. ASSUME NEW to \in Positions, Goes(w, to)
      PROVE  worker'[w] = to /\ \A v \in Workers \ {w} : worker'[v] = worker[v]
  BY <1>2, OneGoes DEF PoolInv
<1>3. CASE Take(w)
  <2> DEFINE j == Head(jobsCh)
             to == [worker[w] EXCEPT !.at = "pulling", !.job = j]
  <2>1. /\ jobsCh # <<>> /\ StartPull(w, j) /\ Goes(w, to) /\ UNCHANGED <<written, done>>
    BY <1>3 DEF Take
  <2>2. j \in Jobs /\ j \in 1..last
    <3>1. jobsCh \in Seq(Jobs) /\ last \in Int /\ NumJobs \in Int /\ NumJobs <= last
      BY PoolAssumption DEF PoolInv, PoolTypes, PullInv, Stores, WireInv, WireTypes, PoolAssumption
    <3>2. j \in Jobs
      BY <2>1, <3>1
    <3> QED
      BY <3>1, <3>2 DEF Jobs
  <2>3. to \in Positions /\ to.job = j
    BY <1>1, <2>2, NextPositions DEF Positions
  <2> HIDE DEF j, to
  <2>4. worker'[w] = to /\ \A v \in Workers \ {w} : worker'[v] = worker[v]
    BY <1>2, <2>1, <2>3
  <2>5. /\ \A d \in Conns : PullOf(d)' /\ (d # w => call'[d] = call[d] /\ result'[d] = result[d])
        /\ call'[w].op = "pull" /\ call'[w].uid = j /\ SameContents /\ last' \in Int
    BY <1>0, <2>1, <2>2, PullStarts
  <2>6. JobOf(w)'
    BY <2>3, <2>4, <2>5 DEF JobOf
  <2>7. ASSUME NEW v \in Workers, v # w PROVE JobOf(v)'
    BY <1>0, <2>4, <2>5, <2>7, JobKept
  <2> QED
    BY <1>0, <1>1, <2>1, <2>5, <2>6, <2>7, PullsKept DEF PullInv
<1>4. CASE ~Take(w)
  <2>1. /\ UNCHANGED <<inbox, call, result>>
        /\ \E to \in Positions : Goes(w, to) /\ to.at # "pulling"
    <3>1. UNCHANGED <<inbox, call, result>>
      BY <1>4 DEF WorkerStep, Dial, DialSucceeds, DialFails, TakeInVain, Exit, PullFails, Store,
                  Leaves, sessionVars, wire, client
    <3> DEFINE k == worker[w]
    <3>2. \A to \in {[k EXCEPT !.at = "exited"], [k EXCEPT !.at = "ready"],
                     [k EXCEPT !.at = "dialing", !.attempt = @ + 1],
                     [k EXCEPT !.at = "waiting", !.generation = breaker.generation]} :
            to \in Positions /\ to.at # "pulling"
      <4>1. breaker.generation \in Nat
        BY BreakerTypes
      <4> HIDE DEF k
      <4>2. k \in Positions
        BY <1>1 DEF k
      <4> QED
        BY <4>1, <4>2, NextPositions DEF Positions
    <3>3. \/ Goes(w, [k EXCEPT !.at = "exited"])
          \/ Goes(w, [k EXCEPT !.at = "ready"])
          \/ Goes(w, [k EXCEPT !.at = "dialing", !.attempt = @ + 1])
          \/ Goes(w, [k EXCEPT !.at = "waiting", !.generation = breaker.generation])
      BY <1>4 DEF WorkerStep, Dial, DialSucceeds, DialFails, TakeInVain, Exit, PullFails, Store,
                  GivesUp, Exits
    <3> HIDE DEF k
    <3> QED
      BY <3>1, <3>2, <3>3
  <2>2. \A v \in Workers : JobOf(v)'
    <3> SUFFICES ASSUME NEW v \in Workers PROVE JobOf(v)'
      OBVIOUS
    <3>1. worker'[v].at = "pulling" => worker'[v] = worker[v]
      BY <1>2, <2>1
    <3> QED
      BY <2>1, <3>1, JobKept
  <2>3. CASE UNCHANGED <<written, done>>
    BY <1>0, <1>1, <2>1, <2>2, <2>3, PullsAlone
  <2>4. CASE ~UNCHANGED <<written, done>>
    <3> DEFINE j == worker[w].job
    <3>1. /\ Pulled(w, TRUE) /\ Store(w)
      BY <1>4, <2>4 DEF WorkerStep, Dial, DialSucceeds, DialFails, TakeInVain, Exit, PullFails, Store
    <3>2. /\ written' = [written EXCEPT ![j] = @ \cup {result[w].got}]
          /\ done' \in {done, done \cup {j}}
      BY <2>4, <3>1 DEF Store
    <3>3. j \in Jobs
      <4>1. worker[w].at = "pulling" /\ fed <= NumJobs /\ Taken <= fed
        BY <3>1, PoolAssumption DEF Pulled, PoolInv, PoolTypes, Taken, PoolAssumption
      <4>2. j \in 1..Taken /\ Taken \in Int /\ fed \in Int /\ NumJobs \in Int
        BY <4>1, PoolAssumption DEF PoolInv, PoolTypes, JobsAccounted, Taken, PoolAssumption
      <4> QED
        BY <4>1, <4>2 DEF Jobs
    <3>4. result[w].got = Text(j, version, gone)
      <4>1. worker[w].at = "pulling" /\ Ended(w, TRUE) /\ result[w] # None
        BY <3>1 DEF Pulled, Ended
      <4>2. call[w] = None
        BY <1>0, <4>1 DEF PullInv, PullOf
      <4>2a. call[w].op # "pull"
        BY <4>2 DEF None
      <4>3. Succeeded(w, "pull") /\ result[w].uid = j
        BY <1>0, <4>1, <4>2a, Zenon DEF PullInv, JobOf
      <4> QED
        BY <1>0, <4>3 DEF PullInv, PullOf
    <3> HIDE DEF j
    <3>5. Stores'
      <4>1. /\ DOMAIN written' = Jobs /\ written'[j] = written[j] \cup {result[w].got}
            /\ \A i \in Jobs : i # j => written'[i] = written[i]
        BY <3>2, <3>3 DEF PullInv, Stores
      <4>2. done \subseteq Jobs
        BY DEF PoolInv, PoolTypes
      <4>3. ASSUME NEW i \in Jobs
            PROVE  /\ written'[i] \subseteq {Text(i, version', gone')}
                   /\ i \in done' => written'[i] # {}
        <5>1. CASE i = j
          BY <1>0, <3>3, <3>4, <4>1, <5>1 DEF PullInv, Stores
        <5>2. CASE i # j
          BY <1>0, <3>2, <4>1, <5>2 DEF PullInv, Stores
        <5> QED
          BY <5>1, <5>2
      <4>4. done' \subseteq Jobs
        BY <3>2, <3>3, <4>2
      <4> QED
        BY <1>0, <4>1, <4>3, <4>4 DEF PullInv, Stores
    <3>6. SameContents /\ last' \in Int
      BY <1>0 DEF SameContents, WireInv, WireTypes
    <3>7. ASSUME NEW d \in Conns PROVE PullOf(d)'
      BY <2>1, <3>6, <3>7, PullAside DEF PullInv
    <3> QED
      BY <1>0, <1>1, <2>1, <2>2, <3>5, <3>7 DEF PullInv
  <2> QED
    BY <2>3, <2>4
<1> QED
  BY <1>3, <1>4

(* Every step.                                                             *)
LEMMA PullStep ==
  ASSUME WireInv, PoolInv, PullInv, {"noticeInPull", "deletedMeanwhile"} \cap Faults = {},
         [Next]_vars
  PROVE  PullInv'
<1>0. Main \in Conns /\ Main \notin Workers /\ Conns = {Main} \cup Workers
  BY PoolAssumption DEF PoolAssumption
<1>1. CASE PlanCalls
  <2>1. phase = "plan" /\ UNCHANGED <<phase, pool>>
    BY <1>1 DEF PlanCalls
  <2>2. UNCHANGED <<worker, written, done>>
    BY <2>1 DEF pool
  <2>3. /\ \A d \in Conns : PullOf(d)' /\ (d # Main => call'[d] = call[d] /\ result'[d] = result[d])
        /\ SameContents /\ last' \in Int
    <3>1. CASE \E u \in 1..last : StartPull(Main, u)
      BY <1>0, <3>1, PullStarts
    <3>2. ASSUME NEW m, NEW what, Ask(Main, m, what), what.op # "pull"
          PROVE  /\ \A d \in Conns : PullOf(d)' /\ (d # Main => call'[d] = call[d] /\ result'[d] = result[d])
                 /\ SameContents /\ last' \in Int
      BY <1>0, <3>2, PlanAsks
    <3>3. CASE \E p \in Files : StartDelete(Main, p)
      BY <3>2, <3>3 DEF StartDelete
    <3>4. CASE \E p \in Files, n \in Sizes : StartPush(Main, p, n)
      BY <3>2, <3>4 DEF StartPush
    <3> QED
      BY <1>1, <3>1, <3>3, <3>4 DEF PlanCalls
  <2>4. \A w \in Workers : JobOf(w)'
    BY <1>0, <2>2, <2>3, JobKept
  <2> QED
    BY <1>0, <2>1, <2>2, <2>3, <2>4, PullsKept DEF PullInv, Waits
<1>2. CASE MainStep \/ BreakerTimesOut \/ UNCHANGED vars
  <2>1. /\ UNCHANGED <<version, last, gone, inbox, call, result, written, done>>
        /\ \/ UNCHANGED phase
           \/ phase = "plan" /\ call[Main] = None /\ phase' # "plan"
           \/ phase # "plan" /\ phase' # "plan"
    BY <1>2 DEF MainStep, PlanFails, PlanDone, StartPool, Feed, StopFeeding, Return, Outcome,
                BreakerTimesOut, vars, context, sessionVars, server, wire, client, pool
  <2>2. \/ UNCHANGED worker
        \/ worker' = [w \in Workers |-> IF w \in Pool THEN At("dialing", 1, 0, 0) ELSE Off]
    BY <1>2 DEF MainStep, PlanFails, PlanDone, StartPool, Feed, StopFeeding, Return,
                BreakerTimesOut, vars, pool
  <2>3. ASSUME NEW w \in Workers PROVE JobOf(w)'
    <3>1. worker'[w].at = "pulling" => worker'[w] = worker[w]
      BY <2>2 DEF At, Off
    <3> QED
      BY <2>1, <3>1, JobKept
  <2> QED
    BY <2>1, <2>3, PullsAlone
<1>3. CASE Cancel
  <2>1. /\ UNCHANGED <<pool, phase>>
        /\ UNCHANGED <<version, last, gone, inbox, call, result, worker, written, done>>
    BY <1>3 DEF Cancel, sessionVars, server, wire, client, pool
  <2>2. ASSUME NEW w \in Workers PROVE JobOf(w)'
    BY <2>1, JobKept
  <2> QED
    BY <2>1, <2>2, PullsAlone
<1>4. CASE Others
  <2>1. UNCHANGED <<pool, phase>>
    BY <1>4 DEF Others, context
  <2> QED
    BY <1>4, <2>1, PullHears DEF Others
<1>5. CASE \E w \in Workers : WorkerStep(w)
  BY <1>5, PullWorks
<1>6. ASSUME NEW c \in Conns, OnConn(c) PROVE PullInv'
  <2>1. UNCHANGED <<pool, phase>> /\ (ServerStep(c) \/ ClientStep(c))
    BY <1>6 DEF OnConn, context
  <2> QED
    BY <2>1, PullServed, PullRead
<1>7. ASSUME NEW c \in Conns, Breaks(c) PROVE PullInv'
  <2>1. UNCHANGED <<pool, phase>> /\ Break(c)
    BY <1>7 DEF Breaks, context
  <2> QED
    BY <2>1, PullsBroken
<1> QED
  BY <1>1, <1>2, <1>3, <1>4, <1>5, <1>6, <1>7 DEF Next
-----------------------------------------------------------------------------
(* What is counted: calls, attempts to dial, workers that gave up, and the *)
(* requests of the breaker.                                                *)
Exited == {w \in Workers : worker[w].at = "exited"}

CountInv ==
  /\ calls \in 0..MaxCalls /\ timeouts \in 0..MaxTimeouts
  /\ \A w \in Workers : worker[w].attempt <= maxRetries
  /\ errMsgs <= Cardinality(Exited)
  /\ breaker.state # "half-open" => breaker.requests = 0

(* There are no more workers that have left than there are workers.        *)
LEMMA ExitedFinite ==
  /\ IsFiniteSet(Exited) /\ Cardinality(Exited) \in Nat
  /\ Cardinality(Workers) \in Nat /\ Cardinality(Exited) <= Cardinality(Workers)
<1>1. IsFiniteSet(Workers) /\ Exited \in SUBSET Workers
  BY PoolAssumption DEF PoolAssumption, Exited
<1>2. IsFiniteSet(Exited) /\ Cardinality(Exited) <= Cardinality(Workers)
  BY <1>1, FS_Subset
<1> QED
  BY <1>1, <1>2, FS_CardinalityType

(* The breaker counts the requests of a half-open one only.                *)
LEMMA RequestsCounted ==
  ASSUME NEW b \in Shapes, b.state # "half-open" => b.requests = 0, NEW g,
         NEW to \in {b, Admitted(b), TimedOut(b), Succeeds(b, g), Failed(b, g), Cancelled(b, g)}
  PROVE  to.state # "half-open" => to.requests = 0
<1>1. CASE to \in {b, Admitted(b), TimedOut(b)}
  BY <1>1 DEF Admitted, TimedOut, HalfOpenBreaker, Shapes
<1>2. CASE to = Succeeds(b, g)
  BY <1>2 DEF Succeeds, ClosedBreaker, Shapes
<1>3. CASE to = Failed(b, g)
  BY <1>3 DEF Failed, OpenBreaker, Shapes
<1>4. CASE to = Cancelled(b, g)
  BY <1>4 DEF Cancelled, Shapes
<1> QED
  BY <1>1, <1>2, <1>3, <1>4

(* Where a worker goes, and what it adds to the number of those that gave  *)
(* up.                                                                     *)
LEMMA WorkerGoes ==
  ASSUME PoolInv, NEW w \in Workers, worker[w].attempt <= maxRetries, WorkerStep(w)
  PROVE  /\ worker[w].at # "exited"
         /\ \E to \in Positions :
              /\ Goes(w, to) /\ to.attempt <= maxRetries
              /\ \/ UNCHANGED errMsgs
                 \/ errMsgs' = errMsgs + 1 /\ to.at = "exited"
<1> DEFINE Moves(to) == /\ to \in Positions /\ to.attempt <= maxRetries
           Fine(to) == /\ Goes(w, to)
                       /\ \/ UNCHANGED errMsgs
                          \/ errMsgs' = errMsgs + 1 /\ to.at = "exited"
<1>1. PICK k \in Positions : k = worker[w]
  BY DEF PoolInv, PoolTypes
<1>2. /\ Moves([k EXCEPT !.at = "exited"]) /\ [k EXCEPT !.at = "exited"].at = "exited"
      /\ Moves([k EXCEPT !.at = "ready"])
      /\ \A g \in Nat : Moves([k EXCEPT !.at = "waiting", !.generation = g])
      /\ \A j \in Jobs : Moves([k EXCEPT !.at = "pulling", !.job = j])
      /\ k.attempt < maxRetries => Moves([k EXCEPT !.at = "dialing", !.attempt = @ + 1])
  <2>1. /\ k.attempt <= maxRetries /\ k.attempt \in Nat /\ maxRetries \in Nat
        /\ k = [at |-> k.at, attempt |-> k.attempt, generation |-> k.generation, job |-> k.job]
    BY <1>1, PoolAssumption DEF Positions, PoolAssumption
  <2>2. /\ [k EXCEPT !.at = "exited"].at = "exited"
        /\ [k EXCEPT !.at = "exited"].attempt = k.attempt
        /\ [k EXCEPT !.at = "ready"].attempt = k.attempt
        /\ \A g \in Nat : [k EXCEPT !.at = "waiting", !.generation = g].attempt = k.attempt
        /\ \A j \in Jobs : [k EXCEPT !.at = "pulling", !.job = j].attempt = k.attempt
        /\ [k EXCEPT !.at = "dialing", !.attempt = @ + 1].attempt = k.attempt + 1
    BY <2>1
  <2>3. Moves([k EXCEPT !.at = "exited"]) /\ Moves([k EXCEPT !.at = "ready"])
    BY <2>1, <2>2, NextPositions
  <2>4. \A g \in Nat : Moves([k EXCEPT !.at = "waiting", !.generation = g])
    BY <2>1, <2>2, NextPositions
  <2>5. \A j \in Jobs : Moves([k EXCEPT !.at = "pulling", !.job = j])
    BY <2>1, <2>2, NextPositions
  <2>6. k.attempt < maxRetries => Moves([k EXCEPT !.at = "dialing", !.attempt = @ + 1])
    <3>1. \A a, n \in Nat : a < n => a + 1 <= n
      OBVIOUS
    <3>2. k.attempt < maxRetries => k.attempt + 1 <= maxRetries
      BY <2>1, <3>1
    <3>3. [k EXCEPT !.at = "dialing", !.attempt = @ + 1] \in Positions
      BY NextPositions
    <3> QED
      BY <2>2, <3>2, <3>3
  <2> HIDE DEF Moves
  <2> QED
    BY <2>2, <2>3, <2>4, <2>5, <2>6
<1>3. GivesUp(w) => Fine([k EXCEPT !.at = "exited"])
  BY <1>1, <1>2 DEF GivesUp, Exits
<1>4. /\ breaker.generation \in Nat
      /\ jobsCh # <<>> => Head(jobsCh) \in Jobs
  BY DEF PoolInv, PoolTypes, Shapes
<1>5. k.at # "exited"
  BY <1>1 DEF WorkerStep, Dial, DialSucceeds, DialFails, Take, TakeInVain, Exit, PullFails, Store,
              Pulled
<1> SUFFICES \E to : Moves(to) /\ Fine(to)
  BY <1>1, <1>5
<1>6. CASE Dial(w)
  <2>1. \/ GivesUp(w)
        \/ Fine([k EXCEPT !.at = "waiting", !.generation = breaker.generation])
    BY <1>1, <1>6 DEF Dial
  <2> HIDE DEF Moves, Fine
  <2> QED
    BY <1>2, <1>3, <1>4, <2>1
<1>7. CASE DialFails(w)
  <2>1. \/ GivesUp(w)
        \/ k.attempt < maxRetries /\ Fine([k EXCEPT !.at = "dialing", !.attempt = @ + 1])
    BY <1>1, <1>7 DEF DialFails, TriesAgain
  <2> HIDE DEF Moves, Fine
  <2> QED
    BY <1>2, <1>3, <2>1
<1>8. CASE DialSucceeds(w) \/ Take(w) \/ Exit(w)
  <2>1. \/ Fine([k EXCEPT !.at = "ready"])
        \/ Fine([k EXCEPT !.at = "exited"])
        \/ jobsCh # <<>> /\ Fine([k EXCEPT !.at = "pulling", !.job = Head(jobsCh)])
    BY <1>1, <1>8 DEF DialSucceeds, Take, Exit, Exits
  <2> HIDE DEF Moves, Fine
  <2> QED
    BY <1>2, <1>4, <2>1
<1>9. CASE TakeInVain(w) \/ PullFails(w) \/ Store(w)
  <2>1. GivesUp(w) \/ Fine([k EXCEPT !.at = "ready"])
    BY <1>1, <1>9 DEF TakeInVain, PullFails, Store
  <2> HIDE DEF Moves, Fine
  <2> QED
    BY <1>2, <1>3, <2>1
<1> QED
  BY <1>6, <1>7, <1>8, <1>9 DEF WorkerStep

(* A worker leaves once, and gives up once.                                *)
LEMMA CountWorks ==
  ASSUME PoolInv, CountInv, NEW w \in Workers, WorkerStep(w)
  PROVE  CountInv'
<1>1. /\ worker[w].attempt <= maxRetries /\ breaker \in Shapes /\ errMsgs \in Nat
      /\ errMsgs <= Cardinality(Exited)
      /\ breaker.state # "half-open" => breaker.requests = 0
  BY DEF CountInv, PoolInv, PoolTypes
<1>2. worker[w].at # "exited"
  BY <1>1, WorkerGoes
<1>3. PICK to \in Positions :
        /\ Goes(w, to) /\ to.attempt <= maxRetries
        /\ \/ UNCHANGED errMsgs
           \/ errMsgs' = errMsgs + 1 /\ to.at = "exited"
  BY <1>1, WorkerGoes
<1>4. worker'[w] = to /\ \A v \in Workers \ {w} : worker'[v] = worker[v]
  BY <1>3, OneGoes DEF PoolInv
<1>5. UNCHANGED <<calls, timeouts>>
  BY DEF WorkerStep, Dial, DialSucceeds, DialFails, Take, TakeInVain, Exit, PullFails, Store,
         context, gate
<1>6. errMsgs' <= Cardinality(Exited)'
  <2>1. Exited' = IF to.at = "exited" THEN Exited \cup {w} ELSE Exited
    BY <1>2, <1>4 DEF Exited
  <2>2. w \notin Exited
    BY <1>2 DEF Exited
  <2>3. Cardinality(Exited \cup {w}) = Cardinality(Exited) + 1
    BY <2>2, ExitedFinite, FS_AddElement
  <2> QED
    BY <1>1, <1>3, <2>1, <2>3, ExitedFinite
<1>7. breaker'.state # "half-open" => breaker'.requests = 0
  <2>1. \/ breaker' \in {breaker, Admitted(breaker)}
        \/ \E g : breaker' \in {Succeeds(breaker, g), Failed(breaker, g), Cancelled(breaker, g)}
    BY DEF WorkerStep, Dial, DialSucceeds, DialFails, Take, TakeInVain, Exit, PullFails, Store,
           gate
  <2> QED
    BY <1>1, <2>1, RequestsCounted
<1> QED
  BY <1>3, <1>4, <1>5, <1>6, <1>7 DEF CountInv

(* The counts stay what they are, and within their bounds.                 *)
LEMMA CountStep ==
  ASSUME PoolInv, CountInv, [Next]_vars
  PROVE  CountInv'
<1> USE DEF context, gate, pool
<1>1. CASE PlanCalls
  <2>1. calls' = calls + 1 /\ calls < MaxCalls /\ UNCHANGED <<pool, gate>> /\ MaxCalls \in Nat
    BY <1>1, PoolAssumption DEF PlanCalls, PoolAssumption
  <2> QED
    BY <2>1 DEF CountInv, Exited
<1>2. CASE BreakerTimesOut
  <2>1. /\ timeouts' = timeouts + 1 /\ timeouts < MaxTimeouts /\ MaxTimeouts \in Nat
        /\ breaker' = TimedOut(breaker) /\ UNCHANGED <<pool, calls>>
    BY <1>2, PoolAssumption DEF BreakerTimesOut, PoolAssumption
  <2>2. breaker'.state = "half-open"
    BY <2>1 DEF TimedOut, HalfOpenBreaker
  <2> QED
    BY <2>1, <2>2 DEF CountInv, Exited
<1>3. CASE StartPool
  <2>1. /\ UNCHANGED <<calls, gate, errMsgs>> /\ errMsgs = 0
        /\ \A w \in Workers : worker'[w] \in {At("dialing", 1, 0, 0), Off}
    BY <1>3 DEF StartPool, PoolInv, WorkersInPhase
  <2>2. At("dialing", 1, 0, 0).attempt <= maxRetries /\ Off.attempt <= maxRetries
    BY PoolAssumption DEF At, Off, PoolAssumption
  <2>3. Cardinality(Exited)' \in Nat
    <3>1. Exited' = {}
      BY <2>1 DEF Exited, At, Off
    <3> QED
      BY <3>1, FS_EmptySet
  <2> QED
    BY <2>1, <2>2, <2>3 DEF CountInv
<1>4. CASE UNCHANGED <<calls, timeouts, worker, errMsgs, breaker>>
  BY <1>4 DEF CountInv, Exited
<1>5. CASE \/ PlanFails \/ PlanDone \/ Feed \/ StopFeeding \/ Return \/ Cancel \/ Others
           \/ UNCHANGED vars
  BY <1>4, <1>5 DEF PlanFails, PlanDone, Feed, StopFeeding, Return, Cancel, Others, vars
<1>6. CASE \E c \in Conns : OnConn(c) \/ Breaks(c)
  BY <1>4, <1>6 DEF OnConn, Breaks
<1>7. CASE \E w \in Workers : WorkerStep(w)
  BY <1>7, CountWorks
<1> QED
  BY <1>1, <1>2, <1>3, <1>5, <1>6, <1>7 DEF Next, MainStep

(* The variables are what they are said to be.                             *)
LEMMA TypesAreRight ==
  ASSUME WireInv, PoolInv, BreakerInv, CountInv
  PROVE  TypeOK
<1>1. SessionTypeOK
  BY DEF WireInv, WireTypes, RestTypes, SessionTypeOK
<1>2. worker \in [Workers -> [at : {"off", "dialing", "waiting", "ready", "pulling", "exited"},
                              attempt : 0..maxRetries, generation : Nat, job : 0..NumJobs]]
  <2>1. worker \in [Workers -> Positions] /\ maxRetries \in Nat
    BY PoolAssumption DEF PoolInv, PoolTypes, PoolAssumption
  <2>2. ASSUME NEW w \in Workers PROVE worker[w].attempt \in 0..maxRetries
    <3>1. worker[w].attempt \in Nat /\ worker[w].attempt <= maxRetries
      BY <2>1 DEF Positions, CountInv
    <3> QED
      BY <2>1, <3>1
  <2> QED
    BY <2>1, <2>2 DEF Positions, Places
<1>3. errMsgs \in 0..Cardinality(Workers)
  BY ExitedFinite DEF PoolInv, PoolTypes, CountInv
<1>4. breaker \in Breakers
  <2>1. breaker \in Shapes /\ breaker.requests \in Int
    BY DEF PoolInv, PoolTypes, Shapes
  <2>2. breaker.requests \in Nat
    <3>1. CASE breaker.state = "half-open"
      <4>1. /\ Cardinality(Waiting(breaker.generation)) \in Nat
            /\ Cardinality(Waiting(breaker.generation)) <= breaker.requests
        BY <3>1, WaitingFinite DEF BreakerInv
      <4> QED
        BY <2>1, <4>1
    <3>2. CASE breaker.state # "half-open"
      BY <3>2 DEF CountInv
    <3> QED
      BY <3>1, <3>2
  <2> QED
    BY <2>1, <2>2 DEF Shapes, Breakers
<1>5. /\ phase \in {"plan", "pool", "nil", "error"} /\ cancelled \in BOOLEAN /\ closed \in BOOLEAN
      /\ fed \in 0..NumJobs /\ jobsCh \in Seq(Jobs) /\ done \subseteq Jobs
  BY DEF PoolInv, PoolTypes
<1>6. calls \in 0..MaxCalls /\ timeouts \in 0..MaxTimeouts
  BY DEF CountInv
<1> QED
  BY <1>1, <1>2, <1>3, <1>4, <1>5, <1>6 DEF TypeOK

(* Nothing has been pulled or counted.                                     *)
LEMMA PullInit == Init => PullInv /\ CountInv
<1> SUFFICES ASSUME Init PROVE PullInv /\ CountInv
  OBVIOUS
<1>1. /\ call = [c \in Conns |-> None] /\ result = [c \in Conns |-> None]
      /\ written = [j \in Jobs |-> {}] /\ done = {} /\ last = NumJobs /\ NumJobs \in 1..MaxUid
      /\ worker = [w \in Workers |-> Off] /\ phase = "plan" /\ errMsgs = 0
      /\ calls = 0 /\ timeouts = 0 /\ breaker = ClosedBreaker(0)
      /\ Conns = {Main} \cup Workers
  BY Found, PoolAssumption DEF Init, SessionInit, PoolAssumption
<1>2. \A c \in Conns : PullOf(c)
  BY <1>1 DEF PullOf, Succeeded, Ended, None
<1>3. \A w \in Workers : JobOf(w)
  BY <1>1 DEF JobOf, Off, At
<1>4. Waits /\ Stores
  BY <1>1 DEF Waits, Stores
<1>5. PullInv
  BY <1>1, <1>2, <1>3, <1>4 DEF PullInv
<1>6. CountInv
  BY <1>1, ExitedFinite, PoolAssumption DEF CountInv, Off, At, ClosedBreaker, PoolAssumption
<1> QED
  BY <1>5, <1>6

(* Where no file is deleted that is to be pulled, and no notification is   *)
(* sent to a connection that pulls, a pull that succeeds returns the       *)
(* version it asked for, all of it (session.pull), and a file that counts  *)
(* as downloaded, or that was written by a worker that then failed, has    *)
(* the content of the version the plan wanted (downloadWorker).            *)
THEOREM PullsTheorem ==
  ASSUME {"noticeInPull", "deletedMeanwhile"} \cap Faults = {}
  PROVE  Spec => []PullsAsRecorded
<1> DEFINE Inv == WireInv /\ PullInv /\ PoolInv /\ BreakerInv /\ CountInv
<1>1. Init => Inv
  BY WireInit, PullInit, PoolInit, BreakerInit
<1>2. Inv /\ [Next]_vars => Inv'
  BY WireStep, PullStep, PoolStep, BreakerStep, CountStep
<1>3. Inv => PullsAsRecorded
  <2> SUFFICES ASSUME Inv PROVE PullsAsRecorded
    OBVIOUS
  <2>1. TypeOK
    BY TypesAreRight
  <2>2. PulledIsAsked
    BY DEF PullInv, PullOf, PulledIsAsked, Content, Text
  <2>3. /\ \A j \in done : written[j] # {}
        /\ \A j \in Jobs : written[j] \subseteq {Content(j)}
    BY DEF PullInv, Stores, Content, Text
  <2> QED
    BY <2>1, <2>2, <2>3 DEF PullsAsRecorded
<1> HIDE DEF Inv
<1> QED
  BY <1>1, <1>2, <1>3, PTL DEF Spec

=============================================================================
