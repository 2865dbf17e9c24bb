------------------------------ MODULE Session ------------------------------
(***************************************************************************)
(* The sync protocol on a connection, internal/sync/session.go: push, pull *)
(* and delete.  A request has no identifier; the client takes what it      *)
(* reads next for the answer.  The server also sends notifications of      *)
(* changes, at any time and on every connection.                           *)
(*                                                                         *)
(* Content is counted in units of which chunkSize make a frame; encryption *)
(* adds Overhead to what is not empty.  A version of a file is known by    *)
(* its uid, and a frame by uid and position.                               *)
(***************************************************************************)
EXTENDS Naturals, Sequences, FiniteSets

CONSTANTS
  Conns,        \* the connections of this client
  Files,        \* the paths
  Sizes,        \* how long the content of a file may be
  chunkSize,
  Overhead,     \* nonce and tag, or 0 in a vault without encryption
  Faults,       \* what happens on connections, of AllFaults
  MaxUid        \* bound of the model on versions

(***************************************************************************)
(*   noticeInPull      a notification is sent to a connection that pulls   *)
(*   lateEcho          the notification of a push comes after its answer   *)
(*   refused           the server answers with an error                    *)
(*   broken            a connection breaks                                 *)
(*   deletedMeanwhile  a file is deleted whose version is to be pulled     *)
(***************************************************************************)
AllFaults == {"noticeInPull", "lateEcho", "refused", "broken", "deletedMeanwhile"}

SizesAssumption == /\ Sizes \subseteq Nat /\ \E n \in Sizes : \A m \in Sizes : m <= n
                   /\ chunkSize \in Nat \ {0} /\ Overhead \in Nat
NamesAssumption == Files # {} /\ Conns \cap {"other", "none"} = {}
FaultsAssumption == Faults \subseteq AllFaults
BoundAssumption == MaxUid \in Nat
ASSUME SizesAssumption
ASSUME NamesAssumption
ASSUME FaultsAssumption
ASSUME BoundAssumption

Uids == 1..MaxUid

VARIABLES
  version,      \* server: path, length and frames of every uid given out
  last,         \* server: the uid given out last
  gone,         \* server: uids whose file is deleted
  upload,       \* server: the push whose frames it is receiving, by connection
  request,      \* what the server has not read yet, by connection
  inbox,        \* what the client has not read yet, by connection
  open,         \* connections that work
  call,         \* what the client is doing on each connection
  result,       \* how its last call ended
  remote,       \* session.remote of the plan's session: uid by path
  told          \* history: uid of the last notification, by connection and path

server == <<version, last, gone, upload>>
wire == <<request, inbox>>
client == <<open, call, result, remote>>
sessionVars == <<server, wire, client, told>>

(* Frames of a content, as it is and as it is sent.                        *)
Frames(n) == (n + chunkSize - 1) \div chunkSize
Cipher(n) == IF n = 0 THEN 0 ELSE n + Overhead

None == [op |-> "none"]
Version == [path : Files, size : Sizes \cup {0}, frames : Nat, by : Conns \cup {"other"}]
NoVersion == [path |-> "none", size |-> 0, frames |-> 0, by |-> "none"]
New(p, n, k, c) == [path |-> p, size |-> n, frames |-> k, by |-> c]

Part(u, i) == [kind |-> "frame", uid |-> u, part |-> i]
(* What a pull of u should return.                                         *)
Content(u) == IF u \in gone THEN <<>> ELSE [i \in 1..version[u].frames |-> Part(u, i)]
Whole(u) == version[u].frames = Frames(Cipher(version[u].size))

Reply(res, pieces) == [kind |-> "reply", res |-> res, pieces |-> pieces]
Notice(p, u) == [kind |-> "notice", path |-> p, uid |-> u]

Idle(c) == c \in open /\ call[c] = None
Step(c, msgs) == inbox' = [inbox EXCEPT ![c] = @ \o msgs]

SessionInit(found, conns) ==
  /\ version = found /\ last = Cardinality({u \in Uids : found[u] # NoVersion})
  /\ gone = {}
  /\ upload = [c \in Conns |-> None]
  /\ request = [c \in Conns |-> <<>>] /\ inbox = [c \in Conns |-> <<>>]
  /\ open = conns
  /\ call = [c \in Conns |-> None] /\ result = [c \in Conns |-> None]
  /\ remote = [p \in Files |-> 0]
  /\ told = [c \in Conns |-> [p \in Files |-> 0]]

-----------------------------------------------------------------------------
(* The client sends a request.                                             *)

Ask(c, m, what) ==
  /\ Idle(c)
  /\ request' = [request EXCEPT ![c] = Append(@, m)]
  /\ call' = [call EXCEPT ![c] = what]
  /\ result' = [result EXCEPT ![c] = None]
  /\ UNCHANGED <<server, inbox, open, remote, told>>

StartPull(c, u) ==
  /\ "noticeInPull" \in Faults \/ inbox[c] = <<>>
  /\ Ask(c, [op |-> "pull", uid |-> u], [op |-> "pull", uid |-> u, left |-> 0, got |-> <<>>])

\* Mutant: a last piece that is not full is not counted.
FullPieces(n) == n \div chunkSize

(* The number of pieces is announced from the length of the plain content. *)
Pieces(n) == Frames(n)

StartPush(c, p, n) ==
  Ask(c, [op |-> "push", path |-> p, size |-> n, pieces |-> Pieces(n)],
         [op |-> "push", path |-> p, size |-> n, sent |-> 0])

StartDelete(c, p) ==
  Ask(c, [op |-> "delete", path |-> p], [op |-> "delete", path |-> p])

-----------------------------------------------------------------------------
(* The server.  It stores the frames that were announced, and it answers a *)
(* push at once if it has the content.                                     *)

Took(c) == /\ request[c] # <<>>
           /\ request' = [request EXCEPT ![c] = Tail(@)]
Req(c) == Head(request[c])

Tell(c, p, u, msgs) ==
  /\ inbox' = [d \in Conns |-> IF d = c THEN inbox[d] \o msgs
                               ELSE IF d \in open THEN Append(inbox[d], Notice(p, u))
                               ELSE inbox[d]]
  /\ told' = [d \in Conns |-> IF d = c \/ d \in open THEN [told[d] EXCEPT ![p] = u] ELSE told[d]]

Echo(p, u, reply) ==
  {<<Notice(p, u), reply>>} \cup (IF "lateEcho" \in Faults THEN {<<reply, Notice(p, u)>>} ELSE {})

CanTell(c) == \A d \in open \ {c} : "noticeInPull" \in Faults \/ call[d].op # "pull"

Refuse(c) ==
  /\ "refused" \in Faults /\ Took(c)
  /\ upload' = [upload EXCEPT ![c] = None]
  /\ Step(c, <<Reply("err", 0)>>)
  /\ UNCHANGED <<version, last, gone, client, told>>

ServePull(c) ==
  /\ Took(c) /\ Req(c).op = "pull"
  /\ LET u == Req(c).uid
     IN  Step(c, <<Reply("ok", Len(Content(u)))>> \o Content(u))
  /\ UNCHANGED <<server, client, told>>

(* The notification of a push comes before the first answer to it.         *)
ServePush(c) ==
  LET u == last + 1
      m == Req(c)
      Given(k) == [version EXCEPT ![u] = New(m.path, m.size, k, c)]
  IN  /\ Took(c) /\ m.op = "push" /\ last < MaxUid /\ CanTell(c)
      /\ last' = u
      /\ \/ /\ version' = Given(Frames(Cipher(m.size)))
            /\ \E msgs \in Echo(m.path, u, Reply("ok", 0)) : Tell(c, m.path, u, msgs)
            /\ UNCHANGED upload
         \/ /\ m.pieces > 0
            /\ version' = Given(0)
            /\ upload' = [upload EXCEPT ![c] = [op |-> "push", uid |-> u, pieces |-> m.pieces]]
            /\ \E msgs \in Echo(m.path, u, Reply("next", 0)) : Tell(c, m.path, u, msgs)
      /\ UNCHANGED <<gone, client>>

ServeFrame(c) ==
  LET u == upload[c].uid
      n == version[u].frames + 1
  IN  /\ Took(c) /\ Req(c).op = "frame" /\ upload[c] # None
      /\ version' = [version EXCEPT ![u].frames = n]
      /\ IF n = upload[c].pieces
         THEN upload' = [upload EXCEPT ![c] = None] /\ Step(c, <<Reply("ok", 0)>>)
         ELSE Step(c, <<Reply("next", 0)>>) /\ UNCHANGED upload
      /\ UNCHANGED <<last, gone, client, told>>

ServeDelete(c) ==
  LET u == last + 1
  IN  /\ Took(c) /\ Req(c).op = "delete" /\ last < MaxUid /\ CanTell(c)
      /\ last' = u
      /\ version' = [version EXCEPT ![u] = New(Req(c).path, 0, 0, c)]
      /\ gone' = gone \cup {u}
      /\ \E msgs \in Echo(Req(c).path, u, Reply("ok", 0)) : Tell(c, Req(c).path, u, msgs)
      /\ UNCHANGED <<upload, client>>

(* Another device pushes or deletes a file.                                *)
OtherDevice(p, n, deletes) ==
  LET u == last + 1
      old == {v \in Uids : v <= last /\ version[v].path = p}
  IN  /\ last < MaxUid
      /\ \A d \in open : "noticeInPull" \in Faults \/ call[d].op # "pull"
      /\ last' = u
      /\ version' = [version EXCEPT ![u] = New(p, n, Frames(Cipher(n)), "other")]
      /\ IF deletes THEN "deletedMeanwhile" \in Faults /\ gone' = gone \cup old \cup {u}
         ELSE UNCHANGED gone
      /\ inbox' = [d \in Conns |-> IF d \in open THEN Append(inbox[d], Notice(p, u)) ELSE inbox[d]]
      /\ told' = [d \in Conns |-> IF d \in open THEN [told[d] EXCEPT ![p] = u] ELSE told[d]]
      /\ UNCHANGED <<upload, request, client>>

-----------------------------------------------------------------------------
(* The client reads.                                                       *)

Reads(c, kinds) == /\ c \in open /\ call[c] # None /\ inbox[c] # <<>>
                  /\ Head(inbox[c]).kind \in kinds
                  /\ inbox' = [inbox EXCEPT ![c] = Tail(@)]
Msg(c) == Head(inbox[c])

Ends(c, r) == /\ result' = [result EXCEPT ![c] = r]
              /\ call' = [call EXCEPT ![c] = None]
Ended(c, ok) == IF result[c] = None THEN FALSE ELSE result[c].ok = ok
Fails(c) == Ends(c, [op |-> call[c].op, ok |-> FALSE])
PullEnds(c, got) ==
  Ends(c, [op |-> "pull", ok |-> TRUE, uid |-> call[c].uid, got |-> got])
PushEnds(c) ==
  Ends(c, [op |-> "push", ok |-> TRUE, path |-> call[c].path, size |-> call[c].size])

\* Mutant: notifications are skipped.
SkipNotice(c) ==
  /\ Reads(c, {"notice"}) /\ call[c].op \in {"push", "delete"}
  /\ UNCHANGED <<server, request, open, call, result, remote, told>>

(* push and delete enter notifications in session.remote as they wait.     *)
AbsorbNotice(c) ==
  /\ Reads(c, {"notice"}) /\ call[c].op \in {"push", "delete"}
  /\ remote' = [remote EXCEPT ![Msg(c).path] = Msg(c).uid]
  /\ UNCHANGED <<server, request, open, call, result, told>>

\* Mutant: the first piece is counted as read.
AnnouncedAfterFirst(m) == IF m.kind = "reply" /\ m.pieces > 0 THEN m.pieces - 1 ELSE 0

(* pull does not: it unmarshals one into an answer of no pieces.  It does  *)
(* not ask whether res is ok, only whether it is err.  Where JSON is       *)
(* expected a frame is an error.                                           *)
IsError(m) == m.kind = "frame" \/ (m.kind = "reply" /\ m.res = "err")
Announced(m) == IF m.kind = "reply" THEN m.pieces ELSE 0

PullReadsAnswer(c) ==
  /\ Reads(c, {"reply", "notice", "frame"}) /\ call[c].op = "pull" /\ call[c].left = 0
  /\ IF IsError(Msg(c)) THEN Fails(c)
     ELSE IF Announced(Msg(c)) = 0 THEN PullEnds(c, <<>>)
     ELSE /\ call' = [call EXCEPT ![c].left = Announced(Msg(c))]
          /\ UNCHANGED result
  /\ UNCHANGED <<server, request, open, remote, told>>

(* Whatever is read is a piece.  Decryption fails unless the pieces are    *)
(* one content, if there is encryption.                                    *)
Decrypts(got) == Overhead = 0 \/ \E u \in Uids : Whole(u) /\ got = Content(u)

PullReadsPiece(c) ==
  LET got == Append(call[c].got, Msg(c))
  IN  /\ Reads(c, {"frame", "notice", "reply"})
      /\ call[c].op = "pull" /\ call[c].left > 0
      /\ IF call[c].left > 1
         THEN /\ call' = [call EXCEPT ![c].left = @ - 1, ![c].got = got]
              /\ UNCHANGED result
         ELSE IF Decrypts(got) THEN PullEnds(c, got) ELSE Fails(c)
      /\ UNCHANGED <<server, request, open, remote, told>>

(* push sends the next frame after "next", and returns after the last      *)
(* announced one, which the server must have answered with "ok".           *)
GoesOn(m, k) == /\ ~IsError(m) /\ m.res = "next" /\ k.sent < Pieces(k.size)
IsDone(m, k) == /\ ~IsError(m)
                /\ \/ m.res = "ok" /\ k.sent \in {0, Pieces(k.size)}
                   \/ m.res = "next" /\ Pieces(k.size) = 0

PushReadsReply(c) ==
  LET k == call[c]
      sendsOne == /\ call' = [call EXCEPT ![c].sent = k.sent + 1]
                  /\ request' = [request EXCEPT ![c] = Append(@, [op |-> "frame"])]
                  /\ UNCHANGED result
  IN  /\ Reads(c, {"reply", "frame"}) /\ k.op = "push"
      /\ IF GoesOn(Msg(c), k) THEN sendsOne
         ELSE /\ IF IsDone(Msg(c), k) THEN PushEnds(c) ELSE Fails(c)
              /\ UNCHANGED request
      /\ UNCHANGED <<server, open, remote, told>>

(* When the delete succeeds executePlan takes the path out of              *)
(* session.remote.                                                         *)
DeleteReadsReply(c) ==
  /\ Reads(c, {"reply", "frame"}) /\ call[c].op = "delete"
  /\ IF ~IsError(Msg(c)) /\ Msg(c).res = "ok"
     THEN /\ Ends(c, [op |-> "delete", ok |-> TRUE, path |-> call[c].path])
          /\ remote' = [remote EXCEPT ![call[c].path] = 0]
     ELSE Fails(c) /\ UNCHANGED remote
  /\ UNCHANGED <<server, request, open, told>>

(* Reading from a broken connection is an error, and so is writing to it.  *)
Break(c) ==
  /\ c \in open
  /\ open' = open \ {c}
  /\ request' = [request EXCEPT ![c] = <<>>] /\ inbox' = [inbox EXCEPT ![c] = <<>>]
  /\ upload' = [upload EXCEPT ![c] = None]
  /\ IF call[c] # None THEN Fails(c) ELSE UNCHANGED <<call, result>>
  /\ UNCHANGED <<version, last, gone, remote, told>>

ServerStep(c) == \/ Refuse(c) \/ ServePull(c) \/ ServePush(c) \/ ServeFrame(c)
                 \/ ServeDelete(c)
ClientStep(c) == \/ AbsorbNotice(c) \/ PullReadsAnswer(c) \/ PullReadsPiece(c)
                 \/ PushReadsReply(c) \/ DeleteReadsReply(c)

-----------------------------------------------------------------------------
SessionTypeOK ==
  /\ version \in [Uids -> Version \cup {NoVersion}] /\ last \in 0..MaxUid
  /\ gone \subseteq Uids /\ open \subseteq Conns
  /\ remote \in [Files -> 0..MaxUid] /\ told \in [Conns -> [Files -> 0..MaxUid]]
  /\ DOMAIN call = Conns /\ DOMAIN result = Conns

Succeeded(c, op) == result[c].op = op /\ Ended(c, TRUE)

(* A pull that succeeds returns the content it asked for, all of it.       *)
PulledIsAsked ==
  \A c \in Conns : Succeeded(c, "pull") => result[c].got = Content(result[c].uid)

(* A push that succeeds has left all of the content with the server.       *)
Pushed(c) == {u \in Uids : version[u].by = c}
PushedWhole ==
  \A c \in Conns : Succeeded(c, "push") =>
    \E u \in Pushed(c) : /\ \A v \in Pushed(c) : v <= u
                         /\ version[u].size = result[c].size /\ Whole(u)

(* Between calls client and server agree that nothing is outstanding: what *)
(* the client has not read are notifications.                              *)
InStep ==
  \A c \in open : call[c] = None =>
    /\ request[c] = <<>> /\ upload[c] = None
    /\ \A k \in 1..Len(inbox[c]) : inbox[c][k].kind = "notice"

(* What the plan's connection has been told and has read is in             *)
(* session.remote, unless a delete of its own came after.                  *)
NewsKept ==
  \A c \in open, p \in Files :
    \/ told[c][p] = 0 \/ remote[p] = told[c][p] \/ told[c][p] \in gone
    \/ \E k \in 1..Len(inbox[c]) : inbox[c][k].kind = "notice" /\ inbox[c][k].uid = told[c][p]

=============================================================================
