--------------------------- MODULE GenServerProofs ---------------------------
(***************************************************************************)
(* Calls get their own answers, a server handles what a client sends in    *)
(* order, and an answer finds room, for any clients, mailbox sizes and     *)
(* handlers, as long as references do not repeat.                          *)
(*                                                                         *)
(* The argument follows a call through the places it can be in: the        *)
(* client's pending send, the server's mailbox, its handler, a token the   *)
(* handler kept, a reply that is being sent, the client's mailbox.         *)
(***************************************************************************)
EXTENDS GenServer, WellFoundedInduction, SequenceTheorems, TLAPS

GMsg == [tag : {"call", "cast", "stop", "info", "reply"}, ref : Nat, from : Callers \cup {GServer}, num : Nat]

ClType == [op : {"idle", "send", "wait", "dead"}, to : {0, 1}, out : Seq(GMsg),
           ref : Nat, num : Nat, timed : BOOLEAN]

SrvType == [at : {"init", "recv", "call", "cast", "send", "reply", "terminate", "dead"},
            ref : Nat, from : Callers \cup {GServer}, num : Nat, out : Seq(GMsg),
            to : Callers \cup {GServer}, why : {"none", "init", "handler", "stop", "client"}]

GType ==
  /\ gbox \in [GClients \cup {GServer} -> Seq(GMsg)]
  /\ cl \in [Callers -> ClType]
  /\ srv \in SrvType
  /\ tokens \subseteq [ref : Nat, from : Callers, num : Nat]
  /\ serial \in 0..MaxSerial
  /\ handled \in Seq(Callers \X Nat)
  /\ answers \in [Callers -> [asked : Nat, answered : Nat]]
  /\ glate \in BOOLEAN

\* Everything that stands for a call carries its number as reference, and a
\* client waits for the number it was given last.
Asks == gbox[GServer]

Refs ==
  /\ \A c \in GClients : \A i \in 1..Len(gbox[c]) : gbox[c][i].ref = gbox[c][i].num
  /\ \A i \in 1..Len(Asks) : Asks[i].from \in Callers /\ (Asks[i].tag = "call" => Asks[i].ref = Asks[i].num)
  /\ \A c \in Callers : cl[c].op = "send" =>
       /\ Len(cl[c].out) = 1 /\ cl[c].out[1].from = c /\ cl[c].out[1].num = cl[c].num
       /\ cl[c].out[1].tag = "call" <=> cl[c].to = 1
       /\ cl[c].to = 1 => cl[c].out[1].ref = cl[c].num
  /\ \A c \in Callers : cl[c].op = "wait" \/ (cl[c].op = "send" /\ cl[c].to = 1) =>
       cl[c].ref = answers[c].asked
  /\ srv.at = "call" => srv.from \in Callers /\ srv.ref = srv.num
  /\ srv.at \in {"send", "reply"} =>
       srv.to \in Callers /\ Len(srv.out) = 1 /\ srv.out[1].ref = srv.out[1].num
  /\ \A t \in tokens : t.ref = t.num

\* What a client sent is handled, waits in the mailbox and is about to be sent
\* in the order of its numbers.
Order ==
  /\ HandledInOrder
  /\ \A i \in 1..Len(handled) : handled[i][2] <= serial
  /\ \A k \in 1..Len(Asks) : Asks[k].num <= serial
  /\ \A i \in 1..Len(handled), k \in 1..Len(Asks) : handled[i][1] = Asks[k].from => handled[i][2] < Asks[k].num
  /\ \A k, l \in 1..Len(Asks) : k < l /\ Asks[k].from = Asks[l].from => Asks[k].num < Asks[l].num
  /\ \A c \in Callers : cl[c].op = "send" =>
       /\ cl[c].num <= serial
       /\ \A i \in 1..Len(handled) : handled[i][1] = c => handled[i][2] < cl[c].num
       /\ \A k \in 1..Len(Asks) : Asks[k].from = c => Asks[k].num < cl[c].num

\* The places a call of c can be in.
Sending(c) == cl[c].op = "send" /\ cl[c].to = 1
Asked(c, k) == k \in 1..Len(Asks) /\ Asks[k].tag = "call" /\ Asks[k].from = c
InBox(c) == \E k \in 1..Len(Asks) : Asked(c, k)
InHandler(c) == srv.at = "call" /\ srv.from = c
InReply(c) == srv.at \in {"send", "reply"} /\ srv.to = c
InToken(c) == \E t \in tokens : t.from = c
InMail(c) == gbox[c] # << >>

\* Unless a call has timed out, a client has one call in one place at most, and
\* none unless it is sending it or waiting.
Owed(c) ==
  /\ \A k, l \in 1..Len(Asks) : Asked(c, k) /\ Asked(c, l) => k = l
  /\ \A t, u \in tokens : t.from = c /\ u.from = c => t = u
  /\ Len(gbox[c]) <= 1
  /\ Sending(c) => ~InBox(c) /\ ~InHandler(c) /\ ~InReply(c) /\ ~InToken(c) /\ ~InMail(c)
  /\ InBox(c) => ~InHandler(c) /\ ~InReply(c) /\ ~InToken(c) /\ ~InMail(c)
  /\ InHandler(c) => ~InToken(c) /\ ~InMail(c)
  /\ InReply(c) => ~InToken(c) /\ ~InMail(c)
  /\ InToken(c) => ~InMail(c)
  /\ cl[c].op = "idle" \/ (cl[c].op = "send" /\ cl[c].to = 0) =>
       ~InBox(c) /\ ~InHandler(c) /\ ~InReply(c) /\ ~InToken(c) /\ ~InMail(c)
  /\ cl[c].op = "dead" => ~InMail(c)

AllOwed == ~glate => \A c \in GClients : Owed(c)

GenInv == GType /\ Refs /\ Order /\ AnswersOwn /\ AllOwed

-----------------------------------------------------------------------------
(* Facts about the data. *)

\* Min of a non-empty set of positions is one of them.
LEMMA MinIn ==
  ASSUME NEW T, T \subseteq Nat, T # {}
  PROVE  Min(T) \in T
<1> DEFINE R == OpToRel(<, Nat)
<1>1. IsWellFoundedOn(R, Nat)
  BY NatLessThanWellFounded
<1>2. ASSUME NEW x \in Nat, NEW y \in Nat, ~(<<y, x>> \in R) PROVE x =< y
  <2>1. ~(y < x)
    BY <1>2 DEF OpToRel
  <2> QED
    BY <2>1
<1> HIDE DEF R
<1>3. PICK x \in T : \A y \in T : ~(<<y, x>> \in R)
  BY <1>1, WFMin
<1>4. \A y \in T : x =< y
  BY <1>2, <1>3
<1> QED
  BY <1>4 DEF Min

\* Removing a message leaves one message less, all of them old.
LEMMA RemovedAt ==
  ASSUME NEW S, NEW q \in Seq(S), NEW i \in 1..Len(q)
  PROVE  /\ RemoveAt(q, i) \in Seq(S)
         /\ Len(RemoveAt(q, i)) = Len(q) - 1
         /\ \A j \in 1..Len(RemoveAt(q, i)) : \E k \in 1..Len(q) : RemoveAt(q, i)[j] = q[k]
<1> DEFINE a == SubSeq(q, 1, i - 1)
           b == SubSeq(q, i + 1, Len(q))
<1>1. Len(q) \in Nat /\ i \in Nat
  OBVIOUS
<1>2. /\ a \in Seq(S) /\ Len(a) = i - 1
      /\ \A j \in 1..i - 1 : a[j] = q[j]
  BY <1>1
<1>3. /\ b \in Seq(S) /\ Len(b) = Len(q) - i
      /\ \A j \in 1..Len(q) - i : b[j] = q[i + j]
  BY <1>1
<1>4. RemoveAt(q, i) = a \o b
  BY DEF RemoveAt
<1> HIDE DEF a, b
<1>5. a \o b \in Seq(S) /\ Len(a \o b) = Len(q) - 1
  <2>1. a \o b \in Seq(S) /\ Len(a \o b) = Len(a) + Len(b)
    BY <1>2, <1>3, ConcatProperties
  <2> QED
    BY <1>1, <1>2, <1>3, <2>1
<1>6. ASSUME NEW j \in 1..Len(q) - 1 PROVE \E k \in 1..Len(q) : (a \o b)[j] = q[k]
  <2>1. CASE j <= i - 1
    <3>1. (a \o b)[j] = q[j]
      BY <1>1, <1>2, <1>3, <2>1
    <3> QED
      BY <1>1, <3>1
  <2>2. CASE j > i - 1
    <3>1. (a \o b)[j] = b[j - (i - 1)]
      BY <1>1, <1>2, <1>3, <2>2
    <3>2. j - (i - 1) \in 1..Len(q) - i /\ i + (j - (i - 1)) = j + 1 /\ j + 1 \in 1..Len(q)
      BY <1>1, <2>2
    <3>3. b[j - (i - 1)] = q[j + 1]
      BY <1>3, <3>2
    <3> QED
      BY <3>1, <3>2, <3>3
  <2>3. j \in Int /\ i \in Int
    BY <1>1
  <2>4. j <= i - 1 \/ j > i - 1
    BY <2>3
  <2> QED
    BY <2>1, <2>2, <2>4
<1> QED
  BY <1>4, <1>5, <1>6

\* The fields of what a client is in, of the server's state and of a message.
LEMMA ClFields ==
  ASSUME NEW x \in ClType
  PROVE  /\ x.op \in {"idle", "send", "wait", "dead"} /\ x.to \in {0, 1} /\ x.out \in Seq(GMsg)
         /\ x.ref \in Nat /\ x.num \in Nat
  BY DEF ClType

LEMMA SrvFields ==
  ASSUME NEW x \in SrvType
  PROVE  /\ x.at \in {"init", "recv", "call", "cast", "send", "reply", "terminate", "dead"}
         /\ x.ref \in Nat /\ x.from \in Callers \cup {GServer} /\ x.num \in Nat
         /\ x.out \in Seq(GMsg) /\ x.to \in Callers \cup {GServer}
  BY DEF SrvType

LEMMA MsgFields ==
  ASSUME NEW x \in GMsg
  PROVE  /\ x.tag \in {"call", "cast", "stop", "info", "reply"}
         /\ x.ref \in Nat /\ x.from \in Callers \cup {GServer} /\ x.num \in Nat
  BY DEF GMsg

\* As long as references do not repeat, the next one is the next number.
LEMMA NextRefIs ==
  ASSUME serial \in 0..MaxSerial, serial < MaxSerial
  PROVE  NextRef = serial + 1 /\ serial + 1 \in Nat /\ serial + 1 \in 0..MaxSerial
  BY GenAssumption DEF NextRef

\* What a client and the server can be in.
LEMMA ClStates ==
  /\ IdleCall \in ClType /\ GoneCall \in ClType
  /\ \A x \in ClType : Awaiting(x) \in ClType
<1>1. IdleCall \in ClType /\ GoneCall \in ClType
  BY DEF IdleCall, GoneCall, ClType
<1>2. ASSUME NEW x \in ClType PROVE Awaiting(x) \in ClType
  <2>1. x.to \in {0, 1} /\ x.ref \in Nat /\ x.num \in Nat /\ x.timed \in BOOLEAN
    BY DEF ClType
  <2> QED
    BY <2>1 DEF Awaiting, ClType
<1> QED
  BY <1>1, <1>2

LEMMA SrvStates ==
  /\ \A a \in {"recv", "init", "cast", "terminate"} : Between(a) \in SrvType
  /\ \A w \in {"init", "handler", "stop", "client"} : Ended(w) \in SrvType
  /\ \A a \in {"call", "cast"}, r \in Nat, f \in Callers \cup {GServer}, n \in Nat : Handling(a, r, f, n) \in SrvType
  /\ \A a \in {"send", "reply"}, q \in Seq(GMsg), f \in Callers \cup {GServer} : Replying(a, q, f) \in SrvType
<1>1. \A a \in {"recv", "init", "cast", "terminate"} : Between(a) \in SrvType
  BY DEF Between, SrvType
<1>2. \A w \in {"init", "handler", "stop", "client"} : Ended(w) \in SrvType
  BY DEF Ended, SrvType
<1>3. \A a \in {"call", "cast"}, r \in Nat, f \in Callers \cup {GServer}, n \in Nat : Handling(a, r, f, n) \in SrvType
  BY DEF Handling, SrvType
<1>4. \A a \in {"send", "reply"}, q \in Seq(GMsg), f \in Callers \cup {GServer} : Replying(a, q, f) \in SrvType
  BY DEF Replying, SrvType
<1> QED
  BY <1>1, <1>2, <1>3, <1>4

\* A reply is one message, with the reference and the number of its call.
LEMMA ReplyType ==
  ASSUME NEW r \in Nat, NEW n \in Nat
  PROVE  /\ Reply(r, n) \in Seq(GMsg) /\ Len(Reply(r, n)) = 1
         /\ Reply(r, n)[1].ref = r /\ Reply(r, n)[1].num = n
<1>1. [tag |-> "reply", ref |-> r, from |-> GServer, num |-> n] \in GMsg
  BY DEF GMsg
<1> QED
  BY <1>1 DEF Reply

\* The server is no client, and clients have mailboxes.
LEMMA Apart ==
  /\ GServer \notin Callers /\ GMain \notin GClients /\ GServer # GMain
  /\ GClients \subseteq Callers /\ Callers \subseteq GClients \cup {GMain}
  BY GenAssumption DEF Callers, GMain, GServer

\* Mailboxes are sequences of messages.
LEMMA Boxes ==
  ASSUME GType
  PROVE  /\ Asks \in Seq(GMsg) /\ Len(Asks) \in Nat
         /\ \A k \in 1..Len(Asks) : Asks[k] \in GMsg
         /\ \A c \in GClients : gbox[c] \in Seq(GMsg) /\ Len(gbox[c]) \in Nat
         /\ Len(handled) \in Nat
  BY DEF GType, Asks

-----------------------------------------------------------------------------
(* The steps of the server. *)

\* The server's mailbox has lost some of its first messages, or all.
Shifted(d) ==
  /\ gbox' \in [GClients \cup {GServer} -> Seq(GMsg)]
  /\ \A c \in GClients : gbox'[c] = gbox[c]
  /\ Len(Asks') + d <= Len(Asks)
  /\ \A k \in 1..Len(Asks') : Asks'[k] = Asks[k + d]

\* The server drops messages and ends up with no call in its hands.
LEMMA Quieter ==
  ASSUME GenInv, NEW d \in Nat, Shifted(d), srv' \in SrvType,
         srv'.at \notin {"call", "send", "reply"},
         UNCHANGED <<cl, tokens, serial, handled, answers, glate>>
  PROVE  GenInv'
<1> USE Apart
<1>1. GType /\ Refs /\ Order /\ AnswersOwn /\ AllOwed
  BY DEF GenInv
<1>2. Len(Asks) \in Nat /\ Len(handled) \in Nat
  BY <1>1, Boxes
<1>3. Asks' \in Seq(GMsg) /\ Len(Asks') \in Nat
  BY DEF Shifted, Asks
<1>4. \A k \in 1..Len(Asks') : k + d \in 1..Len(Asks) /\ Asks'[k] = Asks[k + d]
  BY <1>2, <1>3 DEF Shifted
<1>5. \A c \in GClients : gbox'[c] = gbox[c]
  BY DEF Shifted
<1>6. GType'
  BY <1>1 DEF GType, Shifted
<1>7. Refs'
  <2>1. \A k \in 1..Len(Asks') : Asks'[k].from \in Callers /\ (Asks'[k].tag = "call" => Asks'[k].ref = Asks'[k].num)
    BY <1>1, <1>4 DEF Refs
  <2> QED
    BY <1>1, <1>5, <2>1 DEF Refs
<1>8. Order'
  <2>1. \A k \in 1..Len(Asks') : Asks'[k].num <= serial
    BY <1>1, <1>4 DEF Order
  <2>2. \A i \in 1..Len(handled), k \in 1..Len(Asks') : handled[i][1] = Asks'[k].from => handled[i][2] < Asks'[k].num
    BY <1>1, <1>4 DEF Order
  <2>3. \A k, l \in 1..Len(Asks') : k < l /\ Asks'[k].from = Asks'[l].from => Asks'[k].num < Asks'[l].num
    <3> SUFFICES ASSUME NEW k \in 1..Len(Asks'), NEW l \in 1..Len(Asks'), k < l, Asks'[k].from = Asks'[l].from
                 PROVE  Asks'[k].num < Asks'[l].num
      OBVIOUS
    <3>1. k + d < l + d
      BY <1>3
    <3> QED
      BY <1>1, <1>4, <3>1 DEF Order
  <2>4. \A c \in Callers : cl[c].op = "send" => \A k \in 1..Len(Asks') : Asks'[k].from = c => Asks'[k].num < cl[c].num
    BY <1>1, <1>4 DEF Order
  <2> QED
    BY <1>1, <2>1, <2>2, <2>3, <2>4 DEF Order, HandledInOrder
<1>9. AnswersOwn'
  BY <1>1 DEF AnswersOwn
<1>10. AllOwed'
  <2> SUFFICES ASSUME ~glate, NEW c \in GClients PROVE Owed(c)'
    BY DEF AllOwed
  <2>1. Owed(c)
    BY <1>1 DEF AllOwed
  <2>2. \A k \in 1..Len(Asks') : Asked(c, k)' => Asked(c, k + d)
    BY <1>4 DEF Asked
  <2>3. \A k, l \in 1..Len(Asks') : Asked(c, k)' /\ Asked(c, l)' => k = l
    <3> SUFFICES ASSUME NEW k \in 1..Len(Asks'), NEW l \in 1..Len(Asks'), Asked(c, k)', Asked(c, l)' PROVE k = l
      OBVIOUS
    <3>1. k + d = l + d
      BY <1>4, <2>1, <2>2 DEF Owed
    <3> QED
      BY <1>3, <3>1
  <2>4. InBox(c)' => InBox(c)
    BY <1>4, <2>2 DEF InBox
  <2>5. ~InHandler(c)' /\ ~InReply(c)' /\ (InToken(c)' <=> InToken(c)) /\ (InMail(c)' <=> InMail(c)) /\ (Sending(c)' <=> Sending(c))
    BY <1>5 DEF InHandler, InReply, InToken, InMail, Sending
  <2> QED
    BY <1>5, <2>1, <2>3, <2>4, <2>5 DEF Owed
<1> QED
  BY <1>6, <1>7, <1>8, <1>9, <1>10 DEF GenInv

-----------------------------------------------------------------------------
(* The steps of the clients. *)

\* A client that is idle starts to send: a call, or something that wants no
\* answer.
LEMMA Asking ==
  ASSUME GenInv, NEW c \in Callers, cl[c].op = "idle", serial < MaxSerial,
         NEW x \in ClType, x.op = "send", x.num = serial + 1, Len(x.out) = 1, x.out[1] \in GMsg,
         x.out[1].from = c, x.out[1].num = serial + 1, x.out[1].tag = "call" <=> x.to = 1,
         x.to = 1 => x.out[1].ref = serial + 1 /\ x.ref = serial + 1,
         serial' = serial + 1, cl' = [cl EXCEPT ![c] = x],
         \/ x.to = 1 /\ answers' = [answers EXCEPT ![c] = [asked |-> serial + 1, answered |-> 0]]
         \/ x.to = 0 /\ UNCHANGED answers,
         UNCHANGED <<gbox, srv, tokens, handled, glate>>
  PROVE  GenInv'
<1> USE Apart
<1>1. GType /\ Refs /\ Order /\ AnswersOwn /\ AllOwed
  BY DEF GenInv
<1>2. Len(Asks) \in Nat /\ Len(handled) \in Nat /\ serial \in Nat /\ serial + 1 \in 0..MaxSerial /\ serial + 1 \in Nat
  BY <1>1, Boxes, NextRefIs DEF GType
<1>3. /\ cl' \in [Callers -> ClType] /\ cl'[c] = x
      /\ \A b \in Callers : b # c => cl'[b] = cl[b]
  BY <1>1 DEF GType
<1>4. /\ answers' \in [Callers -> [asked : Nat, answered : Nat]]
      /\ \A b \in Callers : b # c => answers'[b] = answers[b]
      /\ x.to = 1 => answers'[c].asked = serial + 1 /\ answers'[c].answered = 0
      /\ x.to # 1 => answers'[c] = answers[c]
  <2>1. answers \in [Callers -> [asked : Nat, answered : Nat]]
    BY <1>1 DEF GType
  <2>2. CASE x.to = 1 /\ answers' = [answers EXCEPT ![c] = [asked |-> serial + 1, answered |-> 0]]
    <3>1. [asked |-> serial + 1, answered |-> 0] \in [asked : Nat, answered : Nat]
      BY <1>2
    <3> QED
      BY <2>1, <2>2, <3>1
  <2>3. CASE x.to = 0 /\ UNCHANGED answers
    BY <2>1, <2>3
  <2> QED
    BY <2>2, <2>3
<1>5. Asks' = Asks
  BY DEF Asks
<1>6. GType'
  BY <1>1, <1>2, <1>3, <1>4 DEF GType
<1>7. Refs'
  <2>1. \A b \in Callers : cl'[b].op = "send" =>
          /\ Len(cl'[b].out) = 1 /\ cl'[b].out[1].from = b /\ cl'[b].out[1].num = cl'[b].num
          /\ cl'[b].out[1].tag = "call" <=> cl'[b].to = 1
          /\ cl'[b].to = 1 => cl'[b].out[1].ref = cl'[b].num
    BY <1>1, <1>3 DEF Refs
  <2>2. \A b \in Callers : cl'[b].op = "wait" \/ (cl'[b].op = "send" /\ cl'[b].to = 1) =>
          cl'[b].ref = answers'[b].asked
    BY <1>1, <1>3, <1>4 DEF Refs
  <2> QED
    BY <1>1, <1>5, <2>1, <2>2 DEF Refs
<1>8. Order'
  <2>1. \A i \in 1..Len(handled) : handled[i][2] \in Nat
    BY <1>1, SMTT(40) DEF GType
  <2>2. \A k \in 1..Len(Asks) : Asks[k].num \in Nat
    BY <1>1, Boxes, MsgFields
  <2>3. \A i \in 1..Len(handled) : handled[i][2] <= serial /\ handled[i][2] < serial + 1 /\ handled[i][2] <= serial + 1
    BY <1>1, <1>2, <2>1 DEF Order
  <2>4. \A k \in 1..Len(Asks) : Asks[k].num <= serial /\ Asks[k].num < serial + 1 /\ Asks[k].num <= serial + 1
    BY <1>1, <1>2, <2>2 DEF Order
  <2>5. \A b \in Callers : cl[b].num \in Nat
    BY <1>1, ClFields DEF GType
  <2>6. ASSUME NEW b \in Callers, cl'[b].op = "send"
        PROVE  /\ cl'[b].num <= serial + 1
               /\ \A i \in 1..Len(handled) : handled[i][1] = b => handled[i][2] < cl'[b].num
               /\ \A k \in 1..Len(Asks) : Asks[k].from = b => Asks[k].num < cl'[b].num
    <3>1. CASE b = c
      BY <1>2, <1>3, <2>3, <2>4, <3>1
    <3>2. CASE b # c
      BY <1>1, <1>2, <1>3, <2>5, <2>6, <3>2 DEF Order
    <3> QED
      BY <3>1, <3>2
  <2> QED
    BY <1>1, <1>5, <2>3, <2>4, <2>6 DEF Order, HandledInOrder
<1>9. AnswersOwn'
  BY <1>1, <1>3, <1>4 DEF AnswersOwn
<1>10. AllOwed'
  <2> SUFFICES ASSUME ~glate, NEW b \in GClients PROVE Owed(b)'
    BY DEF AllOwed
  <2>1. Owed(b)
    BY <1>1 DEF AllOwed
  <2>2. /\ \A k \in 1..Len(Asks) : Asked(b, k)' <=> Asked(b, k)
        /\ InBox(b)' <=> InBox(b)
    BY <1>5 DEF Asked, InBox
  <2>3. (InHandler(b)' <=> InHandler(b)) /\ (InReply(b)' <=> InReply(b)) /\ (InToken(b)' <=> InToken(b)) /\ (InMail(b)' <=> InMail(b))
    BY DEF InHandler, InReply, InToken, InMail
  <2>4. CASE b = c
    BY <1>3, <1>5, <2>1, <2>2, <2>3, <2>4 DEF Owed, Sending
  <2>5. CASE b # c
    BY <1>3, <1>5, <2>1, <2>2, <2>3, <2>5 DEF Owed, Sending
  <2> QED
    BY <2>4, <2>5
<1> QED
  BY <1>6, <1>7, <1>8, <1>9, <1>10 DEF GenInv

\* A client leaves its call, or is killed: nothing of it changes but its own
\* state, and its mailbox if it dies.
LEMMA Leaving ==
  ASSUME GenInv, NEW c \in Callers, NEW x \in ClType, x.op \in {"idle", "dead"}, cl' = [cl EXCEPT ![c] = x],
         \/ c = GMain /\ UNCHANGED <<gbox, glate>>
         \/ glate' = TRUE /\ UNCHANGED gbox
         \/ x.op = "dead" /\ c \in GClients /\ gbox' = [gbox EXCEPT ![c] = << >>] /\ UNCHANGED glate,
         UNCHANGED <<srv, tokens, serial, handled, answers>>
  PROVE  GenInv'
<1> USE Apart
<1>1. GType /\ Refs /\ Order /\ AnswersOwn /\ AllOwed
  BY DEF GenInv
<1>2. /\ cl' \in [Callers -> ClType] /\ cl'[c] = x
      /\ \A b \in Callers : b # c => cl'[b] = cl[b]
  BY <1>1 DEF GType
<1>3. /\ gbox' \in [GClients \cup {GServer} -> Seq(GMsg)] /\ Asks' = Asks
      /\ \A b \in GClients : b # c => gbox'[b] = gbox[b]
      /\ c \in GClients => gbox'[c] = gbox[c] \/ (gbox'[c] = << >> /\ Len(gbox'[c]) = 0)
      /\ glate' \in BOOLEAN /\ (~glate' => ~glate)
  <2>1. gbox \in [GClients \cup {GServer} -> Seq(GMsg)] /\ glate \in BOOLEAN
    BY <1>1 DEF GType
  <2>2. CASE UNCHANGED gbox /\ (UNCHANGED glate \/ glate' = TRUE)
    BY <2>1, <2>2 DEF Asks
  <2>3. CASE c \in GClients /\ gbox' = [gbox EXCEPT ![c] = << >>] /\ UNCHANGED glate
    <3>1. << >> \in Seq(GMsg) /\ Len(<< >>) = 0
      OBVIOUS
    <3>2. gbox' \in [GClients \cup {GServer} -> Seq(GMsg)] /\ gbox'[c] = << >>
      BY <2>1, <2>3, <3>1
    <3>3. \A b \in GClients \cup {GServer} : b # c => gbox'[b] = gbox[b]
      BY <2>1, <2>3
    <3> QED
      BY <2>1, <2>3, <3>1, <3>2, <3>3 DEF Asks
  <2> QED
    BY <2>2, <2>3
<1>4. GType'
  BY <1>1, <1>2, <1>3 DEF GType
<1>5. Refs'
  <2>1. \A b \in GClients : \A i \in 1..Len(gbox'[b]) : gbox'[b][i].ref = gbox'[b][i].num
    BY <1>1, <1>3 DEF Refs
  <2> QED
    BY <1>1, <1>2, <1>3, <2>1 DEF Refs
<1>6. Order'
  BY <1>1, <1>2, <1>3 DEF Order, HandledInOrder
<1>7. AnswersOwn'
  BY <1>1 DEF AnswersOwn
<1>8. AllOwed'
  <2> SUFFICES ASSUME ~glate', NEW b \in GClients PROVE Owed(b)'
    BY DEF AllOwed
  <2>1. Owed(b) /\ (b # c => gbox'[b] = gbox[b])
    BY <1>1, <1>3 DEF AllOwed
  <2>2. /\ \A k \in 1..Len(Asks) : Asked(b, k)' <=> Asked(b, k)
        /\ InBox(b)' <=> InBox(b)
    BY <1>3 DEF Asked, InBox
  <2>3. (InHandler(b)' <=> InHandler(b)) /\ (InReply(b)' <=> InReply(b)) /\ (InToken(b)' <=> InToken(b))
    BY DEF InHandler, InReply, InToken
  <2>4. CASE b = c
    <3>1. x.op = "dead" /\ gbox'[b] = << >> /\ Len(gbox'[b]) = 0
      <4>1. x.op = "dead" /\ gbox' = [gbox EXCEPT ![c] = << >>]
        BY <2>4
      <4> QED
        BY <1>1, <2>4, <4>1 DEF GType
    <3> QED
      BY <1>2, <1>3, <2>1, <2>2, <2>3, <2>4, <3>1 DEF Owed, Sending, InMail
  <2>5. CASE b # c
    BY <1>2, <1>3, <2>1, <2>2, <2>3, <2>5 DEF Owed, Sending, InMail
  <2> QED
    BY <2>4, <2>5
<1> QED
  BY <1>4, <1>5, <1>6, <1>7, <1>8 DEF GenInv

\* The message of a client reaches the server's mailbox, or a dead server.
LEMMA Sent ==
  ASSUME GenInv, NEW c \in Callers, cl[c].op = "send", NEW x \in ClType, cl' = [cl EXCEPT ![c] = x],
         \/ cl[c].to = 0 /\ x.op = "idle"
         \/ cl[c].to = 1 /\ x.op = "wait" /\ x.ref = cl[c].ref,
         \/ UNCHANGED gbox
         \/ gbox' = [gbox EXCEPT ![GServer] = Append(@, cl[c].out[1])],
         UNCHANGED <<srv, tokens, serial, handled, answers, glate>>
  PROVE  GenInv'
<1> USE Apart
<1> DEFINE m == cl[c].out[1]
<1>1. GType /\ Refs /\ Order /\ AnswersOwn /\ AllOwed
  BY DEF GenInv
<1>2. /\ Len(Asks) \in Nat /\ Len(handled) \in Nat /\ Asks \in Seq(GMsg)
      /\ \A k \in 1..Len(Asks) : Asks[k] \in GMsg
  BY <1>1, Boxes
<1>3. m.from = c /\ m.num = cl[c].num /\ (m.tag = "call" <=> cl[c].to = 1) /\ (cl[c].to = 1 => m.ref = m.num) /\ m \in GMsg
  <2>1. cl[c].out \in Seq(GMsg) /\ Len(cl[c].out) = 1
    BY <1>1, ClFields DEF GType, Refs
  <2>2. m \in GMsg
    BY <2>1
  <2> QED
    BY <1>1, <2>2 DEF Refs
<1>4. /\ cl' \in [Callers -> ClType] /\ cl'[c] = x
      /\ \A b \in Callers : b # c => cl'[b] = cl[b]
  BY <1>1 DEF GType
<1> HIDE DEF m
<1>5. /\ gbox' \in [GClients \cup {GServer} -> Seq(GMsg)] /\ Asks' \in Seq(GMsg) /\ Len(Asks') \in Nat
      /\ \A b \in GClients : gbox'[b] = gbox[b]
      /\ Len(Asks) <= Len(Asks') /\ Len(Asks') <= Len(Asks) + 1
      /\ \A k \in 1..Len(Asks) : Asks'[k] = Asks[k]
      /\ \A k \in 1..Len(Asks') : k \in 1..Len(Asks) \/ (k = Len(Asks) + 1 /\ Asks'[k] = m)
  <2>1. gbox \in [GClients \cup {GServer} -> Seq(GMsg)]
    BY <1>1 DEF GType
  <2>2. CASE UNCHANGED gbox
    BY <1>2, <2>1, <2>2 DEF Asks
  <2>3. CASE gbox' = [gbox EXCEPT ![GServer] = Append(@, cl[c].out[1])]
    <3>1. Asks' = Append(Asks, m) /\ \A b \in GClients : gbox'[b] = gbox[b]
      BY <2>1, <2>3 DEF Asks, m
    <3>2. /\ Append(Asks, m) \in Seq(GMsg) /\ Len(Append(Asks, m)) = Len(Asks) + 1
          /\ \A k \in 1..Len(Asks) : Append(Asks, m)[k] = Asks[k]
          /\ Append(Asks, m)[Len(Asks) + 1] = m
      BY <1>2, <1>3, AppendProperties
    <3>3. gbox' \in [GClients \cup {GServer} -> Seq(GMsg)]
      BY <2>1, <2>3, <3>2 DEF Asks, m
    <3> QED
      BY <1>2, <3>1, <3>2, <3>3
  <2> QED
    BY <2>2, <2>3
<1>6. GType'
  BY <1>1, <1>4, <1>5 DEF GType
<1>7. Refs'
  <2>1. \A k \in 1..Len(Asks') : Asks'[k].from \in Callers /\ (Asks'[k].tag = "call" => Asks'[k].ref = Asks'[k].num)
    BY <1>1, <1>3, <1>5 DEF Refs
  <2>2. \A b \in Callers : cl'[b].op = "send" =>
          /\ Len(cl'[b].out) = 1 /\ cl'[b].out[1].from = b /\ cl'[b].out[1].num = cl'[b].num
          /\ cl'[b].out[1].tag = "call" <=> cl'[b].to = 1
          /\ cl'[b].to = 1 => cl'[b].out[1].ref = cl'[b].num
    BY <1>1, <1>4 DEF Refs
  <2>3. \A b \in Callers : cl'[b].op = "wait" \/ (cl'[b].op = "send" /\ cl'[b].to = 1) =>
          cl'[b].ref = answers[b].asked
    BY <1>1, <1>4 DEF Refs
  <2> QED
    BY <1>1, <1>5, <2>1, <2>2, <2>3, SMTT(40) DEF Refs
<1>8. Order'
  <2>1. /\ m.num <= serial
        /\ \A i \in 1..Len(handled) : handled[i][1] = m.from => handled[i][2] < m.num
        /\ \A k \in 1..Len(Asks) : Asks[k].from = m.from => Asks[k].num < m.num
    BY <1>1, <1>3 DEF Order
  <2>2. \A k \in 1..Len(Asks') : Asks'[k].num <= serial
    BY <1>1, <1>5, <2>1 DEF Order
  <2>3. \A i \in 1..Len(handled), k \in 1..Len(Asks') : handled[i][1] = Asks'[k].from => handled[i][2] < Asks'[k].num
    BY <1>1, <1>5, <2>1 DEF Order
  <2>4. ASSUME NEW k \in 1..Len(Asks'), NEW l \in 1..Len(Asks'), k < l, Asks'[k].from = Asks'[l].from
        PROVE  Asks'[k].num < Asks'[l].num
    <3>1. k \in 1..Len(Asks)
      BY <1>2, <1>5, <2>4
    <3>2. CASE l \in 1..Len(Asks)
      BY <1>1, <1>5, <2>4, <3>1, <3>2 DEF Order
    <3>3. CASE l = Len(Asks) + 1 /\ Asks'[l] = m
      BY <1>5, <2>1, <2>4, <3>1, <3>3
    <3> QED
      BY <1>5, <3>2, <3>3
  <2>5. ASSUME NEW b \in Callers, cl'[b].op = "send"
        PROVE  /\ cl'[b].num <= serial
               /\ \A i \in 1..Len(handled) : handled[i][1] = b => handled[i][2] < cl'[b].num
               /\ \A k \in 1..Len(Asks') : Asks'[k].from = b => Asks'[k].num < cl'[b].num
    <3>1. b # c /\ cl'[b] = cl[b]
      BY <1>4, <2>5
    <3> QED
      BY <1>1, <1>3, <1>5, <2>5, <3>1, ZenonT(40) DEF Order
  <2> QED
    BY <1>1, <2>2, <2>3, <2>4, <2>5 DEF Order, HandledInOrder
<1>9. AnswersOwn'
  BY <1>1 DEF AnswersOwn
<1>10. AllOwed'
  <2> SUFFICES ASSUME ~glate, NEW b \in GClients PROVE Owed(b)'
    BY DEF AllOwed
  <2>1. Owed(b)
    BY <1>1 DEF AllOwed
  <2>2. (InHandler(b)' <=> InHandler(b)) /\ (InReply(b)' <=> InReply(b)) /\ (InToken(b)' <=> InToken(b)) /\ (InMail(b)' <=> InMail(b))
    BY <1>5 DEF InHandler, InReply, InToken, InMail
  <2>3. CASE b # c \/ cl[c].to = 0
    <3>1. \A k \in 1..Len(Asks') : Asked(b, k)' => k \in 1..Len(Asks) /\ Asked(b, k)
      BY <1>3, <1>5, <2>3 DEF Asked
    <3>2. InBox(b)' => InBox(b)
      BY <3>1 DEF InBox
    <3>3. \A k, l \in 1..Len(Asks') : Asked(b, k)' /\ Asked(b, l)' => k = l
      BY <2>1, <3>1 DEF Owed
    <3>4. CASE b # c
      BY <1>4, <1>5, <2>1, <2>2, <3>2, <3>3, <3>4 DEF Owed, Sending
    <3>5. CASE b = c
      <4>1. ~InBox(c) /\ ~InHandler(c) /\ ~InReply(c) /\ ~InToken(c) /\ ~InMail(c)
        BY <2>1, <2>3, <3>5 DEF Owed
      <4> QED
        BY <1>4, <1>5, <2>1, <2>2, <3>2, <3>3, <3>5, <4>1 DEF Owed, Sending
    <3> QED
      BY <3>4, <3>5
  <2>4. CASE b = c /\ cl[c].to = 1
    <3>1. ~InBox(c) /\ ~InHandler(c) /\ ~InReply(c) /\ ~InToken(c) /\ ~InMail(c)
      BY <2>1, <2>4 DEF Owed, Sending
    <3>2. \A k \in 1..Len(Asks) : ~Asked(c, k)
      BY <3>1 DEF InBox
    <3>3. \A k \in 1..Len(Asks') : Asked(c, k)' => k = Len(Asks) + 1
      BY <1>5, <3>2 DEF Asked
    <3>4. cl'[c].op = "wait"
      BY <1>4, <2>4
    <3> QED
      BY <1>5, <2>1, <2>2, <2>4, <3>1, <3>3, <3>4 DEF Owed, Sending
  <2> QED
    BY <1>1, <2>3, <2>4 DEF Refs
<1> QED
  BY <1>6, <1>7, <1>8, <1>9, <1>10 DEF GenInv

\* A client takes the first message that carries its reference.
LEMMA Answered ==
  ASSUME GenInv, NEW c \in Callers, ClientTakes(c)
  PROVE  GenInv'
<1> USE Apart
<1> DEFINE i == Min(Matches(c))
<1>1. GType /\ Refs /\ Order /\ AnswersOwn /\ AllOwed
  BY DEF GenInv
<1>2. c \in GClients /\ cl[c].op = "wait"
  BY DEF ClientTakes
<1>3. gbox[c] \in Seq(GMsg) /\ Len(gbox[c]) \in Nat
  BY <1>1, <1>2, Boxes
<1>4. i \in 1..Len(gbox[c]) /\ gbox[c][i].ref = cl[c].ref
  <2>1. Matches(c) \subseteq 1..Len(gbox[c])
    BY <1>3 DEF Matches
  <2>2. i \in Matches(c)
    BY <2>1, MinIn DEF ClientTakes
  <2> QED
    BY <2>1, <2>2 DEF Matches
<1>5. gbox[c][i].num = answers[c].asked /\ gbox[c][i].num \in Nat
  <2>1. gbox[c][i] \in GMsg
    BY <1>3, <1>4
  <2>2. gbox[c][i].num \in Nat
    BY <2>1, MsgFields
  <2> QED
    BY <1>1, <1>2, <1>4, <2>2 DEF Refs
<1>6. /\ RemoveAt(gbox[c], i) \in Seq(GMsg)
      /\ Len(RemoveAt(gbox[c], i)) = Len(gbox[c]) - 1
      /\ \A j \in 1..Len(RemoveAt(gbox[c], i)) : \E k \in 1..Len(gbox[c]) : RemoveAt(gbox[c], i)[j] = gbox[c][k]
  BY <1>3, <1>4, RemovedAt
<1> HIDE DEF i
<1>7. /\ gbox' \in [GClients \cup {GServer} -> Seq(GMsg)] /\ Asks' = Asks
      /\ \A b \in GClients : b # c => gbox'[b] = gbox[b]
      /\ gbox'[c] = RemoveAt(gbox[c], i)
  <2>1. gbox' = [gbox EXCEPT ![c] = RemoveAt(gbox[c], i)]
    BY <1>1, <1>2 DEF ClientTakes, i
  <2> QED
    BY <1>1, <1>2, <1>6, <2>1 DEF GType, Asks
<1>8. /\ cl' \in [Callers -> ClType] /\ cl'[c] = IdleCall /\ IdleCall.op = "idle"
      /\ \A b \in Callers : b # c => cl'[b] = cl[b]
  <2>1. IdleCall.op = "idle"
    BY DEF IdleCall
  <2> QED
    BY <1>1, <2>1, ClStates DEF GType, ClientTakes
<1>9. /\ answers' \in [Callers -> [asked : Nat, answered : Nat]]
      /\ \A b \in Callers : b # c => answers'[b] = answers[b]
      /\ answers'[c].asked = answers[c].asked /\ answers'[c].answered = answers[c].asked
  <2>1. answers \in [Callers -> [asked : Nat, answered : Nat]] /\ answers[c].asked \in Nat
    BY <1>1 DEF GType
  <2>2. answers' = [answers EXCEPT ![c] = [asked |-> answers[c].asked, answered |-> gbox[c][i].num]]
    BY <2>1 DEF ClientTakes, i
  <2>3. [asked |-> answers[c].asked, answered |-> gbox[c][i].num] \in [asked : Nat, answered : Nat]
    BY <1>5, <2>1
  <2> QED
    BY <1>5, <2>1, <2>2, <2>3
<1>10. UNCHANGED <<srv, tokens, serial, handled, glate>>
  BY DEF ClientTakes
<1>11. GType'
  BY <1>1, <1>7, <1>8, <1>9, <1>10 DEF GType
<1>12. Refs'
  <2>1. \A b \in GClients : \A j \in 1..Len(gbox'[b]) : gbox'[b][j].ref = gbox'[b][j].num
    <3>1. \A b \in GClients : \A j \in 1..Len(gbox[b]) : gbox[b][j].ref = gbox[b][j].num
      BY <1>1 DEF Refs
    <3>2. \A j \in 1..Len(gbox'[c]) : gbox'[c][j].ref = gbox'[c][j].num
      <4> SUFFICES ASSUME NEW j \in 1..Len(gbox'[c]) PROVE gbox'[c][j].ref = gbox'[c][j].num
        OBVIOUS
      <4>1. PICK k \in 1..Len(gbox[c]) : gbox'[c][j] = gbox[c][k]
        BY <1>6, <1>7
      <4> QED
        BY <1>2, <3>1, <4>1
    <3> QED
      BY <1>7, <3>1, <3>2
  <2>2. \A b \in Callers : cl'[b].op = "send" =>
          /\ Len(cl'[b].out) = 1 /\ cl'[b].out[1].from = b /\ cl'[b].out[1].num = cl'[b].num
          /\ cl'[b].out[1].tag = "call" <=> cl'[b].to = 1
          /\ cl'[b].to = 1 => cl'[b].out[1].ref = cl'[b].num
    BY <1>1, <1>8 DEF Refs
  <2>3. \A b \in Callers : cl'[b].op = "wait" \/ (cl'[b].op = "send" /\ cl'[b].to = 1) =>
          cl'[b].ref = answers'[b].asked
    BY <1>1, <1>8, <1>9, SMTT(40) DEF Refs
  <2> QED
    BY <1>1, <1>7, <1>10, <2>1, <2>2, <2>3 DEF Refs
<1>13. Order'
  BY <1>1, <1>7, <1>8, <1>10 DEF Order, HandledInOrder
<1>14. AnswersOwn'
  BY <1>1, <1>9 DEF AnswersOwn
<1>15. AllOwed'
  <2> SUFFICES ASSUME ~glate, NEW b \in GClients PROVE Owed(b)'
    BY <1>10 DEF AllOwed
  <2>1. Owed(b)
    BY <1>1 DEF AllOwed
  <2>2. /\ \A k \in 1..Len(Asks) : Asked(b, k)' <=> Asked(b, k)
        /\ InBox(b)' <=> InBox(b)
    BY <1>7 DEF Asked, InBox
  <2>3. (InHandler(b)' <=> InHandler(b)) /\ (InReply(b)' <=> InReply(b)) /\ (InToken(b)' <=> InToken(b))
    BY <1>10 DEF InHandler, InReply, InToken
  <2>4. CASE b # c
    BY <1>7, <1>8, <1>10, <2>1, <2>2, <2>3, <2>4 DEF Owed, Sending, InMail
  <2>5. CASE b = c
    <3>1. gbox[c] # << >> /\ Len(gbox[c]) = 1
      <4>1. Len(gbox[c]) <= 1
        BY <2>1, <2>5 DEF Owed
      <4>2. 1 <= Len(gbox[c])
        BY <1>3, <1>4
      <4>3. \A n \in Nat : n <= 1 /\ 1 <= n => n = 1
        OBVIOUS
      <4>4. Len(gbox[c]) = 1
        BY <1>3, <4>1, <4>2, <4>3
      <4> QED
        BY <4>4
    <3>2. Len(gbox'[c]) = 0 /\ gbox'[c] = << >>
      BY <1>6, <1>7, <3>1
    <3>3. ~InBox(c) /\ ~InHandler(c) /\ ~InReply(c) /\ ~InToken(c)
      BY <2>1, <2>5, <3>1 DEF Owed, InMail
    <3> QED
      BY <1>7, <1>8, <1>10, <2>1, <2>2, <2>3, <2>5, <3>2, <3>3 DEF Owed, Sending, InMail
  <2> QED
    BY <2>4, <2>5
<1> QED
  BY <1>11, <1>12, <1>13, <1>14, <1>15 DEF GenInv

-----------------------------------------------------------------------------
(* A message in the server's hands. *)

\* The server takes the first message and runs its handler.
LEMMA Accepted ==
  ASSUME GenInv, srv.at = "recv", gbox[GServer] # << >>,
         gbox' = [gbox EXCEPT ![GServer] = Tail(gbox[GServer])],
         handled' = Append(handled, << Asks[1].from, Asks[1].num >>),
         \/ Asks[1].tag = "call" /\ srv' = Handling("call", Asks[1].ref, Asks[1].from, Asks[1].num)
         \/ srv' = Handling("cast", 0, GServer, Asks[1].num),
         UNCHANGED <<cl, tokens, serial, answers, glate>>
  PROVE  GenInv'
<1> USE Apart
<1> DEFINE m == Asks[1]
<1>1. GType /\ Refs /\ Order /\ AnswersOwn /\ AllOwed
  BY DEF GenInv
<1>2. /\ Len(Asks) \in Nat /\ Len(handled) \in Nat /\ Asks \in Seq(GMsg)
      /\ \A k \in 1..Len(Asks) : Asks[k] \in GMsg
  BY <1>1, Boxes
<1>3. 1 \in 1..Len(Asks) /\ Asks # << >>
  BY <1>2 DEF Asks
<1>4. m \in GMsg /\ m.from \in Callers /\ (m.tag = "call" => m.ref = m.num) /\ m.num \in Nat /\ m.ref \in Nat
  BY <1>1, <1>2, <1>3, MsgFields DEF Refs
<1>5. /\ gbox' \in [GClients \cup {GServer} -> Seq(GMsg)] /\ Asks' \in Seq(GMsg) /\ Len(Asks') = Len(Asks) - 1
      /\ \A b \in GClients : gbox'[b] = gbox[b]
      /\ \A k \in 1..Len(Asks') : k + 1 \in 1..Len(Asks) /\ Asks'[k] = Asks[k + 1] /\ 1 < k + 1
  <2>1. gbox \in [GClients \cup {GServer} -> Seq(GMsg)]
    BY <1>1 DEF GType
  <2>2. Asks' = Tail(Asks) /\ \A b \in GClients : gbox'[b] = gbox[b]
    BY <2>1 DEF Asks
  <2>3. /\ Tail(Asks) \in Seq(GMsg) /\ Len(Tail(Asks)) = Len(Asks) - 1
        /\ \A k \in 1..Len(Tail(Asks)) : Tail(Asks)[k] = Asks[k + 1]
    BY <1>2, <1>3, HeadTailProperties
  <2>4. gbox' \in [GClients \cup {GServer} -> Seq(GMsg)]
    BY <2>1, <2>3 DEF Asks
  <2> QED
    BY <1>2, <1>3, <2>2, <2>3, <2>4
<1>6. /\ handled' \in Seq(Callers \X Nat) /\ Len(handled') = Len(handled) + 1
      /\ \A i \in 1..Len(handled) : handled'[i] = handled[i]
      /\ handled'[Len(handled) + 1] = << m.from, m.num >>
  <2>1. << m.from, m.num >> \in Callers \X Nat /\ handled \in Seq(Callers \X Nat)
    BY <1>1, <1>4 DEF GType
  <2> QED
    BY <2>1, AppendProperties
<1>7. /\ srv' \in SrvType /\ srv'.at \in {"call", "cast"}
      /\ srv'.at = "call" => m.tag = "call" /\ srv'.from = m.from /\ srv'.ref = m.ref /\ srv'.num = m.num
  <2>1. CASE m.tag = "call" /\ srv' = Handling("call", m.ref, m.from, m.num)
    BY <1>4, <2>1, SrvStates DEF Handling
  <2>2. CASE srv' = Handling("cast", 0, GServer, m.num)
    BY <1>4, <2>2, SrvStates DEF Handling
  <2> QED
    BY <2>1, <2>2
<1> HIDE DEF m
<1>8. \A i \in 1..Len(handled') : i \in 1..Len(handled) \/ (i = Len(handled) + 1 /\ handled'[i] = << m.from, m.num >>)
  BY <1>2, <1>6
<1>9. GType'
  BY <1>1, <1>5, <1>6, <1>7 DEF GType
<1>10. Refs'
  <2>1. \A k \in 1..Len(Asks') : Asks'[k].from \in Callers /\ (Asks'[k].tag = "call" => Asks'[k].ref = Asks'[k].num)
    <3>1. \A k \in 1..Len(Asks) : Asks[k].from \in Callers /\ (Asks[k].tag = "call" => Asks[k].ref = Asks[k].num)
      BY <1>1 DEF Refs
    <3>2. \A k \in 1..Len(Asks') : k + 1 \in 1..Len(Asks) /\ Asks'[k] = Asks[k + 1]
      BY <1>5
    <3> QED
      BY <3>1, <3>2
  <2>2. srv'.at = "call" => srv'.from \in Callers /\ srv'.ref = srv'.num
    BY <1>4, <1>7
  <2>3. srv'.at \notin {"send", "reply"}
    BY <1>7
  <2> QED
    BY <1>1, <1>5, <2>1, <2>2, <2>3 DEF Refs
<1>11. Order'
  <2>1. /\ m.num <= serial
        /\ \A i \in 1..Len(handled) : handled[i][1] = m.from => handled[i][2] < m.num
        /\ \A k \in 1..Len(Asks) : 1 < k /\ Asks[k].from = m.from => m.num < Asks[k].num
    BY <1>1, <1>3 DEF Order, m
  <2>2. << m.from, m.num >>[1] = m.from /\ << m.from, m.num >>[2] = m.num
    OBVIOUS
  <2>3. ASSUME NEW i \in 1..Len(handled'), NEW j \in 1..Len(handled'), i < j, handled'[i][1] = handled'[j][1]
        PROVE  handled'[i][2] < handled'[j][2]
    <3>1. i \in 1..Len(handled)
      BY <1>2, <1>6, <2>3
    <3>2. CASE j \in 1..Len(handled)
      <4>1. i \in DOMAIN handled /\ j \in DOMAIN handled
        <5>1. handled \in Seq(Callers \X Nat)
          BY <1>1 DEF GType
        <5> QED
          BY <3>1, <3>2, <5>1
      <4> QED
        BY <1>1, <1>6, <2>3, <3>1, <3>2, <4>1 DEF Order, HandledInOrder
    <3>3. CASE j = Len(handled) + 1 /\ handled'[j] = << m.from, m.num >>
      BY <1>6, <2>1, <2>2, <2>3, <3>1, <3>3
    <3> QED
      BY <1>8, <3>2, <3>3
  <2>4. HandledInOrder'
    <3>1. DOMAIN handled' = 1..Len(handled')
      BY <1>6
    <3> QED
      BY <2>3, <3>1 DEF HandledInOrder
  <2>5. \A i \in 1..Len(handled') : handled'[i][2] <= serial
    BY <1>1, <1>6, <1>8, <2>1, <2>2 DEF Order
  <2>6. \A k \in 1..Len(Asks') : Asks'[k].num <= serial
    BY <1>1, <1>5 DEF Order
  <2>10. ASSUME NEW k \in 1..Len(Asks')
         PROVE  k + 1 \in 1..Len(Asks) /\ Asks'[k] = Asks[k + 1] /\ 1 < k + 1
    BY <1>5
  <2>7. ASSUME NEW i \in 1..Len(handled'), NEW k \in 1..Len(Asks'), handled'[i][1] = Asks'[k].from
        PROVE  handled'[i][2] < Asks'[k].num
    <3> DEFINE n == k + 1
    <3>1. n \in 1..Len(Asks) /\ Asks'[k] = Asks[n] /\ 1 < n
      BY <2>10
    <3> HIDE DEF n
    <3>2. CASE i \in 1..Len(handled)
      <4>1. handled'[i] = handled[i]
        BY <1>6, <3>2
      <4> QED
        BY <1>1, <2>7, <3>1, <3>2, <4>1 DEF Order
    <3>3. CASE i = Len(handled) + 1 /\ handled'[i] = << m.from, m.num >>
      BY <2>1, <2>2, <2>7, <3>1, <3>3
    <3> QED
      BY <1>8, <3>2, <3>3
  <2>8. ASSUME NEW k \in 1..Len(Asks'), NEW l \in 1..Len(Asks'), k < l, Asks'[k].from = Asks'[l].from
        PROVE  Asks'[k].num < Asks'[l].num
    <3> DEFINE n == k + 1
               o == l + 1
    <3>1. n < o
      BY <1>2, <1>5, <2>8
    <3>2. n \in 1..Len(Asks) /\ Asks'[k] = Asks[n] /\ o \in 1..Len(Asks) /\ Asks'[l] = Asks[o]
      BY <2>10
    <3> HIDE DEF n, o
    <3> QED
      BY <1>1, <2>8, <3>1, <3>2 DEF Order
  <2>9. ASSUME NEW b \in Callers, cl[b].op = "send"
        PROVE  /\ cl[b].num <= serial
               /\ \A i \in 1..Len(handled') : handled'[i][1] = b => handled'[i][2] < cl[b].num
               /\ \A k \in 1..Len(Asks') : Asks'[k].from = b => Asks'[k].num < cl[b].num
    <3>1. m.from = b => m.num < cl[b].num
      BY <1>1, <1>3, <2>9 DEF Order, m
    <3>2. /\ cl[b].num <= serial
          /\ \A i \in 1..Len(handled) : handled[i][1] = b => handled[i][2] < cl[b].num
          /\ \A k \in 1..Len(Asks) : Asks[k].from = b => Asks[k].num < cl[b].num
      BY <1>1, <2>9 DEF Order
    <3>3. \A i \in 1..Len(handled') : handled'[i][1] = b => handled'[i][2] < cl[b].num
      BY <1>6, <1>8, <2>2, <3>1, <3>2
    <3>4. \A k \in 1..Len(Asks') : Asks'[k].from = b => Asks'[k].num < cl[b].num
      BY <2>10, <3>2
    <3> QED
      BY <3>2, <3>3, <3>4
  <2> QED
    BY <2>4, <2>5, <2>6, <2>7, <2>8, <2>9 DEF Order
<1>12. AnswersOwn'
  BY <1>1 DEF AnswersOwn
<1>13. AllOwed'
  <2> SUFFICES ASSUME ~glate, NEW b \in GClients PROVE Owed(b)'
    BY DEF AllOwed
  <2>1. Owed(b)
    BY <1>1 DEF AllOwed
  <2>2. \A k \in 1..Len(Asks') : Asked(b, k)' => Asked(b, k + 1)
    BY <1>5 DEF Asked
  <2>3. \A k, l \in 1..Len(Asks') : Asked(b, k)' /\ Asked(b, l)' => k = l
    <3> SUFFICES ASSUME NEW k \in 1..Len(Asks'), NEW l \in 1..Len(Asks'), Asked(b, k)', Asked(b, l)' PROVE k = l
      OBVIOUS
    <3>1. k + 1 = l + 1
      BY <1>5, <2>1, <2>2 DEF Owed
    <3> QED
      BY <1>2, <1>5, <3>1
  <2>4. InBox(b)' => InBox(b)
    BY <1>5, <2>2 DEF InBox
  <2>5. InHandler(b)' => Asked(b, 1) /\ InBox(b) /\ ~InBox(b)'
    <3> SUFFICES ASSUME InHandler(b)' PROVE Asked(b, 1) /\ InBox(b) /\ ~InBox(b)'
      OBVIOUS
    <3>1. Asked(b, 1)
      BY <1>3, <1>7 DEF InHandler, Asked, m
    <3>2. InBox(b)
      BY <1>3, <3>1 DEF InBox
    <3>3. ASSUME NEW k \in 1..Len(Asks'), Asked(b, k)' PROVE FALSE
      <4>1. k + 1 = 1
        BY <1>3, <1>5, <2>1, <2>2, <3>1, <3>3 DEF Owed
      <4> QED
        BY <1>5, <4>1
    <3> QED
      BY <3>1, <3>2, <3>3 DEF InBox
  <2>6. ~InReply(b)' /\ (InToken(b)' <=> InToken(b)) /\ (InMail(b)' <=> InMail(b)) /\ (Sending(b)' <=> Sending(b))
    BY <1>5, <1>7 DEF InReply, InToken, InMail, Sending
  <2> QED
    BY <1>5, <2>1, <2>3, <2>4, <2>5, <2>6 DEF Owed
<1> QED
  BY <1>9, <1>10, <1>11, <1>12, <1>13 DEF GenInv

\* The server has finished a call: it sends the reply, or has kept a token for
\* the caller.
LEMMA CallDone ==
  ASSUME GenInv, srv.at = "call",
         \/ srv' = Replying("send", Reply(srv.ref, srv.num), srv.from) /\ UNCHANGED tokens
         \/ /\ srv' = Between("recv")
            /\ tokens' = tokens \cup {[ref |-> srv.ref, from |-> srv.from, num |-> srv.num]},
         UNCHANGED <<gbox, cl, serial, handled, answers, glate>>
  PROVE  GenInv'
<1> USE Apart
<1> DEFINE c == srv.from
           n == srv.num
           t == [ref |-> srv.ref, from |-> srv.from, num |-> srv.num]
           q == Reply(srv.ref, srv.num)
<1>1. GType /\ Refs /\ Order /\ AnswersOwn /\ AllOwed
  BY DEF GenInv
<1>2. c \in Callers /\ srv.ref = n /\ n \in Nat /\ srv.ref \in Nat
  BY <1>1, SrvFields DEF Refs, GType
<1>3. q \in Seq(GMsg) /\ Len(q) = 1 /\ q[1].ref = q[1].num
  BY <1>2, ReplyType
<1>4. t \in [ref : Nat, from : Callers, num : Nat] /\ t.from = c /\ t.ref = t.num
  BY <1>2
<1>5. Asks' = Asks
  BY DEF Asks
<1>6. ASSUME ~glate, NEW b \in GClients
      PROVE  /\ Owed(b)
             /\ \A k \in 1..Len(Asks) : Asked(b, k)' <=> Asked(b, k)
             /\ InBox(b)' <=> InBox(b)
             /\ InMail(b)' <=> InMail(b)
             /\ Sending(b)' <=> Sending(b)
             /\ InHandler(b) <=> b = c
  BY <1>1, <1>5, <1>6 DEF AllOwed, Asked, InBox, InMail, Sending, InHandler
<1>7. CASE srv' = Replying("send", q, c) /\ UNCHANGED tokens
  <2>1. srv' \in SrvType /\ srv'.at = "send" /\ srv'.to = c /\ srv'.out = q
    BY <1>2, <1>3, <1>7, SrvStates DEF Replying
  <2>2. GType'
    BY <1>1, <1>7, <2>1 DEF GType
  <2>3. Refs'
    BY <1>1, <1>2, <1>3, <1>5, <1>7, <2>1 DEF Refs
  <2>4. Order' /\ AnswersOwn'
    BY <1>1, <1>5 DEF Order, HandledInOrder, AnswersOwn
  <2>5. AllOwed'
    <3> SUFFICES ASSUME ~glate, NEW b \in GClients PROVE Owed(b)'
      BY DEF AllOwed
    <3>1. ~InHandler(b)' /\ (InReply(b)' <=> InHandler(b)) /\ (InToken(b)' <=> InToken(b))
      BY <1>6, <1>7, <2>1 DEF InHandler, InReply, InToken
    <3>2. Owed(b)
      BY <1>6
    <3> QED
      BY <1>5, <1>6, <1>7, <3>1, <3>2 DEF Owed
  <2> QED
    BY <2>2, <2>3, <2>4, <2>5 DEF GenInv
<1>8. CASE srv' = Between("recv") /\ tokens' = tokens \cup {t}
  <2>1. srv' \in SrvType /\ srv'.at = "recv"
    BY <1>8, SrvStates DEF Between
  <2>2. GType'
    BY <1>1, <1>4, <1>8, <2>1 DEF GType
  <2>3. Refs'
    BY <1>1, <1>4, <1>5, <1>8, <2>1 DEF Refs
  <2>4. Order' /\ AnswersOwn'
    BY <1>1, <1>5 DEF Order, HandledInOrder, AnswersOwn
  <2>5. AllOwed'
    <3> SUFFICES ASSUME ~glate, NEW b \in GClients PROVE Owed(b)'
      BY DEF AllOwed
    <3>1. ~InHandler(b)' /\ ~InReply(b)' /\ (InToken(b)' <=> InToken(b) \/ b = c)
      BY <1>4, <1>8, <2>1 DEF InHandler, InReply, InToken
    <3>2. Owed(b)
      BY <1>6
    <3>3. \A u, v \in tokens' : u.from = b /\ v.from = b => u = v
      <4>1. CASE b # c
        BY <1>4, <1>8, <3>2, <4>1 DEF Owed
      <4>2. CASE b = c
        <5>1. \A u \in tokens : u.from # b
          BY <1>6, <3>2, <4>2 DEF Owed, InToken
        <5> QED
          BY <1>8, <5>1
      <4> QED
        BY <4>1, <4>2
    <3> QED
      BY <1>5, <1>6, <3>1, <3>2, <3>3 DEF Owed
  <2> QED
    BY <2>2, <2>3, <2>4, <2>5 DEF GenInv
<1> QED
  BY <1>7, <1>8

\* A handler answers a kept token.
LEMMA TokenUsed ==
  ASSUME GenInv, NEW t \in tokens, gen_reply(t)
  PROVE  GenInv'
<1> USE Apart
<1> DEFINE q == Reply(t.ref, t.num)
<1>1. GType /\ Refs /\ Order /\ AnswersOwn /\ AllOwed
  BY DEF GenInv
<1>2. srv.at = "cast" /\ tokens' = tokens \ {t} /\ srv' = Replying("reply", q, t.from)
      /\ UNCHANGED <<gbox, cl, serial, handled, answers, glate>>
  BY DEF gen_reply
<1>3. t.from \in Callers /\ t.ref = t.num /\ t.num \in Nat /\ t.ref \in Nat
  <2>1. t \in [ref : Nat, from : Callers, num : Nat]
    BY <1>1 DEF GType
  <2> QED
    BY <1>1, <2>1 DEF Refs
<1>4. q \in Seq(GMsg) /\ Len(q) = 1 /\ q[1].ref = q[1].num
  BY <1>3, ReplyType
<1>5. srv' \in SrvType /\ srv'.at = "reply" /\ srv'.to = t.from /\ srv'.out = q
  BY <1>2, <1>3, <1>4, SrvStates DEF Replying
<1>6. Asks' = Asks
  BY <1>2 DEF Asks
<1>7. GType'
  BY <1>1, <1>2, <1>5 DEF GType
<1>8. Refs'
  BY <1>1, <1>2, <1>3, <1>4, <1>5, <1>6 DEF Refs
<1>9. Order' /\ AnswersOwn'
  BY <1>1, <1>2, <1>6 DEF Order, HandledInOrder, AnswersOwn
<1>10. AllOwed'
  <2> SUFFICES ASSUME ~glate, NEW b \in GClients PROVE Owed(b)'
    BY <1>2 DEF AllOwed
  <2>1. Owed(b)
    BY <1>1 DEF AllOwed
  <2>2. /\ \A k \in 1..Len(Asks) : Asked(b, k)' <=> Asked(b, k)
        /\ InBox(b)' <=> InBox(b)
        /\ InMail(b)' <=> InMail(b)
        /\ Sending(b)' <=> Sending(b)
    BY <1>2, <1>6 DEF Asked, InBox, InMail, Sending
  <2>3. ~InHandler(b)' /\ (InReply(b)' <=> b = t.from) /\ (InToken(b)' => InToken(b))
    BY <1>2, <1>5 DEF InHandler, InReply, InToken
  <2>4. \A u, v \in tokens' : u.from = b /\ v.from = b => u = v
    BY <1>2, <2>1 DEF Owed
  <2>5. b = t.from => InToken(b) /\ ~InToken(b)'
    <3>1. b = t.from => \A u \in tokens : u.from = b => u = t
      BY <2>1 DEF Owed
    <3> QED
      BY <1>2, <3>1 DEF InToken
  <2> QED
    BY <1>2, <1>6, <2>1, <2>2, <2>3, <2>4, <2>5 DEF Owed
<1> QED
  BY <1>7, <1>8, <1>9, <1>10 DEF GenInv

\* A reply goes into the mailbox of the client.
LEMMA Delivered ==
  ASSUME GenInv, srv.at \in {"send", "reply"}, srv.to # GMain, ~Dead(srv.to),
         srv' \in SrvType, srv'.at \in {"recv", "cast"},
         gbox' = [gbox EXCEPT ![srv.to] = Append(@, srv.out[1])],
         UNCHANGED <<cl, tokens, serial, handled, answers, glate>>
  PROVE  GenInv'
<1> USE Apart
<1> DEFINE c == srv.to
           m == srv.out[1]
<1>1. GType /\ Refs /\ Order /\ AnswersOwn /\ AllOwed
  BY DEF GenInv
<1>2. c \in GClients /\ m.ref = m.num /\ m \in GMsg
  <2>1. c \in Callers /\ Len(srv.out) = 1 /\ m.ref = m.num
    BY <1>1 DEF Refs
  <2>2. srv.out \in Seq(GMsg)
    BY <1>1, SrvFields DEF GType
  <2> QED
    BY <2>1, <2>2
<1>3. cl[c].op # "dead"
  BY <1>2 DEF Dead
<1>4. gbox[c] \in Seq(GMsg) /\ Len(gbox[c]) \in Nat
  BY <1>1, <1>2, Boxes
<1>5. /\ Append(gbox[c], m) \in Seq(GMsg) /\ Len(Append(gbox[c], m)) = Len(gbox[c]) + 1
      /\ \A k \in 1..Len(gbox[c]) : Append(gbox[c], m)[k] = gbox[c][k]
      /\ Append(gbox[c], m)[Len(gbox[c]) + 1] = m
  BY <1>2, <1>4, AppendProperties
<1>6. /\ gbox' \in [GClients \cup {GServer} -> Seq(GMsg)] /\ Asks' = Asks
      /\ \A b \in GClients : b # c => gbox'[b] = gbox[b]
      /\ gbox'[c] = Append(gbox[c], m)
  BY <1>1, <1>2, <1>5 DEF GType, Asks
<1> HIDE DEF m
<1>7. GType'
  BY <1>1, <1>6 DEF GType
<1>8. Refs'
  <2>1. \A b \in GClients : \A j \in 1..Len(gbox[b]) : gbox[b][j].ref = gbox[b][j].num
    BY <1>1 DEF Refs
  <2>2. ASSUME NEW j \in 1..Len(gbox'[c]) PROVE gbox'[c][j].ref = gbox'[c][j].num
    <3>1. j \in 1..Len(gbox[c]) \/ j = Len(gbox[c]) + 1
      BY <1>4, <1>5, <1>6
    <3> QED
      BY <1>2, <1>5, <1>6, <2>1, <3>1
  <2>3. \A b \in GClients : \A j \in 1..Len(gbox'[b]) : gbox'[b][j].ref = gbox'[b][j].num
    BY <1>6, <2>1, <2>2
  <2> QED
    BY <1>1, <1>6, <2>3 DEF Refs
<1>9. Order' /\ AnswersOwn'
  BY <1>1, <1>6 DEF Order, HandledInOrder, AnswersOwn
<1>10. AllOwed'
  <2> SUFFICES ASSUME ~glate, NEW b \in GClients PROVE Owed(b)'
    BY DEF AllOwed
  <2>1. Owed(b)
    BY <1>1 DEF AllOwed
  <2>2. /\ \A k \in 1..Len(Asks) : Asked(b, k)' <=> Asked(b, k)
        /\ InBox(b)' <=> InBox(b)
        /\ InToken(b)' <=> InToken(b)
        /\ Sending(b)' <=> Sending(b)
        /\ ~InHandler(b)' /\ ~InReply(b)'
    BY <1>6 DEF Asked, InBox, InToken, Sending, InHandler, InReply
  <2>3. CASE b # c
    BY <1>6, <2>1, <2>2, <2>3 DEF Owed, InMail
  <2>4. CASE b = c
    <3>1. InReply(b)
      BY <2>4 DEF InReply
    <3>2. /\ ~Sending(b) /\ ~InBox(b) /\ ~InToken(b) /\ gbox[b] = << >>
          /\ ~(cl[b].op = "idle" \/ (cl[b].op = "send" /\ cl[b].to = 0))
      BY <2>1, <3>1 DEF Owed, InMail
    <3>3. Len(gbox'[b]) = 1
      BY <1>5, <1>6, <2>4, <3>2
    <3> QED
      BY <1>3, <1>6, <2>1, <2>2, <2>4, <3>2, <3>3 DEF Owed
  <2> QED
    BY <2>3, <2>4
<1> QED
  BY <1>7, <1>8, <1>9, <1>10 DEF GenInv

-----------------------------------------------------------------------------
(* Every step keeps the invariant. *)

\* What a step of the server may do to its mailbox without looking at a call.
LEMMA Shifts ==
  ASSUME GType
  PROVE  /\ gbox' = gbox => Shifted(0)
         /\ gbox' = [gbox EXCEPT ![GServer] = << >>] => Shifted(0)
         /\ gbox[GServer] # << >> /\ gbox' = [gbox EXCEPT ![GServer] = Tail(gbox[GServer])] => Shifted(1)
<1> USE Apart
<1>1. gbox \in [GClients \cup {GServer} -> Seq(GMsg)] /\ Asks \in Seq(GMsg) /\ Len(Asks) \in Nat
  BY Boxes DEF GType
<1>2. ASSUME gbox' = gbox PROVE Shifted(0)
  BY <1>1, <1>2 DEF Shifted, Asks
<1>3. ASSUME gbox' = [gbox EXCEPT ![GServer] = << >>] PROVE Shifted(0)
  <2>1. Asks' = << >> /\ Len(Asks') = 0
    BY <1>1, <1>3 DEF Asks
  <2>2. gbox' \in [GClients \cup {GServer} -> Seq(GMsg)] /\ \A c \in GClients : gbox'[c] = gbox[c]
    BY <1>1, <1>3
  <2> QED
    BY <1>1, <2>1, <2>2 DEF Shifted
<1>4. ASSUME gbox[GServer] # << >>, gbox' = [gbox EXCEPT ![GServer] = Tail(gbox[GServer])] PROVE Shifted(1)
  <2>1. Asks' = Tail(Asks) /\ \A c \in GClients : gbox'[c] = gbox[c]
    BY <1>1, <1>4 DEF Asks
  <2>2. /\ Tail(Asks) \in Seq(GMsg) /\ Len(Tail(Asks)) = Len(Asks) - 1
        /\ \A k \in 1..Len(Tail(Asks)) : Tail(Asks)[k] = Asks[k + 1]
    BY <1>1, <1>4, HeadTailProperties DEF Asks
  <2>3. gbox' \in [GClients \cup {GServer} -> Seq(GMsg)]
    BY <1>1, <1>4, <2>2 DEF Asks
  <2> QED
    BY <1>1, <2>1, <2>2, <2>3 DEF Shifted
<1> QED
  BY <1>2, <1>3, <1>4

\* The server dies: its mailbox goes with it.
LEMMA ServerEnds ==
  ASSUME GenInv, NEW w \in {"init", "handler", "stop", "client"}, srv' = Ended(w),
         gbox' = [gbox EXCEPT ![GServer] = << >>],
         UNCHANGED <<cl, tokens, serial, handled, answers, glate>>
  PROVE  GenInv'
<1>1. srv' \in SrvType /\ srv'.at = "dead"
  BY SrvStates DEF Ended
<1>2. Shifted(0)
  BY Shifts DEF GenInv
<1> QED
  BY <1>1, <1>2, Quieter

\* The server goes on with nothing in its hands.
LEMMA ServerGoesOn ==
  ASSUME GenInv, NEW a \in {"recv", "cast", "terminate"}, srv' = Between(a), UNCHANGED gbox,
         UNCHANGED <<cl, tokens, serial, handled, answers, glate>>
  PROVE  GenInv'
<1>1. srv' \in SrvType /\ srv'.at = a
  BY SrvStates DEF Between
<1>2. Shifted(0)
  BY Shifts DEF GenInv
<1> QED
  BY <1>1, <1>2, Quieter

\* The client's own steps.
LEMMA ClientStep ==
  ASSUME GenInv, NEW c \in Callers,
         \/ \E t \in BOOLEAN : gen_call(c, t)
         \/ \E tag \in {"cast", "stop", "info"} : gen_cast(c, tag)
         \/ ClientSteps(c) \/ ClientDies(c)
  PROVE  GenInv'
<1> USE Apart
<1>1. GType
  BY DEF GenInv
<1>2. cl[c] \in ClType /\ serial \in 0..MaxSerial
  BY <1>1 DEF GType
<1>3. ASSUME NEW t \in BOOLEAN, gen_call(c, t) PROVE GenInv'
  <2> DEFINE m == [tag |-> "call", ref |-> serial + 1, from |-> c, num |-> serial + 1]
             x == [op |-> "send", to |-> 1, ref |-> serial + 1, num |-> serial + 1, timed |-> t, out |-> << m >>]
  <2>1. NextRef = serial + 1 /\ serial + 1 \in Nat /\ serial < MaxSerial
    BY <1>2, <1>3, NextRefIs DEF gen_call
  <2>2. m \in GMsg
    BY <2>1 DEF GMsg
  <2>3. << m >> \in Seq(GMsg) /\ Len(<< m >>) = 1 /\ << m >>[1] = m
    BY <2>2
  <2>4. m.from = c /\ m.num = serial + 1 /\ m.ref = serial + 1 /\ m.tag = "call"
    OBVIOUS
  <2>5. cl' = [cl EXCEPT ![c] = x]
    BY <1>3, <2>1 DEF gen_call
  <2>6. /\ cl[c].op = "idle" /\ serial' = serial + 1
        /\ answers' = [answers EXCEPT ![c] = [asked |-> serial + 1, answered |-> 0]]
        /\ UNCHANGED <<gbox, srv, tokens, handled, glate>>
    BY <1>3 DEF gen_call
  <2> HIDE DEF m
  <2>7. x \in ClType
    BY <2>1, <2>3 DEF ClType
  <2>8. x.op = "send" /\ x.to = 1 /\ x.ref = serial + 1 /\ x.num = serial + 1 /\ x.out = << m >>
    OBVIOUS
  <2> HIDE DEF x
  <2> QED
    BY <2>1, <2>2, <2>3, <2>4, <2>5, <2>6, <2>7, <2>8, Asking
<1>4. ASSUME NEW tag \in {"cast", "stop", "info"}, gen_cast(c, tag) PROVE GenInv'
  <2> DEFINE m == [tag |-> tag, ref |-> 0, from |-> c, num |-> serial + 1]
             x == [op |-> "send", to |-> 0, ref |-> 0, num |-> serial + 1, timed |-> FALSE, out |-> << m >>]
  <2>1. serial + 1 \in Nat /\ serial < MaxSerial
    BY <1>2, <1>4, NextRefIs DEF gen_cast
  <2>2. m \in GMsg
    BY <2>1 DEF GMsg
  <2>3. << m >> \in Seq(GMsg) /\ Len(<< m >>) = 1 /\ << m >>[1] = m
    BY <2>2
  <2>4. m.from = c /\ m.num = serial + 1 /\ m.tag # "call"
    OBVIOUS
  <2>5. /\ cl[c].op = "idle" /\ serial' = serial + 1 /\ cl' = [cl EXCEPT ![c] = x]
        /\ UNCHANGED <<gbox, srv, tokens, handled, answers, glate>>
    BY <1>4 DEF gen_cast
  <2> HIDE DEF m
  <2>6. x \in ClType
    BY <2>1, <2>3 DEF ClType
  <2>7. x.op = "send" /\ x.to = 0 /\ x.num = serial + 1 /\ x.out = << m >>
    OBVIOUS
  <2> HIDE DEF x
  <2>8. Len(x.out) = 1 /\ x.out[1] \in GMsg /\ x.out[1].from = c /\ x.out[1].num = serial + 1
    BY <2>2, <2>3, <2>4, <2>7
  <2>9. (x.out[1].tag = "call" <=> x.to = 1) /\ x.to # 1
    BY <2>3, <2>4, <2>7
  <2>10. UNCHANGED answers /\ UNCHANGED <<gbox, srv, tokens, handled, glate>>
    BY <2>5
  <2> QED
    BY <2>1, <2>5, <2>6, <2>7, <2>8, <2>9, <2>10, Asking
<1>5. ASSUME ClientSends(c) PROVE GenInv'
  <2> DEFINE x == IF cl[c].to = 0 THEN IdleCall ELSE Awaiting(cl[c])
  <2>1. x \in ClType
    BY <1>2, ClStates
  <2>2. cl[c].to \in {0, 1}
    BY <1>2, ClFields
  <2>3. \/ cl[c].to = 0 /\ x.op = "idle"
        \/ cl[c].to = 1 /\ x.op = "wait" /\ x.ref = cl[c].ref
    BY <2>2 DEF IdleCall, Awaiting
  <2>4. /\ cl[c].op = "send" /\ cl' = [cl EXCEPT ![c] = x]
        /\ UNCHANGED gbox \/ gbox' = [gbox EXCEPT ![GServer] = Append(@, cl[c].out[1])]
        /\ UNCHANGED <<srv, tokens, serial, handled, answers, glate>>
    BY <1>5 DEF ClientSends
  <2> HIDE DEF x
  <2> QED
    BY <2>1, <2>3, <2>4, Sent
<1>6. ASSUME TimesOut(c) PROVE GenInv'
  <2>1. IdleCall \in ClType /\ IdleCall.op = "idle"
    BY ClStates DEF IdleCall
  <2> QED
    BY <1>6, <2>1, Leaving DEF TimesOut
<1>7. ASSUME ClientDies(c) PROVE GenInv'
  <2>1. GoneCall \in ClType /\ GoneCall.op = "dead" /\ c \in GClients
    BY <1>7, ClStates DEF GoneCall, ClientDies
  <2> QED
    BY <1>7, <2>1, Leaving DEF ClientDies
<1> QED
  BY <1>3, <1>4, <1>5, <1>6, <1>7, Answered DEF ClientSteps

\* The server takes a message.
LEMMA ServerTakes ==
  ASSUME GenInv, at_gen_server_recv
  PROVE  GenInv'
<1> USE Apart
<1> DEFINE m == Asks[1]
<1>1. GType /\ gbox[GServer] # << >> /\ srv.at = "recv" /\ UNCHANGED <<cl, tokens, serial, answers, glate>>
  BY DEF GenInv, at_gen_server_recv
<1>2. Asks \in Seq(GMsg) /\ TakeFirst(gbox[GServer]).msg = m /\ TakeFirst(gbox[GServer]).rest = Tail(gbox[GServer])
  BY <1>1, Boxes DEF Asks, TakeFirst
<1>3. CASE m.tag = "call" /\ "call" \in Handlers
  <2>1. /\ srv' = Handling("call", m.ref, m.from, m.num)
        /\ handled' = Append(handled, << m.from, m.num >>)
        /\ gbox' = [gbox EXCEPT ![GServer] = Tail(gbox[GServer])]
    BY <1>2, <1>3 DEF at_gen_server_recv
  <2> QED
    BY <1>1, <1>3, <2>1, Accepted
<1>4. CASE m.tag = "call" /\ "call" \notin Handlers
  <2>1. srv' = Ended("handler") /\ gbox' = [gbox EXCEPT ![GServer] = << >>] /\ UNCHANGED handled
    BY <1>2, <1>4 DEF at_gen_server_recv, ServerDies
  <2> QED
    BY <1>1, <2>1, ServerEnds
<1>5. CASE m.tag = "stop"
  <2>1. CASE "terminate" \in Handlers
    <3>1. /\ srv' = Between("terminate") /\ UNCHANGED handled
          /\ gbox' = [gbox EXCEPT ![GServer] = Tail(gbox[GServer])]
      BY <1>2, <1>5, <2>1 DEF at_gen_server_recv
    <3>2. srv' \in SrvType /\ srv'.at = "terminate"
      BY <3>1, SrvStates DEF Between
    <3>3. Shifted(1)
      BY <1>1, <3>1, Shifts
    <3> QED
      BY <1>1, <3>1, <3>2, <3>3, Quieter
  <2>2. CASE "terminate" \notin Handlers
    <3>1. srv' = Ended("stop") /\ gbox' = [gbox EXCEPT ![GServer] = << >>] /\ UNCHANGED handled
      BY <1>2, <1>5, <2>2 DEF at_gen_server_recv, ServerDies
    <3> QED
      BY <1>1, <3>1, ServerEnds
  <2> QED
    BY <2>1, <2>2
<1>6. CASE m.tag \in {"cast", "info"} /\ m.tag \in Handlers
  <2>1. /\ srv' = Handling("cast", 0, GServer, m.num)
        /\ handled' = Append(handled, << m.from, m.num >>)
        /\ gbox' = [gbox EXCEPT ![GServer] = Tail(gbox[GServer])]
    BY <1>2, <1>6 DEF at_gen_server_recv
  <2> QED
    BY <1>1, <2>1, Accepted
<1>7. CASE m.tag \notin {"call", "stop"} /\ ~(m.tag \in {"cast", "info"} /\ m.tag \in Handlers)
  <2>1. gbox' = [gbox EXCEPT ![GServer] = Tail(gbox[GServer])] /\ UNCHANGED <<srv, handled>>
    BY <1>2, <1>7 DEF at_gen_server_recv
  <2>2. srv' \in SrvType /\ srv'.at = "recv"
    BY <1>1, <2>1 DEF GType
  <2>3. Shifted(1)
    BY <1>1, <2>1, Shifts
  <2> QED
    BY <1>1, <2>1, <2>2, <2>3, Quieter
<1> QED
  BY <1>3, <1>4, <1>5, <1>6, <1>7

\* The other steps of the server.
LEMMA ServerStep ==
  ASSUME GenInv, ServerSteps
  PROVE  GenInv'
<1>1. ASSUME NEW g \in BOOLEAN, at_gen_server_init(g) PROVE GenInv'
  <2>1. CASE g
    BY <1>1, <2>1, ServerGoesOn DEF at_gen_server_init
  <2>2. CASE ~g
    BY <1>1, <2>2, ServerEnds DEF at_gen_server_init
  <2> QED
    BY <2>1, <2>2
<1>2. ASSUME NEW g \in BOOLEAN, at_gen_server_cast_done(g) PROVE GenInv'
  <2>1. CASE g
    BY <1>2, <2>1, ServerGoesOn DEF at_gen_server_cast_done
  <2>2. CASE ~g
    BY <1>2, <2>2, ServerEnds DEF at_gen_server_cast_done, ServerDies
  <2> QED
    BY <2>1, <2>2
<1>3. ASSUME NEW o \in {"reply", "noreply", "error"}, at_gen_server_call_done(o) PROVE GenInv'
  <2>1. CASE o = "reply"
    BY <1>3, <2>1, CallDone DEF at_gen_server_call_done
  <2>2. CASE o = "noreply"
    BY <1>3, <2>2, CallDone DEF at_gen_server_call_done
  <2>3. CASE o = "error"
    BY <1>3, <2>3, ServerEnds DEF at_gen_server_call_done, ServerDies
  <2> QED
    BY <2>1, <2>2, <2>3
<1>4. ASSUME Terminated PROVE GenInv'
  BY <1>4, ServerEnds DEF Terminated, ServerDies
<1>5. ASSUME ServerSends PROVE GenInv'
  <2> DEFINE a == IF srv.at = "send" THEN "recv" ELSE "cast"
  <2>1. /\ srv.at \in {"send", "reply"} /\ a \in {"recv", "cast"}
        /\ UNCHANGED <<cl, tokens, serial, handled, answers, glate>>
    BY <1>5 DEF ServerSends
  <2>2. \/ srv.to = GMain /\ srv' = Ended("client") /\ gbox' = [gbox EXCEPT ![GServer] = << >>]
        \/ srv' = Between(a) /\ UNCHANGED gbox
        \/ /\ srv.to # GMain /\ ~Dead(srv.to) /\ srv' = Between(a)
           /\ gbox' = [gbox EXCEPT ![srv.to] = Append(@, srv.out[1])]
    BY <1>5 DEF ServerSends, ServerDies
  <2> HIDE DEF a
  <2>3. CASE srv' = Ended("client") /\ gbox' = [gbox EXCEPT ![GServer] = << >>]
    BY <2>1, <2>3, ServerEnds
  <2>4. CASE srv' = Between(a) /\ UNCHANGED gbox
    BY <2>1, <2>4, ServerGoesOn
  <2>5. CASE /\ srv.to # GMain /\ ~Dead(srv.to) /\ srv' = Between(a)
             /\ gbox' = [gbox EXCEPT ![srv.to] = Append(@, srv.out[1])]
    <3>1. srv' \in SrvType /\ srv'.at = a
      BY <2>1, <2>5, SrvStates DEF Between
    <3> QED
      BY <2>1, <2>5, <3>1, Delivered
  <2> QED
    BY <2>2, <2>3, <2>4, <2>5
<1> QED
  BY <1>1, <1>2, <1>3, <1>4, <1>5, ServerTakes, TokenUsed DEF ServerSteps

\* Every step of clients, main and server keeps the invariant.
LEMMA GenStep ==
  ASSUME GenInv, [GenNext]_gsVars
  PROVE  GenInv'
<1>1. CASE UNCHANGED gsVars
  <2>1. UNCHANGED <<gbox, cl, srv, tokens, serial, handled, answers, glate>>
    BY <1>1 DEF gsVars
  <2>2. GType' /\ Refs' /\ Order' /\ AnswersOwn'
    BY <2>1 DEF GenInv, GType, Refs, Order, HandledInOrder, AnswersOwn, Asks
  <2>3. AllOwed'
    BY <2>1 DEF GenInv, AllOwed, Owed, Asks, Sending, Asked, InBox, InHandler, InReply, InToken, InMail
  <2> QED
    BY <2>2, <2>3 DEF GenInv
<1>2. CASE MainFails
  <2>1. GMain \in Callers
    BY <1>2 DEF MainFails, Callers
  <2>2. IdleCall \in ClType /\ IdleCall.op = "idle"
    BY ClStates DEF IdleCall
  <2> QED
    BY <1>2, <2>1, <2>2, Leaving DEF MainFails
<1> QED
  BY <1>1, <1>2, ClientStep, ServerStep DEF GenNext

\* Before the first call nothing is owed.
LEMMA GenStart ==
  ASSUME GenInit
  PROVE  GenInv
<1> USE Apart
<1>1. /\ \A a \in GClients \cup {GServer} : gbox[a] = << >>
      /\ Asks = << >> /\ Len(Asks) = 0
  BY DEF GenInit, Asks
<1>2. \A c \in Callers : cl[c].op = "idle"
  BY DEF GenInit, IdleCall
<1>3. srv.at = "init" /\ tokens = {} /\ handled = << >> /\ Len(handled) = 0 /\ serial = 0
  BY DEF GenInit, Between
<1>4. GType
  <2>1. gbox \in [GClients \cup {GServer} -> Seq(GMsg)]
    BY DEF GenInit
  <2>2. cl \in [Callers -> ClType]
    BY ClStates DEF GenInit
  <2>3. srv \in SrvType
    BY SrvStates DEF GenInit
  <2>4. answers \in [Callers -> [asked : Nat, answered : Nat]]
    BY DEF GenInit
  <2>5. serial \in 0..MaxSerial /\ handled \in Seq(Callers \X Nat) /\ glate \in BOOLEAN /\ tokens = {}
    <3>1. 0 \in 0..MaxSerial
      BY GenAssumption
    <3>2. << >> \in Seq(Callers \X Nat)
      OBVIOUS
    <3> QED
      BY <3>1, <3>2 DEF GenInit
  <2> QED
    BY <2>1, <2>2, <2>3, <2>4, <2>5 DEF GType
<1>5. Refs
  BY <1>1, <1>2, <1>3 DEF Refs
<1>6. Order
  BY <1>1, <1>2, <1>3 DEF Order, HandledInOrder
<1>7. AnswersOwn
  BY DEF GenInit, AnswersOwn
<1>8. AllOwed
  <2> SUFFICES ASSUME NEW c \in GClients PROVE Owed(c)
    BY DEF AllOwed
  <2>1. ~InBox(c) /\ ~InHandler(c) /\ ~InReply(c) /\ ~InToken(c) /\ ~InMail(c) /\ ~Sending(c) /\ Len(gbox[c]) = 0
    BY <1>1, <1>2, <1>3 DEF InBox, InHandler, InReply, InToken, InMail, Sending
  <2> QED
    BY <1>1, <1>2, <1>3, <2>1 DEF Owed
<1> QED
  BY <1>4, <1>5, <1>6, <1>7, <1>8 DEF GenInv

\* The invariant says what is promised.
LEMMA InvSound ==
  ASSUME GenInv
  PROVE  CallsSound
<1> USE Apart
<1>1. AnswersOwn /\ HandledInOrder
  BY DEF GenInv, Order
<1>2. ASSUME ~glate, NEW c \in GClients PROVE Len(gbox[c]) <= 1 /\ (gbox[c] # << >> => cl[c].op = "wait")
  <2>1. Owed(c)
    BY <1>2 DEF GenInv, AllOwed
  <2>2. cl[c].op \in {"idle", "send", "wait", "dead"} /\ cl[c].to \in {0, 1}
    BY ClFields DEF GenInv, GType
  <2>3. InMail(c) => cl[c].op \notin {"idle", "dead"} /\ ~(cl[c].op = "send" /\ cl[c].to = 0) /\ ~Sending(c)
    BY <2>1 DEF Owed
  <2> QED
    BY <2>1, <2>2, <2>3 DEF Owed, InMail, Sending
<1> QED
  BY <1>1, <1>2 DEF CallsSound, OneAnswer

\* A call returns its own reply, a client's requests are handled in the order
\* they were made and once, and as long as no call has timed out a client's
\* mailbox holds at most the one answer it waits for: for any number of
\* clients, any mailbox sizes and handlers, whether main calls or not, and any
\* number of requests below the span of the references (op_gen_call to
\* op_gen_reply and the server's loop, ops_genserver.inl).
THEOREM CallsCorrect == GenSpec => []CallsSound
<1>1. GenInit => GenInv
  BY GenStart
<1>2. GenInv /\ [GenNext]_gsVars => GenInv'
  BY GenStep
<1>3. GenInv => CallsSound
  BY InvSound
<1> QED
  BY <1>1, <1>2, <1>3, PTL DEF GenSpec

=============================================================================
