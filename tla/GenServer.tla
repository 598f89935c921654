------------------------------ MODULE GenServer ------------------------------
(***************************************************************************)
(* One gen-server and its clients (src/src/ops_genserver.inl): calls and   *)
(* timed calls with their references, casts, deferred replies, stop, and   *)
(* the server loop that takes a message, runs its handler and replies.     *)
(*                                                                         *)
(* Mailboxes are the bounded queues of the module Actors; a sender that    *)
(* finds one full stays in its send until there is room or the addressee   *)
(* is dead.                                                                *)
(*                                                                         *)
(*   gbox      actor -> its mailbox                                        *)
(*   cl        client -> what it is in: op, the message still to send, the *)
(*             reference and the serial number it waits for                *)
(*   srv       the server: where its loop is, m_exec_ptr[-1] and [0] (ref, *)
(*             from), the reply to send and where it goes on afterwards    *)
(*   tokens    the from-tokens its handlers have kept for gen-reply        *)
(*   serial    m_gen_ref_counter, which also numbers the casts here        *)
(*   handled   the requests handled, in order: client and serial number    *)
(*   answers   client -> serial numbers of its last request and of the     *)
(*             request that the last reply it returned was for             *)
(*   glate     has a call timed out?                                       *)
(***************************************************************************)
EXTENDS Integers, Sequences, SequencesExt, FiniteSetsExt

CONSTANTS
  GClients,      \* actors that call
  GBoxSize,      \* actor -> capacity of its mailbox
  MaxSerial,     \* bound: requests
  RefSpan,       \* references are kept modulo this (integer_t)
  Handlers,      \* which of "call", "cast", "info", "terminate" the spec has
  MainCalls      \* does main, which has no mailbox, use gen-call?

GMain == "main"
GServer == "server"

\* The server and main are not clients, and no reference is given out twice.
ASSUME GenAssumption ==
  /\ GMain \notin GClients /\ GServer \notin GClients
  /\ MaxSerial \in Nat /\ RefSpan \in Nat /\ MaxSerial < RefSpan

VARIABLES gbox, cl, srv, tokens, serial, handled, answers, glate

gsVars == <<gbox, cl, srv, tokens, serial, handled, answers, glate>>

Callers == GClients \cup (IF MainCalls THEN {GMain} ELSE {})
IdleCall == [op |-> "idle", to |-> 0, out |-> << >>, ref |-> 0, num |-> 0, timed |-> FALSE]
GoneCall == [op |-> "dead", to |-> 0, out |-> << >>, ref |-> 0, num |-> 0, timed |-> FALSE]

\* The server between messages, in a handler, sending a reply, and dead.
Between(at) == [at |-> at, ref |-> 0, from |-> GServer, num |-> 0, out |-> << >>, to |-> GServer, why |-> "none"]
Handling(at, ref, from, num) ==
  [at |-> at, ref |-> ref, from |-> from, num |-> num, out |-> << >>, to |-> GServer, why |-> "none"]
Replying(at, reply, to) ==
  [at |-> at, ref |-> 0, from |-> GServer, num |-> 0, out |-> reply, to |-> to, why |-> "none"]
Ended(why) == [at |-> "dead", ref |-> 0, from |-> GServer, num |-> 0, out |-> << >>, to |-> GServer, why |-> why]

\* gen-server: the server has been spawned and runs its /init.
GenInit ==
  /\ gbox = [a \in GClients \cup {GServer} |-> << >>]
  /\ cl = [c \in Callers |-> IdleCall]
  /\ srv = Between("init")
  /\ tokens = {} /\ serial = 0 /\ handled = << >> /\ glate = FALSE
  /\ answers = [c \in Callers |-> [asked |-> 0, answered |-> 0]]

Dead(a) == IF a = GServer THEN srv.at = "dead" ELSE a # GMain /\ cl[a].op = "dead"
Roomy(a) == Len(gbox[a]) < GBoxSize[a]

-----------------------------------------------------------------------------
(* Clients *)

\* Mutant: the counter is not advanced.
NextRefStuck == 1 % RefSpan

\* ++m_gen_ref_counter, narrowed to integer_t.
NextRef == (serial + 1) % RefSpan

\* gen-call, gen-call-timeout: the message, then actor-send, then the receive
\* that takes only an array with this reference.
gen_call(c, timed) ==
  /\ cl[c].op = "idle" /\ serial < MaxSerial
  /\ serial' = serial + 1
  /\ cl' = [cl EXCEPT ![c] = [op |-> "send", to |-> 1, ref |-> NextRef, num |-> serial + 1, timed |-> timed,
              out |-> << [tag |-> "call", ref |-> NextRef, from |-> c, num |-> serial + 1] >>]]
  /\ answers' = [answers EXCEPT ![c] = [asked |-> serial + 1, answered |-> 0]]
  /\ UNCHANGED <<gbox, srv, tokens, handled, glate>>

\* gen-cast, gen-stop, and a raw actor-send of something else.
gen_cast(c, tag) ==
  /\ cl[c].op = "idle" /\ serial < MaxSerial
  /\ serial' = serial + 1
  /\ cl' = [cl EXCEPT ![c] = [op |-> "send", to |-> 0, ref |-> 0, num |-> serial + 1, timed |-> FALSE,
              out |-> << [tag |-> tag, ref |-> 0, from |-> c, num |-> serial + 1] >>]]
  /\ UNCHANGED <<gbox, srv, tokens, handled, answers, glate>>

\* The call waits for its answer.
Awaiting(x) == [op |-> "wait", to |-> x.to, out |-> << >>, ref |-> x.ref, num |-> x.num, timed |-> x.timed]

\* actor-send and its retry: to a dead server the message is dropped.
ClientSends(c) ==
  /\ cl[c].op = "send"
  /\ \/ Dead(GServer) /\ UNCHANGED gbox
     \/ ~Dead(GServer) /\ Roomy(GServer) /\ gbox' = [gbox EXCEPT ![GServer] = Append(@, cl[c].out[1])]
  /\ cl' = [cl EXCEPT ![c] = IF cl[c].to = 0 THEN IdleCall ELSE Awaiting(cl[c])]
  /\ UNCHANGED <<srv, tokens, serial, handled, answers, glate>>

Matches(c) == {i \in DOMAIN gbox[c] : gbox[c][i].ref = cl[c].ref}

\* actor-recv-match with the predicate of the call: the first match.
ClientTakes(c) ==
  /\ cl[c].op = "wait" /\ c # GMain /\ Matches(c) # {}
  /\ answers' = [answers EXCEPT ![c] = [asked |-> @.asked, answered |-> gbox[c][Min(Matches(c))].num]]
  /\ gbox' = [gbox EXCEPT ![c] = RemoveAt(@, Min(Matches(c)))]
  /\ cl' = [cl EXCEPT ![c] = IdleCall]
  /\ UNCHANGED <<srv, tokens, serial, handled, glate>>

\* The receive finds no mailbox: main's call fails with the message sent.
MainFails ==
  /\ MainCalls /\ cl[GMain].op = "wait" /\ cl' = [cl EXCEPT ![GMain] = IdleCall]
  /\ UNCHANGED <<gbox, srv, tokens, serial, handled, answers, glate>>

\* @gen-call-timeout-done with false: nothing matches and the deadline is past.
TimesOut(c) ==
  /\ cl[c].op = "wait" /\ cl[c].timed /\ c # GMain /\ Matches(c) = {}
  /\ cl' = [cl EXCEPT ![c] = IdleCall] /\ glate' = TRUE
  /\ UNCHANGED <<gbox, srv, tokens, serial, handled, answers>>

\* A client is killed: its mailbox goes with it.
ClientDies(c) ==
  /\ c # GMain /\ cl[c].op # "dead"
  /\ cl' = [cl EXCEPT ![c] = GoneCall] /\ gbox' = [gbox EXCEPT ![c] = << >>]
  /\ UNCHANGED <<srv, tokens, serial, handled, answers, glate>>

-----------------------------------------------------------------------------
(* The server *)

\* @gen-server-init: one state value, or the server fails.
at_gen_server_init(good) ==
  /\ srv.at = "init" /\ srv' = IF good THEN Between("recv") ELSE Ended("init")
  /\ gbox' = IF good THEN gbox ELSE [gbox EXCEPT ![GServer] = << >>]
  /\ UNCHANGED <<cl, tokens, serial, handled, answers, glate>>

ServerDies(why) == srv' = Ended(why)

TakeFirst(q) == [msg |-> Head(q), rest |-> Tail(q)]

\* actor-recv, then @gen-server-recv: dispatch on the tag of the message.  A
\* cast or other message without a handler is dropped; a call without one
\* raises; stop ends the loop.
at_gen_server_recv ==
  /\ srv.at = "recv" /\ gbox[GServer] # << >>
  /\ LET m == TakeFirst(gbox[GServer]).msg
         rest == [gbox EXCEPT ![GServer] = TakeFirst(gbox[GServer]).rest]
     IN  CASE m.tag = "call" /\ "call" \in Handlers ->
                /\ srv' = Handling("call", m.ref, m.from, m.num)
                /\ handled' = Append(handled, << m.from, m.num >>) /\ gbox' = rest
           [] m.tag = "call" /\ "call" \notin Handlers ->
                ServerDies("handler") /\ gbox' = [gbox EXCEPT ![GServer] = << >>] /\ UNCHANGED handled
           [] m.tag = "stop" ->
                /\ IF "terminate" \in Handlers THEN srv' = Between("terminate") ELSE ServerDies("stop")
                /\ gbox' = (IF "terminate" \in Handlers THEN rest ELSE [gbox EXCEPT ![GServer] = << >>]) /\ UNCHANGED handled
           [] m.tag \in {"cast", "info"} /\ m.tag \in Handlers ->
                /\ srv' = Handling("cast", 0, GServer, m.num)
                /\ handled' = Append(handled, << m.from, m.num >>) /\ gbox' = rest
           [] OTHER -> gbox' = rest /\ UNCHANGED <<srv, handled>>
  /\ UNCHANGED <<cl, tokens, serial, answers, glate>>

Reply(ref, num) == << [tag |-> "reply", ref |-> ref, from |-> GServer, num |-> num] >>

\* @gen-server-call-done: /reply sends, /noreply leaves the caller to a later
\* gen-reply with the token; any other outcome raises.
at_gen_server_call_done(outcome) ==
  /\ srv.at = "call"
  /\ CASE outcome = "reply"   -> /\ srv' = Replying("send", Reply(srv.ref, srv.num), srv.from)
                                 /\ UNCHANGED <<tokens, gbox>>
       [] outcome = "noreply" -> /\ srv' = Between("recv") /\ UNCHANGED gbox
                                 /\ tokens' = tokens \cup {[ref |-> srv.ref, from |-> srv.from, num |-> srv.num]}
       [] outcome = "error"   -> ServerDies("handler") /\ gbox' = [gbox EXCEPT ![GServer] = << >>] /\ UNCHANGED tokens
  /\ UNCHANGED <<cl, serial, handled, answers, glate>>

\* A /handle-cast that answers a kept token with gen-reply on the way.
gen_reply(t) ==
  /\ srv.at = "cast" /\ t \in tokens
  /\ tokens' = tokens \ {t}
  /\ srv' = Replying("reply", Reply(t.ref, t.num), t.from)
  /\ UNCHANGED <<gbox, cl, serial, handled, answers, glate>>

\* @gen-server-cast-done; the handler may also fail.
at_gen_server_cast_done(good) ==
  /\ srv.at = "cast"
  /\ IF good THEN srv' = Between("recv") /\ UNCHANGED gbox
     ELSE ServerDies("handler") /\ gbox' = [gbox EXCEPT ![GServer] = << >>]
  /\ UNCHANGED <<cl, tokens, serial, handled, answers, glate>>

\* actor-send of a reply and its retry; then the loop, or the rest of the
\* handler.  An addressee without a mailbox raises in the server.
ServerSends ==
  /\ srv.at \in {"send", "reply"}
  /\ LET back == Between(IF srv.at = "send" THEN "recv" ELSE "cast")
     IN  \/ srv.to = GMain /\ ServerDies("client") /\ gbox' = [gbox EXCEPT ![GServer] = << >>]
         \/ srv.to # GMain /\ Dead(srv.to) /\ srv' = back /\ UNCHANGED gbox
         \/ /\ srv.to # GMain /\ ~Dead(srv.to) /\ Roomy(srv.to)
            /\ srv' = back /\ gbox' = [gbox EXCEPT ![srv.to] = Append(@, srv.out[1])]
  /\ UNCHANGED <<cl, tokens, serial, handled, answers, glate>>

\* /terminate has run: die.
Terminated ==
  /\ srv.at = "terminate" /\ ServerDies("stop") /\ gbox' = [gbox EXCEPT ![GServer] = << >>]
  /\ UNCHANGED <<cl, tokens, serial, handled, answers, glate>>

ClientSteps(c) == ClientSends(c) \/ ClientTakes(c) \/ TimesOut(c)

ServerSteps ==
  \/ at_gen_server_recv \/ ServerSends \/ Terminated
  \/ \E g \in BOOLEAN : at_gen_server_init(g) \/ at_gen_server_cast_done(g)
  \/ \E o \in {"reply", "noreply", "error"} : at_gen_server_call_done(o)
  \/ \E t \in tokens : gen_reply(t)

GenNext ==
  \/ \E c \in Callers : \E t \in BOOLEAN : gen_call(c, t)
  \/ \E c \in Callers : \E tag \in {"cast", "stop", "info"} : gen_cast(c, tag)
  \/ \E c \in Callers : ClientSteps(c) \/ ClientDies(c)
  \/ MainFails \/ ServerSteps

\* Handlers, if they are run, return; deadlines pass.
GenFairness == WF_gsVars(ServerSteps) /\ \A c \in Callers : WF_gsVars(ClientSteps(c))

GenSpec == GenInit /\ [][GenNext]_gsVars /\ GenFairness

-----------------------------------------------------------------------------
(* Properties *)

\* A call returns the reply to that call, never one that came too late for an
\* earlier call.
AnswersOwn == \A c \in Callers : answers[c].answered \in {0, answers[c].asked}

\* What one client sends, calls, casts and plain messages alike, is handled in
\* the order it was sent, and once.
HandledInOrder ==
  \A i, j \in DOMAIN handled : (i < j /\ handled[i][1] = handled[j][1]) => handled[i][2] < handled[j][2]

\* As long as no call times out, every call is answered, unless the server
\* ends or its handler has kept the token.
CallsAnswered ==
  \A c \in GClients :
    []<>(cl[c].op \notin {"send", "wait"} \/ Dead(GServer) \/ glate \/ \E t \in tokens : t.from = c)

\* "gen-call with an upper bound on the wait": a timed call comes back.
BoundedWait == \A c \in GClients : cl[c].timed ~> ~cl[c].timed

\* The server ends when it is stopped or one of its own procs fails, never
\* because of who called it.
OutlivesClients == srv.why # "client"

\* A reply finds room: as long as no call times out, a client has at most the
\* one answer it waits for in its mailbox.
OneAnswer == ~glate => \A c \in GClients : Len(gbox[c]) <= 1 /\ (gbox[c] # << >> => cl[c].op = "wait")

\* A call gets its own answer, a server handles what a client sends in order,
\* and an answer that was not given up finds room.
CallsSound == AnswersOwn /\ HandledInOrder /\ OneAnswer

=============================================================================
