------------------------------- MODULE Session -------------------------------
(***************************************************************************)
(* One client connection: fxmy_worker() of fxmy_main.c with the functions  *)
(* it calls in fxmy_conn.c, fxmy_common.c and fxmy_query.c, the client at  *)
(* the other end of the socket, and SQL Server behind ODBC.                *)
(*                                                                         *)
(* The worker is one thread that blocks in recv(), so a step is one trip   *)
(* from a recv() or the end of a send() to the next: receive a packet and  *)
(* run its handler, or build an answer and send it.  The client may send,  *)
(* read or hang up between any two steps.                                  *)
(*                                                                         *)
(* A request is its kind and the packet ID in its header; its text matters *)
(* only by the branch of the handlers it takes.  A failed VERIFY, abort(), *)
(* __debugbreak() or access violation ends the whole process; `process'    *)
(* tells which.  Handles and memory are taken to be available.             *)
(***************************************************************************)
EXTENDS Odbc, FiniteSets

CONSTANTS
  Ids,            \* packet IDs the client may write in a header
  MaxCommands,    \* bound: commands a client sends
  MaxPipeline     \* bound: requests a client has waiting for an answer

AuthKinds    == {"AUTH", "AUTH_WITH_DB", "AUTH_BAD_NAME", "AUTH_SHORT"}
QueryKinds   == {"SET_NAMES", "SET_NAMES_OTHER", "DESCRIBE", "SHOW_TABLES",
                 "LIMIT_UNBOUNDED", "STATEMENT", "MALFORMED"}
\* The queries for which fxmy_handle_query returns early.
EarlyKinds   == {"SET_NAMES", "DESCRIBE", "SHOW_TABLES", "LIMIT_UNBOUNDED"}
CommandKinds == {"QUIT", "INIT_DB", "SET_OPTION", "UNSUPPORTED"} \cup QueryKinds
Request      == [kind : AuthKinds \cup CommandKinds, id : Ids]

\* Blocks of the heap, by what they hold.
Block == {"packet", "database", "wide_query", "buffer", "result"}

ASSUME SessionAssumption ==
  /\ Ids \subseteq 0 .. 255
  /\ Natives \subseteq Int
  /\ MaxCommands \in Nat
  /\ MaxPipeline \in Nat
  /\ NULL \notin TableCodes \cup Request

FXMY_ERROR == -1

VARIABLES
  process,        \* "up", or what ended the process
  pc,             \* where the worker is
  xfer_buffer,    \* conn->xfer_buffer: the packet it holds, or NULL
  packet_number,  \* conn->packet_number
  status,         \* conn->status
  column_count_error_code,
  database,       \* whether conn->database is allocated
  connected,      \* whether the ODBC connection handle is connected
  stmts,          \* statement handles allocated
  blocks,         \* heap blocks allocated and not freed, of each sort
  client,         \* what the client is doing
  sent,           \* commands the client has sent
  early,          \* history: how many of them are of EarlyKinds
  outstanding,    \* requests whose answer the client has not read, in order
  toServer,       \* requests on their way to the server
  toClient        \* packets on their way to the client

buffers   == <<xfer_buffer, packet_number>>
transient == <<status, column_count_error_code>>
odbc      == <<connected, stmts>>
heap      == <<database, blocks>>
peer      == <<client, sent, early, outstanding>>
vars == <<process, pc, buffers, transient, odbc, heap, peer, toServer, toClient>>

Crashes == {"verify", "unsupported", "todo", "null_status", "access_violation",
            "unmapped_info", "unmapped_error"}

Init ==
  /\ process = "up"
  /\ pc = "handshake"
  /\ xfer_buffer = NULL
  /\ packet_number = 0
  /\ status = NULL
  /\ column_count_error_code = FXMY_OK
  /\ database = FALSE
  /\ connected = FALSE
  /\ stmts = 0
  /\ blocks = [b \in Block |-> 0]
  /\ client = "connecting"
  /\ sent = 0
  /\ early = 0
  /\ outstanding = <<>>
  /\ toServer = <<>>
  /\ toClient = <<>>

-----------------------------------------------------------------------------
(* The heap.  Nothing is looked at any more of a process that has ended.   *)
(* The count of all blocks (fxmy_mem.c 8) is read by the unit tests only.  *)

Malloc(h, got) == [b \in Block |-> IF b \in got THEN h[b] + 1 ELSE h[b]]
Free(h, freed) == [b \in Block |-> IF b \in freed THEN h[b] - 1 ELSE h[b]]

\* fxmy_recv has allocated the packet that a handler was called for; then the
\* handler gets some blocks, and has freed some when it returns.
Uses(got, freed) ==
  blocks' = Free(Malloc(Malloc(blocks, {"packet"}), got), freed)
UsesNone == Uses({}, {}) /\ UNCHANGED database

-----------------------------------------------------------------------------
(* Receiving and sending (fxmy_conn.c).                                    *)

NextNumber(id) == id + 1

\* fxmy_recv: whatever ID the packet has, it becomes the current one.
Recv(from, kind) ==
  /\ process = "up" /\ pc = from
  /\ toServer # <<>>
  /\ Head(toServer).kind = kind
  /\ toServer' = Tail(toServer)
  /\ xfer_buffer' = Head(toServer)
  /\ packet_number' = NextNumber(Head(toServer).id)
  /\ UNCHANGED <<column_count_error_code, peer, toClient>>

\* The handler that received the packet is done: the worker goes on at `to'.
Proceed(to) == process' = "up" /\ pc' = to
Crash(why)  == process' = why /\ pc' = pc

Layout == IF column_count_error_code = FXMY_OK THEN "ok" ELSE "error"

Packet_Unmasked(buffer, kind, s) ==       \* seeded fault: the ID is not cut to 8 bits
  [type |-> kind, id |-> packet_number, header |-> header(s), layout |-> Layout]

\* fxmy_begin_send keeps what the buffer holds if there is something in it,
\* and fxmy_send sends that: the packet last received goes back as it came.
Packet(buffer, kind, s) ==
  IF buffer # NULL
  THEN [type |-> "echo", id |-> buffer.id, header |-> 0, layout |-> "ok"]
  ELSE [type |-> kind, id |-> packet_number % 256,
        header |-> IF kind = "result" THEN header(s) ELSE 0, layout |-> Layout]

AfterSend_Kept(buffer) ==                 \* seeded fault: fxmy_conn.c 75 dropped
  [kind |-> "SENT", id |-> packet_number % 256]
AfterSend(buffer) == NULL

\* fxmy_send: send() fails, and VERIFY with it, only on a lost connection.
Send(buffer, kind, s) ==
  /\ packet_number' = packet_number + 1
  /\ xfer_buffer' = AfterSend(buffer)
  /\ \/ /\ client = "closed"
        /\ toClient' = toClient
     \/ /\ client # "closed"
        /\ toClient' = Append(toClient, Packet(buffer, kind, s))

\* fxmy_begin_send allocates what is sent, unless it goes back as it came,
\* and fxmy_send frees it.
HeapAfterSend(h, buffer) ==
  Free(IF buffer = NULL THEN Malloc(h, {"packet"}) ELSE h, {"packet"})

SendFails ==
  /\ process = "up" /\ pc \in {"handshake", "auth_reply", "reply"}
  /\ client = "closed"
  /\ Crash("verify")
  /\ UNCHANGED <<buffers, transient, odbc, heap, peer, toServer, toClient>>

\* One recv() is made for a header and one for a body, each VERIFYed to read
\* all of it: the client has hung up, or the packet arrives in pieces.
ShortRead ==
  /\ process = "up" /\ pc \in {"auth", "command"}
  /\ toServer # <<>> \/ client = "closed"
  /\ Crash("verify")
  /\ UNCHANGED <<buffers, transient, odbc, heap, peer, toServer, toClient>>

-----------------------------------------------------------------------------
(* fxmy_connect.                                                           *)

\* What SQLDriverConnect can answer; a connected handle is refused.
DriverConnect ==
  IF connected THEN {Refused} ELSE {Success} \cup Infos \cup Errors

\* Connected or refused without a native code, the function returns at once.
\* Otherwise it goes on to a statement handle, which an unconnected handle
\* does not give, with native code 0 that VERIFY_ODBC accepts; the USE
\* statement runs on no handle and leaves no status.
StatusAfterConnect(o) ==
  IF Succeeded(StatusOf(o)) THEN StatusOf(o) ELSE StatusOf(InvalidHandle)

Why(o) == IF o.rc = "SQL_SUCCESS_WITH_INFO" THEN "unmapped_info" ELSE "unmapped_error"

Connect(to) ==
  \E o \in DriverConnect :
    /\ connected' = (connected \/ o.rc # "SQL_ERROR")
    /\ \/ Breaks(o) /\ Crash(Why(o)) /\ UNCHANGED status
       \/ ~Breaks(o) /\ Proceed(to) /\ status' = StatusAfterConnect(o)

-----------------------------------------------------------------------------
(* The start of fxmy_worker: handshake and authentication.                 *)

SendHandshake ==
  /\ process = "up" /\ pc = "handshake"
  /\ Send(xfer_buffer, "handshake", NULL)
  /\ blocks' = HeapAfterSend(blocks, xfer_buffer)
  /\ Proceed("auth")
  /\ UNCHANGED <<transient, odbc, database, peer, toServer>>

\* The packet parsed by fxmy_parse_auth_packet names no database.
Auth ==
  /\ Recv("auth", "AUTH")
  /\ Proceed("auth_reply")
  /\ UsesNone /\ UNCHANGED <<status, odbc>>

AuthWithDb ==
  /\ Recv("auth", "AUTH_WITH_DB")
  /\ Connect("auth_reply")
  /\ database' = TRUE
  /\ Uses({"database"}, {})
  /\ UNCHANGED stmts

\* The bytes that the name of the database is taken from do not come to an
\* end before the memory behind its array does (Utf8), as those of most
\* packets do not.
AuthBadName ==
  /\ Recv("auth", "AUTH_BAD_NAME")
  /\ Crash("access_violation")
  /\ UsesNone /\ UNCHANGED <<status, odbc>>

\* A packet too short for the fixed fields fails a VERIFY of fxmy_read.c.
AuthShort ==
  /\ Recv("auth", "AUTH_SHORT")
  /\ Crash("verify")
  /\ UsesNone /\ UNCHANGED <<status, odbc>>

BufferAtResult_Kept == xfer_buffer   \* seeded fault: fxmy_main.c 222 dropped
BufferAtResult == NULL

\* fxmy_send_result frees the packet, and the result when it is sent.
HeapAfterResult ==
  LET reset == IF xfer_buffer = NULL THEN blocks ELSE Free(blocks, {"packet"})
  IN  Free(HeapAfterSend(Malloc(reset, {"result"}), BufferAtResult), {"result"})

AuthReply ==
  /\ process = "up" /\ pc = "auth_reply"
  /\ status' = FXMY_OK
  /\ Send(BufferAtResult, "result", FXMY_OK)
  /\ blocks' = HeapAfterResult
  /\ Proceed("command")
  /\ UNCHANGED <<column_count_error_code, odbc, database, peer, toServer>>

-----------------------------------------------------------------------------
(* fxmy_handle_command_packet.                                             *)

Quit_Answered ==                          \* seeded fault: returns 0, not -1
  /\ Recv("command", "QUIT")
  /\ Proceed("reply")
  /\ UsesNone /\ UNCHANGED <<status, odbc>>

Quit ==
  /\ Recv("command", "QUIT")
  /\ Proceed("close")
  /\ UsesNone /\ UNCHANGED <<status, odbc>>

FreedByInitDb_None == {}                  \* seeded fault: 282-283 dropped
FreedByInitDb == IF database THEN {"database"} ELSE {}

InitDb ==
  /\ Recv("command", "INIT_DB")
  /\ database' = TRUE
  /\ Uses({"database"}, FreedByInitDb)
  /\ Connect("reply")
  /\ UNCHANGED stmts

SetOption_Unanswered ==                   \* seeded fault: returns 1, not 0
  /\ Recv("command", "SET_OPTION")
  /\ Proceed("command")
  /\ UsesNone /\ UNCHANGED <<status, odbc>>

SetOption ==
  /\ Recv("command", "SET_OPTION")
  /\ Proceed("reply")
  /\ UsesNone /\ UNCHANGED <<status, odbc>>

\* The twenty-five commands that abort(), and those not in the protocol.
Unsupported ==
  /\ Recv("command", "UNSUPPORTED")
  /\ Crash("unsupported")
  /\ UsesNone /\ UNCHANGED <<status, odbc>>

-----------------------------------------------------------------------------
(* fxmy_handle_query: a request for SET NAMES, DESCRIBE, SHOW TABLES, or a *)
(* statement for SQL Server.  wide_query, the query as wide characters, is *)
(* freed at the end of the function only: every early return loses it.     *)

SetNames ==
  /\ Recv("command", "SET_NAMES")
  /\ Proceed("reply")
  /\ Uses({"wide_query"}, {})
  /\ UNCHANGED <<status, odbc, database>>

SetNamesOther ==
  /\ Recv("command", "SET_NAMES_OTHER")
  /\ Crash("verify")
  /\ Uses({"wide_query"}, {})
  /\ UNCHANGED <<status, odbc, database>>

\* What SQLExecDirect can answer.  An unconnected handle gives no statement
\* handle, which passes VERIFY_ODBC because its native code is 0.
ExecDirect ==
  IF connected THEN {Success, NoData} \cup Infos \cup Errors ELSE {InvalidHandle}

Fetch == {Success, NoData} \cup Infos \cup Errors

\* fxmy_exec looks for the records on the address of the statement handle,
\* where there are none; it frees the handle of a statement that failed.
Exec(o) == StatusOf(Outcome(o.rc, <<>>))

\* fxmy_exec tests a status that is NULL.
ExecCrashes ==
  /\ \E o \in ExecDirect : Exec(o) = NULL
  /\ Crash("null_status")
  /\ UNCHANGED <<status, odbc>>

\* A row, or a failure to fetch one, is not handled.
FetchCrashes ==
  /\ \E o \in ExecDirect : Succeeded(Exec(o))
  /\ \E f \in Fetch \ {NoData} : Crash(IF Breaks(f) THEN Why(f) ELSE "todo")
  /\ UNCHANGED <<status, odbc>>

\* When no row is found the function sets a local status, not conn->status.
Describe ==
  /\ Recv("command", "DESCRIBE")
  /\ Uses({"wide_query", "buffer"}, {"buffer"})
  /\ \/ ExecCrashes
     \/ FetchCrashes
     \/ /\ \E o \in ExecDirect : Exec(o) # NULL /\ status' = Exec(o)
        /\ Proceed("reply")
        /\ UNCHANGED odbc
  /\ UNCHANGED database

\* The statement handle of a SHOW TABLES that was executed is never freed.
\* The wildcard, if there is one, and the query made of it are.
ShowTables ==
  /\ Recv("command", "SHOW_TABLES")
  /\ Uses({"wide_query", "buffer"}, {"buffer"})
  /\ \/ ExecCrashes
     \/ FetchCrashes
     \/ /\ \E o \in ExecDirect :
             \/ Succeeded(Exec(o)) /\ status' = FXMY_OK /\ stmts' = stmts + 1
             \/ Failed(Exec(o)) /\ UNCHANGED <<status, stmts>>
        /\ Proceed("reply")
        /\ UNCHANGED connected
  /\ UNCHANGED database

\* The text has "LIMIT " in it, but no LIMIT token: fxmy_rearrange_limit
\* returns 1.
LimitUnbounded ==
  /\ Recv("command", "LIMIT_UNBOUNDED")
  /\ status' = FXMY_ERROR_DEFAULT
  /\ Proceed("reply")
  /\ Uses({"wide_query"}, {})
  /\ UNCHANGED <<odbc, database>>

\* A text that does not survive being read: it is not UTF-8 of at most three
\* bytes a character or holds a zero (Utf8), or it lacks the token a handler
\* looks for or overruns an array (QueryText).
Malformed ==
  /\ Recv("command", "MALFORMED")
  /\ Crash("access_violation")
  /\ Uses({"wide_query"}, {})
  /\ UNCHANGED <<status, odbc, database>>

\* Any other text, its LIMIT rewritten if it has one.  Nothing is done yet
\* with the rows of a statement that succeeds.
Statement ==
  /\ Recv("command", "STATEMENT")
  /\ \E o \in ExecDirect :
       \/ Breaks(o) /\ Crash(Why(o)) /\ UNCHANGED status
       \/ ~Breaks(o) /\ StatusOf(o) = NULL /\ Crash("null_status") /\ UNCHANGED status
       \/ ~Breaks(o) /\ Succeeded(StatusOf(o)) /\ Crash("todo") /\ UNCHANGED status
       \/ ~Breaks(o) /\ Failed(StatusOf(o)) /\ Proceed("reply") /\ status' = StatusOf(o)
  /\ Uses({"wide_query"}, {"wide_query"})
  /\ UNCHANGED <<odbc, database>>

-----------------------------------------------------------------------------
(* The answer to a command, and the end of the worker.                     *)

StatusAfterReply_Kept == status         \* seeded fault: fxmy_main.c 341 dropped
StatusAfterReply_Null == NULL           \* seeded fault: reset to no status
StatusAfterReply == FXMY_OK

\* fxmy_send_result, then fxmy_reset_transient_state.
Reply ==
  /\ process = "up" /\ pc = "reply"
  /\ status # NULL
  /\ Send(BufferAtResult, "result", status)
  /\ status' = StatusAfterReply
  /\ column_count_error_code' = FXMY_OK
  /\ blocks' = HeapAfterResult
  /\ Proceed("command")
  /\ UNCHANGED <<odbc, database, peer, toServer>>

\* conn->status->header through a NULL pointer.
ReplyWithoutStatus ==
  /\ process = "up" /\ pc = "reply"
  /\ status = NULL
  /\ Crash("null_status")
  /\ UNCHANGED <<buffers, transient, odbc, heap, peer, toServer, toClient>>

\* SQLDisconnect frees the statement handles that are left.  Nothing frees the
\* packet that held COM_QUIT and the name of the database: only conn points to
\* them, and conn is freed by the accept loop (main_win.c 85).
Close ==
  /\ process = "up" /\ pc = "close"
  /\ \E o \in IF connected THEN {Success} \cup Infos ELSE {Refused} :
       \/ /\ Breaks(o) /\ Crash(Why(o))
          /\ UNCHANGED odbc
       \/ /\ ~Breaks(o) /\ Proceed("exited")
          /\ connected' = FALSE
          /\ stmts' = 0
  /\ UNCHANGED <<buffers, transient, heap, peer, toServer, toClient>>

WorkerStep ==
  \/ SendHandshake \/ Auth \/ AuthWithDb \/ AuthBadName \/ AuthShort \/ AuthReply
  \/ Quit \/ InitDb \/ SetOption \/ Unsupported
  \/ SetNames \/ SetNamesOther \/ Describe \/ ShowTables
  \/ LimitUnbounded \/ Malformed \/ Statement
  \/ Reply \/ ReplyWithoutStatus \/ Close
  \/ SendFails \/ ShortRead

-----------------------------------------------------------------------------
(* The client.                                                             *)

worker == <<process, pc, buffers, transient, odbc, heap>>

ClientAuth(r) ==
  /\ process = "up" /\ client = "greeted" /\ r.kind \in AuthKinds
  /\ client' = "authenticating"
  /\ outstanding' = <<r>>
  /\ toServer' = Append(toServer, r)
  /\ UNCHANGED <<worker, sent, early, toClient>>

\* COM_QUIT has no answer, and is the last thing a client sends.
ClientCommand(r) ==
  /\ process = "up" /\ client = "ready" /\ r.kind \in CommandKinds
  /\ sent < MaxCommands
  /\ Len(outstanding) < MaxPipeline
  /\ sent' = sent + 1
  /\ early' = early + IF r.kind \in EarlyKinds THEN 1 ELSE 0
  /\ toServer' = Append(toServer, r)
  /\ \/ r.kind = "QUIT" /\ client' = "quitting" /\ UNCHANGED outstanding
     \/ r.kind # "QUIT" /\ client' = client /\ outstanding' = Append(outstanding, r)
  /\ UNCHANGED <<worker, toClient>>

ClientReads ==
  /\ toClient # <<>>
  /\ toClient' = Tail(toClient)
  /\ \/ /\ client = "connecting"
        /\ client' = "greeted" /\ UNCHANGED outstanding
     \/ /\ client = "authenticating"
        /\ client' = "ready" /\ outstanding' = Tail(outstanding)
     \/ /\ client \in {"ready", "quitting"}
        /\ client' = client /\ outstanding' = SubSeq(outstanding, 2, Len(outstanding))
  /\ UNCHANGED <<worker, sent, early, toServer>>

ClientCloses ==
  /\ client # "closed"
  /\ client' = "closed"
  /\ outstanding' = <<>>
  /\ toClient' = <<>>
  /\ UNCHANGED <<worker, sent, early, toServer>>

ClientStep ==
  \/ \E r \in Request : ClientAuth(r) \/ ClientCommand(r)
  \/ ClientReads
  \/ ClientCloses

Next == WorkerStep \/ ClientStep
Spec == Init /\ [][Next]_vars

\* The scheduler runs the worker, and a client that waits for an answer
\* reads it; nothing makes a client send, quit or hang up.
FairSpec == Spec /\ WF_vars(WorkerStep) /\ WF_vars(ClientReads)

-----------------------------------------------------------------------------
(* Properties.                                                             *)

Frame == [type : {"handshake", "result", "echo"}, id : 0 .. 255,
          header : {0, 255}, layout : {"ok", "error"}]

\* Every variable has its type; in particular the ID of every packet sent
\* fits the byte it has in the header.
TypeOK ==
  /\ process \in {"up"} \cup Crashes
  /\ pc \in {"handshake", "auth", "auth_reply", "command", "reply", "close", "exited"}
  /\ xfer_buffer \in Request \cup {NULL}
  /\ packet_number \in 0 .. 257
  /\ status \in Status
  /\ column_count_error_code \in {FXMY_OK, FXMY_ERROR}
  /\ database \in BOOLEAN /\ connected \in BOOLEAN
  /\ stmts \in Nat /\ blocks \in [Block -> Int]
  /\ client \in {"connecting", "greeted", "authenticating", "ready", "quitting", "closed"}
  /\ sent \in 0 .. MaxCommands /\ early \in Nat
  /\ outstanding \in Seq(Request) /\ toServer \in Seq(Request)
  /\ toClient \in Seq(Frame)

Talking == client \in {"authenticating", "ready", "quitting"}

\* COM_QUIT, the last request on its way to the server, has no answer.
Unanswered(q) == IF q # <<>> /\ q[Len(q)].kind = "QUIT" THEN 1 ELSE 0

AnswerNumbers(q) == [i \in DOMAIN q |-> (q[i].id + 1) % 256]
NumbersSent      == [i \in DOMAIN toClient |-> toClient[i].id]
NumberInHand     == IF pc \in {"auth_reply", "reply"} THEN <<packet_number % 256>> ELSE <<>>
NotReceived      == SubSeq(toServer, 1, Len(toServer) - Unanswered(toServer))

\* While the server is up, the answers on their way, the one being prepared
\* and the requests not yet received are, in order and without a gap or a
\* repetition, what the client is waiting for, each answer numbered one more
\* than its request (fxmy_begin_recv 101, fxmy_begin_send 29).
AnswersInOrder ==
  process = "up" /\ Talking =>
    (NumbersSent \o NumberInHand) \o AnswerNumbers(NotReceived)
      = AnswerNumbers(outstanding)

\* The packet buffer is empty whenever the worker is about to receive, so
\* that no packet is overwritten and lost to the heap, and holds the request
\* from then until it is answered.
BufferHandOff ==
  process = "up" =>
    (xfer_buffer = NULL <=> pc \in {"handshake", "auth", "command"})

\* A query that depends on SQL Server is answered only over a connected
\* handle, although no handler tests for one.
AnswersNeedDatabase ==
  process = "up" /\ pc = "reply"
    /\ xfer_buffer.kind \in {"STATEMENT", "DESCRIBE", "SHOW_TABLES"} => connected

\* Neither end waits for the other while the other waits for it, although no
\* recv() of fxmy_conn.c has a timeout and fxmy_worker (fxmy_main.c 367-383)
\* answers only when fxmy_handle_command_packet returns 0: a client without a
\* greeting is about to be greeted; a client with requests outstanding has an
\* answer to read, or the worker prepares one or has a request to take up; and
\* a client that quits has left the worker a COM_QUIT, if it has not had it.
NoMutualWait ==
  process = "up" =>
    /\ client = "connecting" => pc = "handshake" \/ toClient # <<>>
    /\ outstanding # <<>> =>
         \/ toClient # <<>>
         \/ pc \in {"auth_reply", "reply"}
         \/ pc \in {"auth", "command"} /\ toServer # <<>>
    /\ client = "quitting" =>
         \/ pc \in {"close", "exited"}
         \/ toServer # <<>> /\ toServer[Len(toServer)].kind = "QUIT"

\* Requests for which SQL Server is called, and requests that the server does
\* not survive by themselves.
AsksServer == {"AUTH_WITH_DB", "INIT_DB", "DESCRIBE", "SHOW_TABLES", "STATEMENT", "QUIT"}
Hopeless   == {"AUTH_SHORT", "AUTH_BAD_NAME", "UNSUPPORTED", "SET_NAMES_OTHER", "MALFORMED"}

\* What ends the server is the packet in hand, never what an earlier command
\* left: a status that is missing or not in the table comes from a call made
\* for that packet, and a call that succeeded ends it over a connection only;
\* an abort() or an access violation comes from a packet that is hopeless by
\* itself; a failed VERIFY from such a packet, from a packet that arrives in
\* pieces while the buffer is empty, or from a connection that is lost.
\* Hence SET_OPTION and the other harmless requests of a client that stays
\* never end it, whatever came before them.
EndsOnItsOwnAccount ==
  /\ process = "null_status" =>
       xfer_buffer # NULL /\ xfer_buffer.kind \in AsksServer \ {"AUTH_WITH_DB", "QUIT"}
  /\ process \in {"unmapped_info", "unmapped_error", "todo"} =>
       xfer_buffer # NULL /\ xfer_buffer.kind \in AsksServer
  /\ process \in {"unmapped_info", "todo"} => connected
  /\ process \in {"unsupported", "access_violation"} =>
       xfer_buffer # NULL /\ xfer_buffer.kind \in Hopeless
  /\ process = "verify" /\ client # "closed" =>
       IF xfer_buffer = NULL THEN toServer # <<>> ELSE xfer_buffer.kind \in Hopeless

Early(q) == Cardinality({i \in DOMAIN q : q[i].kind \in EarlyKinds})

\* What is allocated is the packet in hand and the name of the database, to
\* which conn points, and the wide query of every early return, to which
\* nothing does: as many as the client has sent such queries and the worker
\* has taken them up.  No other block outlives the handler that got it or is
\* freed twice, so a session without such queries runs in constant memory;
\* what is still allocated when the worker has exited, COM_QUIT's packet
\* included, is lost with conn (main_win.c 85).  The statement handles kept are
\* over a connection, and no more than the queries lost.
HeapAccounted ==
  process = "up" =>
    /\ blocks = [b \in Block |->
         IF b = "packet" THEN IF xfer_buffer = NULL THEN 0 ELSE 1
         ELSE IF b = "database" THEN IF database THEN 1 ELSE 0
         ELSE IF b = "wide_query" THEN early - Early(toServer)
         ELSE 0]
    /\ pc = "exited" => blocks["packet"] = 1
    /\ stmts <= blocks["wide_query"] /\ (stmts > 0 => connected)

\* The session as its client sees it, from the authentication on.
AsAnswers(c)    == [i \in DOMAIN c |-> [id |-> c[i].id, failed |-> c[i].header = 255]]
Behind(o, n)    == SubSeq(o, n + 1, Len(o))
PromisedAnswers == IF Talking THEN AsAnswers(toClient) ELSE <<>>
PromisedWaiting == IF Talking THEN Behind(outstanding, Len(toClient)) ELSE <<>>

Promise == INSTANCE RequestReply WITH
  Requests <- Request,
  MayFail  <- {"DESCRIBE"},
  MustFail <- {"STATEMENT", "LIMIT_UNBOUNDED"},
  up       <- process = "up",
  answers  <- PromisedAnswers,
  waiting  <- PromisedWaiting

\* A session is a server of requests and replies: an answer is about the
\* request it answers, a statement or an unusable LIMIT is answered with an
\* error, every other request with OK (DESCRIBE either way), and no status of
\* one command is left for the next.
ImplementsPromise == Promise!Spec

\* A client that waits for answers gets them all, unless the server stops.
Answered == outstanding # <<>> ~> (outstanding = <<>> \/ process # "up")

\* A client that sends COM_QUIT ends its worker, unless the server stops.
QuitFinishes == client = "quitting" ~> (pc = "exited" \/ process # "up")

-----------------------------------------------------------------------------
(* What a comment in the code says.                                        *)

\* fxmy_main.c 121-124: a call that returned SQL_SUCCESS_WITH_INFO is reported
\* to the client as a success, so it does not end the server.
InfoIsSuccess == process # "unmapped_info"
=============================================================================
