--------------------------- MODULE Session_proofs ---------------------------
(***************************************************************************)
(* Proofs about Session, for every set of packet IDs and native codes and  *)
(* any number of commands, in flight or in all.                            *)
(***************************************************************************)
EXTENDS Session, SequenceTheorems, FunctionTheorems, FiniteSetTheorems, TLAPS

\* Between a packet received and its answer, packet_number follows its ID.
NumberOK ==
  /\ pc = "handshake" => packet_number = 0
  /\ pc \in {"auth_reply", "reply"} => packet_number \in 1 .. 256

\* The early return of fxmy_begin_send is never taken: no packet received is
\* sent back as the answer.
NoEcho == \A i \in DOMAIN toClient : toClient[i].type # "echo"

\* The authentication request is outstanding until its answer is read.
AuthOutstanding == client = "authenticating" => outstanding # <<>>

IInv ==
  /\ TypeOK
  /\ NumberOK
  /\ AuthOutstanding
  /\ BufferHandOff
  /\ NoEcho
  /\ AnswersNeedDatabase

-----------------------------------------------------------------------------
(* The status of an ODBC call.                                             *)

Outcomes == {Success, NoData, InvalidHandle, Refused} \cup Infos \cup Errors

LEMMA DiagsType ==
  ASSUME NEW d \in Diags
  PROVE  d # <<>> /\ Len(d) \in DOMAIN d
<1>1. CASE \E n \in Natives : d = <<n>>
  BY <1>1
<1>2. CASE \E m, n \in Natives : d = <<m, n>>
  BY <1>2
<1>3. QED
  BY <1>1, <1>2 DEF Diags

\* A call that does not break has a status of the table, or none: the cases
\* the handlers distinguish are all there are.
LEMMA StatusType ==
  ASSUME NEW o \in Outcomes, ~Breaks(o)
  PROVE  StatusOf(o) \in Status
<1>1. CASE o \in Infos \cup Errors
  <2>1. PICK d \in Diags : o.diags = d
    BY <1>1 DEF Infos, Errors, Outcome
  <2>2. d[Len(d)] \in TableCodes
    BY <2>1, DiagsType DEF Breaks
  <2>3. QED
    BY <2>1, <2>2 DEF StatusOf, Status, TableCodes, SuccessCodes, ErrorCodes,
       FXMY_OK, FXMY_ERROR_NO_DATA
<1>2. CASE o \in {Success, NoData, InvalidHandle}
  <2>1. o.diags = <<>>
    BY <1>2 DEF Success, NoData, InvalidHandle, Outcome
  <2>2. QED
    BY <2>1 DEF StatusOf, Status, TableCodes, SuccessCodes, ErrorCodes,
       FXMY_OK, FXMY_ERROR_NO_DATA
<1>3. CASE o = Refused
  <2>1. StatusOf(o) = FXMY_OK
    BY <1>3 DEF Refused, Outcome, StatusOf, FXMY_OK
  <2>2. QED
    BY <2>1 DEF Status, TableCodes, SuccessCodes
<1>4. QED
  BY <1>1, <1>2, <1>3 DEF Outcomes

\* A call on a handle that does not exist has no status.
LEMMA InvalidHandleStatus ==
  StatusOf(InvalidHandle) = NULL /\ Exec(InvalidHandle) = NULL
BY DEF StatusOf, InvalidHandle, Outcome, Exec

\* What fxmy_exec returns: OK, "no data", or nothing.
LEMMA ExecType ==
  ASSUME NEW o
  PROVE  Exec(o) \in Status
BY DEF Exec, Outcome, StatusOf, Status, TableCodes, SuccessCodes, ErrorCodes,
   FXMY_OK, FXMY_ERROR_NO_DATA

-----------------------------------------------------------------------------
(* The shapes of the steps.  A handler receives a packet and then either   *)
(* ends the process or hands over; an answer is sent from an empty buffer. *)

DataKinds == {"STATEMENT", "DESCRIBE", "SHOW_TABLES"}

LEMMA RecvFacts ==
  ASSUME IInv, NEW from, NEW kind, Recv(from, kind)
  PROVE  /\ toServer' \in Seq(Request)
         /\ xfer_buffer' \in Request
         /\ xfer_buffer' # NULL
         /\ xfer_buffer'.kind = kind
         /\ packet_number' \in 1 .. 256
<1>1. toServer \in Seq(Request) /\ toServer # <<>>
  BY DEF IInv, TypeOK, Recv
<1>2. Head(toServer) \in Request /\ Tail(toServer) \in Seq(Request)
  BY <1>1, HeadTailProperties
<1>3. Head(toServer).id \in 0 .. 255
  BY <1>2, SessionAssumption DEF Request
<1>4. Head(toServer) # NULL
  BY <1>2, SessionAssumption
<1>5. packet_number' = Head(toServer).id + 1
  BY DEF Recv, NextNumber
<1>6. packet_number' \in 1 .. 256
  BY <1>3, <1>5
<1>7. QED
  BY <1>2, <1>4, <1>6 DEF Recv

\* What a handler owes: values of the right types, and no answer from SQL
\* Server without a connection.
LEMMA HandlerInv ==
  ASSUME IInv, NEW from, NEW kind, Recv(from, kind), from \in {"auth", "command"},
         status' \in Status, database' \in BOOLEAN, connected' \in BOOLEAN,
         stmts' \in Nat, blocks' \in [Block -> Int],
         \/ process' \in Crashes /\ pc' = pc
         \/ process' = "up" /\ pc' \in {"auth_reply", "reply", "close"},
         process' = "up" /\ kind \in DataKinds => connected'
  PROVE  IInv'
<1>1. /\ toServer' \in Seq(Request)
      /\ xfer_buffer' \in Request /\ xfer_buffer' # NULL /\ xfer_buffer'.kind = kind
      /\ packet_number' \in 1 .. 256
  BY RecvFacts
<1>2. /\ pc = from
      /\ column_count_error_code' = column_count_error_code
      /\ client' = client /\ sent' = sent /\ early' = early /\ outstanding' = outstanding
      /\ toClient' = toClient
  BY DEF Recv, peer
<1>3. TypeOK'
  BY <1>1, <1>2 DEF IInv, TypeOK, Crashes
<1>4. NumberOK' /\ AuthOutstanding'
  BY <1>1, <1>2 DEF IInv, NumberOK, AuthOutstanding, Crashes
<1>5. BufferHandOff'
  BY <1>1 DEF BufferHandOff, Crashes
<1>6. NoEcho'
  BY <1>2 DEF IInv, NoEcho
<1>7. AnswersNeedDatabase'
  BY <1>1 DEF AnswersNeedDatabase, DataKinds
<1>8. QED
  BY <1>3, <1>4, <1>5, <1>6, <1>7 DEF IInv

\* A packet built in an empty buffer is an answer, with an ID of one byte.
LEMMA PacketType ==
  ASSUME TypeOK, NEW kind \in {"handshake", "result"}, NEW s
  PROVE  Packet(NULL, kind, s) \in Frame /\ Packet(NULL, kind, s).type = kind
<1>1. packet_number % 256 \in 0 .. 255
  BY DEF TypeOK
<1>2. header(s) \in {0, 255} /\ Layout \in {"ok", "error"}
  BY DEF header, Layout
<1>3. QED
  BY <1>1, <1>2 DEF Packet, Frame

LEMMA SendInv ==
  ASSUME IInv, NEW kind \in {"handshake", "result"}, NEW s, Send(NULL, kind, s),
         pc \in {"handshake", "auth_reply", "reply"},
         process' = "up", pc' \in {"auth", "command"},
         status' \in Status,
         column_count_error_code' \in {FXMY_OK, FXMY_ERROR},
         blocks' \in [Block -> Int],
         UNCHANGED <<odbc, database, peer, toServer>>
  PROVE  IInv'
<1> DEFINE p == Packet(NULL, kind, s)
<1>1. p \in Frame /\ p.type # "echo"
  BY PacketType DEF IInv
<1>2. toClient \in Seq(Frame)
  BY DEF IInv, TypeOK
<1>3. toClient' = toClient \/ toClient' = Append(toClient, p)
  BY DEF Send
<1>4. toClient' \in Seq(Frame) /\ NoEcho'
  <2>1. CASE toClient' = toClient
    BY <1>2, <2>1 DEF IInv, NoEcho
  <2>2. CASE toClient' = Append(toClient, p)
    <3> HIDE DEF p
    <3>1. \A i \in 1 .. Len(toClient) : toClient[i].type # "echo"
      BY <1>2 DEF IInv, NoEcho
    <3>2. QED
      BY <1>1, <1>2, <2>2, <3>1, AppendProperties DEF NoEcho
  <2>3. QED
    BY <1>3, <2>1, <2>2
<1>5. packet_number' \in 1 .. 257 /\ xfer_buffer' = NULL
  BY DEF IInv, TypeOK, NumberOK, Send, AfterSend
<1>6. TypeOK'
  BY <1>4, <1>5 DEF IInv, TypeOK, odbc, peer
<1>7. NumberOK' /\ AuthOutstanding'
  BY DEF IInv, NumberOK, AuthOutstanding, peer
<1>8. BufferHandOff' /\ AnswersNeedDatabase'
  BY <1>5 DEF BufferHandOff, AnswersNeedDatabase
<1>9. QED
  BY <1>4, <1>6, <1>7, <1>8 DEF IInv

\* A step that leaves the buffer and the network alone, and stops.
LEMMA StopInv ==
  ASSUME IInv, process' \in Crashes, pc' = pc,
         UNCHANGED <<buffers, transient, odbc, heap, peer, toServer, toClient>>
  PROVE  IInv'
<1>1. TypeOK'
  BY DEF IInv, TypeOK, buffers, transient, odbc, heap, peer
<1>2. NumberOK' /\ AuthOutstanding'
  BY DEF IInv, NumberOK, AuthOutstanding, buffers, peer
<1>3. BufferHandOff' /\ AnswersNeedDatabase' /\ NoEcho'
  BY DEF IInv, BufferHandOff, AnswersNeedDatabase, NoEcho, Crashes
<1>4. QED
  BY <1>1, <1>2, <1>3 DEF IInv


-----------------------------------------------------------------------------
(* The handlers.                                                           *)

LEMMA NullStatus == ~Succeeded(NULL) /\ ~Failed(NULL)
BY SessionAssumption DEF Succeeded, Failed, TableCodes

\* Without a connection a query has no status.
LEMMA NoHandleNoStatus ==
  ASSUME ~connected, NEW o \in ExecDirect
  PROVE  StatusOf(o) = NULL /\ Exec(o) = NULL
<1>1. o = InvalidHandle
  BY DEF ExecDirect
<1>2. QED
  BY <1>1, InvalidHandleStatus

LEMMA ConnectFacts ==
  ASSUME IInv, NEW to, Connect(to)
  PROVE  /\ status' \in Status
         /\ connected' \in BOOLEAN
         /\ \/ process' \in Crashes /\ pc' = pc
            \/ process' = "up" /\ pc' = to
<1>1. PICK o \in DriverConnect :
        /\ connected' = (connected \/ o.rc # "SQL_ERROR")
        /\ \/ Breaks(o) /\ Crash(Why(o)) /\ UNCHANGED status
           \/ ~Breaks(o) /\ Proceed(to) /\ status' = StatusAfterConnect(o)
  BY DEF Connect
<1>2. connected' \in BOOLEAN
  BY <1>1
<1>3. StatusAfterConnect(o) \in Status
  BY InvalidHandleStatus DEF StatusAfterConnect, Succeeded, Status, TableCodes
<1>4. Why(o) \in Crashes
  BY DEF Why, Crashes
<1>5. status \in Status
  BY DEF IInv, TypeOK
<1>6. QED
  BY <1>1, <1>2, <1>3, <1>4, <1>5 DEF Crash, Proceed

\* A handler leaves a count of every sort of block.
LEMMA UsesType ==
  ASSUME NEW got, NEW freed, Uses(got, freed), IInv
  PROVE  blocks' \in [Block -> Int]
<1>1. ASSUME NEW h \in [Block -> Int], NEW S
      PROVE  Malloc(h, S) \in [Block -> Int] /\ Free(h, S) \in [Block -> Int]
  BY DEF Malloc, Free
<1>2. QED
  BY <1>1 DEF Uses, IInv, TypeOK

\* So does an answer.
LEMMA AnswerHeapType ==
  ASSUME IInv
  PROVE  /\ HeapAfterSend(blocks, xfer_buffer) \in [Block -> Int]
         /\ HeapAfterResult \in [Block -> Int]
<1>1. ASSUME NEW h \in [Block -> Int], NEW S
      PROVE  Malloc(h, S) \in [Block -> Int] /\ Free(h, S) \in [Block -> Int]
  BY DEF Malloc, Free
<1>2. ASSUME NEW h \in [Block -> Int], NEW buffer
      PROVE  HeapAfterSend(h, buffer) \in [Block -> Int]
  BY <1>1 DEF HeapAfterSend
<1>3. blocks \in [Block -> Int]
  BY DEF IInv, TypeOK
<1>4. QED
  BY <1>1, <1>2, <1>3 DEF HeapAfterResult

LEMMA AuthenticationInv ==
  ASSUME IInv, Auth \/ AuthWithDb \/ AuthBadName \/ AuthShort
  PROVE  IInv'
<1>1. /\ status \in Status /\ database \in BOOLEAN /\ connected \in BOOLEAN
      /\ stmts \in Nat
  BY DEF IInv, TypeOK
<1>2. CASE Auth
  BY <1>1, <1>2, HandlerInv, UsesType DEF Auth, Proceed, UsesNone, DataKinds, odbc
<1>3. CASE AuthWithDb
  BY <1>1, <1>3, HandlerInv, ConnectFacts, UsesType DEF AuthWithDb, DataKinds
<1>4. CASE AuthShort
  BY <1>1, <1>4, HandlerInv, UsesType DEF AuthShort, Crash, Crashes, UsesNone, DataKinds, odbc
<1>5. CASE AuthBadName
  BY <1>1, <1>5, HandlerInv, UsesType DEF AuthBadName, Crash, Crashes, UsesNone, DataKinds, odbc
<1>6. QED
  BY <1>2, <1>3, <1>4, <1>5

LEMMA CommandInv ==
  ASSUME IInv, Quit \/ InitDb \/ SetOption \/ Unsupported
  PROVE  IInv'
<1>1. /\ status \in Status /\ database \in BOOLEAN /\ connected \in BOOLEAN
      /\ stmts \in Nat
  BY DEF IInv, TypeOK
<1>2. CASE Quit
  BY <1>1, <1>2, HandlerInv, UsesType DEF Quit, Proceed, UsesNone, DataKinds, odbc
<1>3. CASE InitDb
  BY <1>1, <1>3, HandlerInv, ConnectFacts, UsesType DEF InitDb, DataKinds
<1>4. CASE SetOption
  BY <1>1, <1>4, HandlerInv, UsesType DEF SetOption, Proceed, UsesNone, DataKinds, odbc
<1>5. CASE Unsupported
  BY <1>1, <1>5, HandlerInv, UsesType DEF Unsupported, Crash, Crashes, UsesNone, DataKinds, odbc
<1>6. QED
  BY <1>2, <1>3, <1>4, <1>5

\* The queries that do not reach SQL Server.
LEMMA LocalQueryInv ==
  ASSUME IInv, SetNames \/ SetNamesOther \/ LimitUnbounded \/ Malformed
  PROVE  IInv'
<1>1. /\ status \in Status /\ database \in BOOLEAN /\ connected \in BOOLEAN
      /\ stmts \in Nat
  BY DEF IInv, TypeOK
<1>2. FXMY_ERROR_DEFAULT \in Status
  BY DEF FXMY_ERROR_DEFAULT, Status, TableCodes, ErrorCodes
<1>3. CASE SetNames
  BY <1>1, <1>3, HandlerInv, UsesType DEF SetNames, Proceed, DataKinds, odbc
<1>4. CASE SetNamesOther
  BY <1>1, <1>4, HandlerInv, UsesType DEF SetNamesOther, Crash, Crashes, DataKinds, odbc
<1>5. CASE LimitUnbounded
  BY <1>1, <1>2, <1>5, HandlerInv, UsesType DEF LimitUnbounded, Proceed, DataKinds, odbc
<1>6. CASE Malformed
  BY <1>1, <1>6, HandlerInv, UsesType DEF Malformed, Crash, Crashes, DataKinds, odbc
<1>7. QED
  BY <1>3, <1>4, <1>5, <1>6

\* A query that ends the process.
LEMMA CrashFacts ==
  ASSUME IInv, NEW kind, Recv("command", kind), ExecCrashes \/ FetchCrashes,
         blocks' \in [Block -> Int], database' = database
  PROVE  IInv'
<1>1. /\ status \in Status /\ database \in BOOLEAN /\ connected \in BOOLEAN
      /\ stmts \in Nat
  BY DEF IInv, TypeOK
<1>2. CASE ExecCrashes
  BY <1>1, <1>2, HandlerInv DEF ExecCrashes, Crash, Crashes, odbc
<1>3. CASE FetchCrashes
  <2>1. PICK f \in Fetch : Crash(IF Breaks(f) THEN Why(f) ELSE "todo")
    BY <1>3 DEF FetchCrashes
  <2>2. process' \in Crashes /\ pc' = pc /\ process' # "up"
    BY <2>1 DEF Crash, Crashes, Why
  <2>3. QED
    BY <1>1, <1>3, <2>2, HandlerInv DEF FetchCrashes, odbc
<1>4. QED
  BY <1>2, <1>3

LEMMA DescribeInv ==
  ASSUME IInv, Describe
  PROVE  IInv'
<1>1. /\ status \in Status /\ database \in BOOLEAN /\ connected \in BOOLEAN
      /\ stmts \in Nat
  BY DEF IInv, TypeOK
<1>2. /\ Recv("command", "DESCRIBE")
      /\ blocks' \in [Block -> Int] /\ database' = database
  BY UsesType DEF Describe
<1>3. CASE ExecCrashes \/ FetchCrashes
  BY <1>2, <1>3, CrashFacts
<1>4. CASE ~(ExecCrashes \/ FetchCrashes)
  <2>1. PICK o \in ExecDirect : Exec(o) # NULL /\ status' = Exec(o)
    BY <1>4 DEF Describe
  <2>2. Proceed("reply") /\ stmts' = stmts /\ connected' = connected
    BY <1>4 DEF Describe, odbc
  <2>3. connected
    BY <2>1, NoHandleNoStatus
  <2>4. status' \in Status
    BY <2>1, ExecType
  <2>5. QED
    BY <1>1, <1>2, <2>2, <2>3, <2>4, HandlerInv DEF Proceed
<1>5. QED
  BY <1>3, <1>4

LEMMA ShowTablesInv ==
  ASSUME IInv, ShowTables
  PROVE  IInv'
<1>1. /\ status \in Status /\ database \in BOOLEAN /\ connected \in BOOLEAN
      /\ stmts \in Nat /\ stmts + 1 \in Nat
  BY DEF IInv, TypeOK
<1>2. /\ Recv("command", "SHOW_TABLES")
      /\ blocks' \in [Block -> Int] /\ database' = database
  BY UsesType DEF ShowTables
<1>3. CASE ExecCrashes \/ FetchCrashes
  BY <1>2, <1>3, CrashFacts
<1>4. CASE ~(ExecCrashes \/ FetchCrashes)
  <2>1. PICK o \in ExecDirect :
          \/ Succeeded(Exec(o)) /\ status' = FXMY_OK /\ stmts' = stmts + 1
          \/ Failed(Exec(o)) /\ UNCHANGED <<status, stmts>>
    BY <1>4 DEF ShowTables
  <2>2. Proceed("reply") /\ connected' = connected
    BY <1>4 DEF ShowTables
  <2>3. connected
    BY <2>1, NoHandleNoStatus, NullStatus
  <2>4. status' \in Status /\ stmts' \in Nat
    BY <1>1, <2>1 DEF Status, TableCodes, SuccessCodes
  <2>5. QED
    BY <1>1, <1>2, <2>2, <2>3, <2>4, HandlerInv DEF Proceed
<1>5. QED
  BY <1>3, <1>4

LEMMA StatementInv ==
  ASSUME IInv, Statement
  PROVE  IInv'
<1>1. /\ status \in Status /\ database \in BOOLEAN /\ connected \in BOOLEAN
      /\ stmts \in Nat
  BY DEF IInv, TypeOK
<1>2. Recv("command", "STATEMENT")
  BY DEF Statement
<1>3. /\ database' = database /\ connected' = connected /\ stmts' = stmts
      /\ blocks' \in [Block -> Int]
  BY UsesType DEF Statement, odbc
<1>4. PICK o \in ExecDirect :
        \/ Breaks(o) /\ Crash(Why(o)) /\ UNCHANGED status
        \/ ~Breaks(o) /\ StatusOf(o) = NULL /\ Crash("null_status") /\ UNCHANGED status
        \/ ~Breaks(o) /\ Succeeded(StatusOf(o)) /\ Crash("todo") /\ UNCHANGED status
        \/ ~Breaks(o) /\ Failed(StatusOf(o)) /\ Proceed("reply") /\ status' = StatusOf(o)
  BY DEF Statement
<1>5. CASE Failed(StatusOf(o)) /\ Proceed("reply") /\ status' = StatusOf(o)
  <2>1. connected
    BY <1>5, NoHandleNoStatus, NullStatus
  <2>2. status' \in Status
    BY <1>5 DEF Failed, Status, TableCodes
  <2>3. QED
    BY <1>1, <1>2, <1>3, <1>5, <2>1, <2>2, HandlerInv DEF Proceed
<1>6. CASE status' = status /\ \E why \in Crashes : Crash(why)
  BY <1>1, <1>2, <1>3, <1>6, HandlerInv DEF Crash, Crashes
<1>7. Why(o) \in Crashes /\ "null_status" \in Crashes /\ "todo" \in Crashes
  BY DEF Why, Crashes
<1>8. QED
  BY <1>4, <1>5, <1>6, <1>7

-----------------------------------------------------------------------------
(* Sending, stopping and closing.                                          *)

LEMMA AnswerInv ==
  ASSUME IInv, SendHandshake \/ AuthReply \/ Reply
  PROVE  IInv'
<1>1. /\ status \in Status /\ FXMY_OK \in Status
      /\ column_count_error_code \in {FXMY_OK, FXMY_ERROR}
  BY DEF IInv, TypeOK, Status, TableCodes, SuccessCodes
<1>2. CASE SendHandshake
  <2>1. xfer_buffer = NULL
    BY <1>2 DEF IInv, BufferHandOff, SendHandshake
  <2>2. QED
    BY <1>1, <1>2, <2>1, SendInv, AnswerHeapType DEF SendHandshake, Proceed, transient
<1>3. CASE AuthReply
  BY <1>1, <1>3, SendInv, AnswerHeapType DEF AuthReply, Proceed, BufferAtResult
<1>4. CASE Reply
  BY <1>1, <1>4, SendInv, AnswerHeapType
     DEF Reply, Proceed, BufferAtResult, StatusAfterReply
<1>5. QED
  BY <1>2, <1>3, <1>4

LEMMA StoppingInv ==
  ASSUME IInv, ReplyWithoutStatus \/ SendFails \/ ShortRead
  PROVE  IInv'
BY StopInv DEF ReplyWithoutStatus, SendFails, ShortRead, Crash, Crashes

LEMMA CloseInv ==
  ASSUME IInv, Close
  PROVE  IInv'
<1>1. PICK o : \/ Breaks(o) /\ Crash(Why(o)) /\ UNCHANGED odbc
               \/ ~Breaks(o) /\ Proceed("exited") /\ connected' = FALSE /\ stmts' = 0
  BY DEF Close
<1>2. process = "up" /\ pc = "close" /\ UNCHANGED <<buffers, transient, heap, peer, toServer, toClient>>
  BY DEF Close
<1>3. CASE Breaks(o) /\ Crash(Why(o)) /\ UNCHANGED odbc
  BY <1>2, <1>3, StopInv DEF Crash, Why, Crashes
<1>4. CASE Proceed("exited") /\ connected' = FALSE /\ stmts' = 0
  <2>1. TypeOK'
    BY <1>2, <1>4 DEF IInv, TypeOK, Proceed, buffers, transient, heap, peer
  <2>2. NumberOK' /\ AuthOutstanding' /\ BufferHandOff' /\ NoEcho' /\ AnswersNeedDatabase'
    BY <1>2, <1>4 DEF IInv, NumberOK, AuthOutstanding, BufferHandOff, NoEcho,
       AnswersNeedDatabase, Proceed, buffers, peer
  <2>3. QED
    BY <2>1, <2>2 DEF IInv
<1>5. QED
  BY <1>1, <1>3, <1>4

-----------------------------------------------------------------------------
(* The client.                                                             *)

\* A client step is safe if it keeps its own variables typed and takes
\* packets off the network only.
LEMMA PeerInv ==
  ASSUME IInv, UNCHANGED worker,
         client' \in {"connecting", "greeted", "authenticating", "ready", "quitting", "closed"},
         sent' \in 0 .. MaxCommands, early' \in Nat,
         outstanding' \in Seq(Request), toServer' \in Seq(Request),
         \/ toClient' \in {toClient, <<>>}
         \/ toClient # <<>> /\ toClient' = Tail(toClient),
         AuthOutstanding'
  PROVE  IInv'
<1>1. toClient \in Seq(Frame)
  BY DEF IInv, TypeOK
<1>2. toClient' \in Seq(Frame) /\ NoEcho'
  <2>1. CASE toClient' = toClient
    BY <1>1, <2>1 DEF IInv, NoEcho
  <2>2. CASE toClient # <<>> /\ toClient' = Tail(toClient)
    <3>1. /\ Tail(toClient) \in Seq(Frame)
          /\ Len(Tail(toClient)) = Len(toClient) - 1
          /\ \A i \in 1 .. Len(Tail(toClient)) : Tail(toClient)[i] = toClient[i + 1]
      BY <1>1, <2>2, HeadTailProperties
    <3>2. Len(toClient) \in Nat /\ DOMAIN toClient = 1 .. Len(toClient)
      BY <1>1, LenProperties
    <3>3. \A i \in 1 .. Len(toClient) - 1 : toClient[i + 1].type # "echo"
      BY <3>2 DEF IInv, NoEcho
    <3>4. DOMAIN Tail(toClient) = 1 .. Len(toClient) - 1
      BY <3>1, LenProperties
    <3>5. QED
      BY <2>2, <3>1, <3>3, <3>4 DEF NoEcho
  <2>3. CASE toClient' = <<>>
    BY <2>3 DEF NoEcho
  <2>4. QED
    BY <2>1, <2>2, <2>3
<1>3. TypeOK' /\ NumberOK' /\ BufferHandOff' /\ AnswersNeedDatabase'
  BY <1>2 DEF IInv, TypeOK, NumberOK, BufferHandOff, AnswersNeedDatabase,
     worker, buffers, transient, odbc, heap
<1>4. QED
  BY <1>2, <1>3 DEF IInv

LEMMA ClientInv ==
  ASSUME IInv, ClientStep
  PROVE  IInv'
<1>1. /\ outstanding \in Seq(Request) /\ toServer \in Seq(Request)
      /\ sent \in 0 .. MaxCommands /\ MaxCommands \in Nat /\ early \in Nat
      /\ client \in {"connecting", "greeted", "authenticating", "ready", "quitting", "closed"}
  BY SessionAssumption DEF IInv, TypeOK
<1>2. ASSUME NEW r \in Request, ClientAuth(r)
      PROVE  IInv'
  <2>1. Append(toServer, r) \in Seq(Request) /\ <<r>> \in Seq(Request) /\ <<r>> # <<>>
    BY <1>1, AppendProperties
  <2>2. AuthOutstanding'
    BY <1>2, <2>1 DEF ClientAuth, AuthOutstanding
  <2>3. QED
    BY <1>1, <1>2, <2>1, <2>2, PeerInv DEF ClientAuth
<1>3. ASSUME NEW r \in Request, ClientCommand(r)
      PROVE  IInv'
  <2>1. /\ Append(toServer, r) \in Seq(Request)
        /\ Append(outstanding, r) \in Seq(Request)
        /\ sent' \in 0 .. MaxCommands /\ early' \in Nat
    BY <1>1, <1>3, AppendProperties DEF ClientCommand
  <2>2. /\ client' \in {"ready", "quitting"}
        /\ outstanding' \in {outstanding, Append(outstanding, r)}
    BY <1>3 DEF ClientCommand
  <2>3. AuthOutstanding'
    BY <2>2 DEF AuthOutstanding
  <2>4. QED
    BY <1>1, <1>3, <2>1, <2>2, <2>3, PeerInv DEF ClientCommand
<1>4. CASE ClientReads
  <2>1. /\ client' \in {"greeted", "ready", "quitting"}
        /\ toClient # <<>> /\ toClient' = Tail(toClient)
        /\ UNCHANGED <<worker, sent, early, toServer>>
    BY <1>4 DEF ClientReads
  <2>2. outstanding' \in Seq(Request)
    <3>1. CASE client = "connecting"
      BY <1>1, <1>4, <3>1 DEF ClientReads
    <3>2. CASE client = "authenticating"
      BY <1>1, <1>4, <3>2, HeadTailProperties DEF ClientReads, IInv, AuthOutstanding
    <3>3. CASE client \in {"ready", "quitting"}
      <4>1. outstanding' = SubSeq(outstanding, 2, Len(outstanding))
        BY <1>4, <3>3 DEF ClientReads
      <4>2. QED
        BY <1>1, <4>1, SubSeqProperties
    <3>4. QED
      BY <1>4, <3>1, <3>2, <3>3 DEF ClientReads
  <2>3. AuthOutstanding'
    BY <2>1 DEF AuthOutstanding
  <2>4. QED
    BY <1>1, <2>1, <2>2, <2>3, PeerInv
<1>5. CASE ClientCloses
  <2>1. <<>> \in Seq(Request)
    OBVIOUS
  <2>2. QED
    BY <1>1, <1>5, <2>1, PeerInv DEF ClientCloses, AuthOutstanding
<1>6. QED
  BY <1>2, <1>3, <1>4, <1>5 DEF ClientStep

-----------------------------------------------------------------------------
(* The invariant and what follows from it.                                 *)

LEMMA InitInv == Init => IInv
<1> SUFFICES ASSUME Init PROVE IInv
  OBVIOUS
<1>1. TypeOK
  <2>1. <<>> \in Seq(Request) /\ <<>> \in Seq(Frame) /\ 0 \in 0 .. MaxCommands
    BY SessionAssumption
  <2>2. outstanding \in Seq(Request) /\ toServer \in Seq(Request) /\ toClient \in Seq(Frame)
    BY <2>1 DEF Init
  <2>3. sent \in 0 .. MaxCommands /\ packet_number \in 0 .. 257
    BY <2>1 DEF Init
  <2>4. blocks \in [Block -> Int]
    BY DEF Init
  <2>5. QED
    BY <2>2, <2>3, <2>4 DEF Init, TypeOK, Status
<1>2. NumberOK /\ AuthOutstanding /\ BufferHandOff /\ NoEcho /\ AnswersNeedDatabase
  BY DEF Init, NumberOK, AuthOutstanding, BufferHandOff, NoEcho, AnswersNeedDatabase
<1>3. QED
  BY <1>1, <1>2 DEF IInv

LEMMA NextInv == IInv /\ [Next]_vars => IInv'
<1> SUFFICES ASSUME IInv, [Next]_vars PROVE IInv'
  OBVIOUS
<1>1. CASE WorkerStep
  BY <1>1, AuthenticationInv, CommandInv, LocalQueryInv, DescribeInv,
     ShowTablesInv, StatementInv, AnswerInv, StoppingInv, CloseInv DEF WorkerStep
<1>2. CASE ClientStep
  BY <1>2, ClientInv
<1>3. CASE UNCHANGED vars
  BY <1>3 DEF vars, buffers, transient, odbc, heap, peer, IInv, TypeOK, NumberOK,
     AuthOutstanding, BufferHandOff, NoEcho, AnswersNeedDatabase
<1>4. QED
  BY <1>1, <1>2, <1>3 DEF Next

\* The inductive invariant holds in every reachable state.
THEOREM SessionInvariance == Spec => []IInv
BY InitInv, NextInv, PTL DEF Spec

\* Every variable has its type, and every packet ID fits its byte.
THEOREM SessionTypeCorrect == Spec => []TypeOK
<1>1. IInv => TypeOK
  BY DEF IInv
<1>2. QED
  BY <1>1, SessionInvariance, PTL

\* The packet buffer is handed over empty: fxmy_recv overwrites nothing, and
\* a handler always has the packet it was called for.
THEOREM BufferNeverLost == Spec => []BufferHandOff
<1>1. IInv => BufferHandOff
  BY DEF IInv
<1>2. QED
  BY <1>1, SessionInvariance, PTL

\* No request is ever sent back as its own answer.
THEOREM NothingEchoed == Spec => []NoEcho
<1>1. IInv => NoEcho
  BY DEF IInv
<1>2. QED
  BY <1>1, SessionInvariance, PTL

\* A query is answered from SQL Server only over a connected handle, for
\* whatever native codes the driver reports.
THEOREM AnswersOverConnection == Spec => []AnswersNeedDatabase
<1>1. IInv => AnswersNeedDatabase
  BY DEF IInv
<1>2. QED
  BY <1>1, SessionInvariance, PTL
-----------------------------------------------------------------------------
(* Requests and answers.  What follows is about the places of a request    *)
(* between the client's sending it and its reading of the answer.          *)

\* Before the client has authenticated nothing is on its way but the
\* handshake.
Phases ==
  /\ client = "connecting" => toServer = <<>> /\ Len(toClient) <= 1
  /\ client = "greeted" => toServer = <<>> /\ toClient = <<>>
  /\ process = "up" =>
       /\ client = "connecting" =>
            \/ pc = "handshake" /\ toClient = <<>>
            \/ pc = "auth"
       /\ client = "greeted" => pc = "auth"
       /\ pc = "handshake" => client \in {"connecting", "closed"}

\* COM_QUIT is the last thing that a client sends.
QuitLast ==
  \A i \in 1 .. Len(toServer) : toServer[i].kind = "QUIT" =>
    i = Len(toServer) /\ client \in {"quitting", "closed"}

\* The status in hand is one that the answer to the packet in hand can have,
\* and no status is in hand between two commands.
StatusFits ==
  process = "up" =>
    /\ pc = "command" => status = FXMY_OK
    /\ pc = "auth_reply" => FALSE \in Promise!Outcomes(xfer_buffer)
    /\ pc = "reply" =>
         status = NULL \/ (header(status) = 255) \in Promise!Outcomes(xfer_buffer)

NumberFollows ==
  process = "up" /\ pc \in {"auth_reply", "reply"} => packet_number = xfer_buffer.id + 1

InHand == IF pc \in {"auth_reply", "reply"} THEN 1 ELSE 0

\* Requests o are, in this order, those that the answers c are about, then b if
\* h is 1, then those in s.
Lined(o, c, h, b, s) ==
  /\ Len(o) = Len(c) + h + (Len(s) - Unanswered(s))
  /\ \A i \in 1 .. Len(c) : c[i].id = (o[i].id + 1) % 256
  /\ h = 1 => o[Len(c) + 1] = b
  /\ \A i \in 1 .. Len(s) - Unanswered(s) : o[Len(c) + h + i] = s[i]

Order ==
  Talking =>
    /\ Len(toClient) <= Len(outstanding)
    /\ process = "up" => Lined(outstanding, toClient, InHand, xfer_buffer, toServer)

OInv == Phases /\ QuitLast /\ StatusFits /\ NumberFollows /\ Order

\* What the definitions say about sequences, and no more.
LEMMA UnansweredType ==
  ASSUME NEW q
  PROVE  Unanswered(q) \in 0 .. 1
BY DEF Unanswered

\* A request with an answer is made.
LEMMA LinedAsk ==
  ASSUME NEW o \in Seq(Request), NEW c \in Seq(Frame), NEW h \in 0 .. 1, NEW b,
         NEW s \in Seq(Request), NEW r \in Request,
         Lined(o, c, h, b, s), Unanswered(s) = 0, r.kind # "QUIT"
  PROVE  Lined(Append(o, r), c, h, b, Append(s, r))
<1> DEFINE o2 == Append(o, r)
           s2 == Append(s, r)
<1>1. /\ Len(o2) = Len(o) + 1 /\ o2[Len(o) + 1] = r
      /\ \A i \in 1 .. Len(o) : o2[i] = o[i]
  BY AppendProperties
<1>2. /\ s2 # <<>> /\ Len(s2) = Len(s) + 1 /\ s2[Len(s) + 1] = r
      /\ \A i \in 1 .. Len(s) : s2[i] = s[i]
  BY AppendProperties
<1>3. Len(o) \in Nat /\ Len(c) \in Nat /\ Len(s) \in Nat
  BY LenProperties
<1>4. Unanswered(s2) = 0
  BY <1>2 DEF Unanswered
<1>5. /\ Len(o) = Len(c) + h + Len(s)
      /\ \A i \in 1 .. Len(c) : c[i].id = (o[i].id + 1) % 256
      /\ h = 1 => o[Len(c) + 1] = b
      /\ \A i \in 1 .. Len(s) : o[Len(c) + h + i] = s[i]
  BY <1>3 DEF Lined
<1> HIDE DEF o2, s2
<1>6. \A i \in 1 .. Len(c) : c[i].id = (o2[i].id + 1) % 256
  BY <1>1, <1>3, <1>5
<1>7. h = 1 => o2[Len(c) + 1] = b
  BY <1>1, <1>3, <1>5
<1>8. ASSUME NEW i \in 1 .. Len(s2) PROVE o2[Len(c) + h + i] = s2[i]
  <2>1. CASE i = Len(s) + 1
    BY <1>1, <1>2, <1>3, <1>5, <2>1
  <2>2. CASE i # Len(s) + 1
    <3>1. i \in 1 .. Len(s) /\ Len(c) + h + i \in 1 .. Len(o)
      BY <1>2, <1>3, <1>5, <1>8, <2>2
    <3>2. QED
      BY <1>1, <1>2, <1>5, <3>1
  <2>3. QED
    BY <2>1, <2>2
<1>9. Lined(o2, c, h, b, s2)
  BY <1>1, <1>2, <1>3, <1>4, <1>5, <1>6, <1>7, <1>8 DEF Lined
<1>10. QED
  BY <1>9 DEF o2, s2

\* COM_QUIT is sent.
LEMMA LinedAskQuit ==
  ASSUME NEW o \in Seq(Request), NEW c \in Seq(Frame), NEW h \in 0 .. 1, NEW b,
         NEW s \in Seq(Request), NEW r \in Request,
         Lined(o, c, h, b, s), Unanswered(s) = 0, r.kind = "QUIT"
  PROVE  Lined(o, c, h, b, Append(s, r))
<1> DEFINE s2 == Append(s, r)
<1>1. /\ s2 # <<>> /\ Len(s2) = Len(s) + 1 /\ s2[Len(s) + 1] = r
      /\ \A i \in 1 .. Len(s) : s2[i] = s[i]
  BY AppendProperties
<1>2. Len(s) \in Nat
  BY LenProperties
<1>3. Unanswered(s2) = 1
  BY <1>1 DEF Unanswered
<1> HIDE DEF s2
<1>4. Lined(o, c, h, b, s2)
  BY <1>1, <1>2, <1>3 DEF Lined
<1>5. QED
  BY <1>4 DEF s2

\* A request with an answer is received.
LEMMA LinedReceive ==
  ASSUME NEW o \in Seq(Request), NEW c \in Seq(Frame), NEW b,
         NEW s \in Seq(Request), s # <<>>,
         Lined(o, c, 0, b, s), Head(s).kind # "QUIT"
  PROVE  Lined(o, c, 1, Head(s), Tail(s))
<1> DEFINE t == Tail(s)
<1>1. /\ t \in Seq(Request) /\ Len(t) = Len(s) - 1 /\ Head(s) = s[1]
      /\ \A i \in 1 .. Len(t) : t[i] = s[i + 1]
  BY HeadTailProperties
<1>2. Len(s) \in Nat \ {0} /\ Len(c) \in Nat /\ Len(o) \in Nat /\ Len(t) \in Nat
  BY <1>1, LenProperties, EmptySeq
<1> HIDE DEF t
<1>3. Unanswered(t) = Unanswered(s)
  <2>1. CASE t = <<>>
    <3>1. Len(s) = 1
      BY <1>1, <1>2, <2>1
    <3>2. QED
      BY <1>1, <2>1, <3>1 DEF Unanswered
  <2>2. CASE t # <<>>
    <3>1. Len(t) # 0
      BY <1>1, <2>2, EmptySeq
    <3>2. t[Len(t)] = s[Len(s)]
      BY <1>1, <1>2, <3>1
    <3>3. QED
      BY <2>2, <3>2 DEF Unanswered
  <2>3. QED
    BY <2>1, <2>2
<1>4. Unanswered(s) \in Nat /\ Len(s) - Unanswered(s) >= 1
  <2>1. Len(s) = 1 => Unanswered(s) = 0
    BY <1>1 DEF Unanswered
  <2>2. Unanswered(s) \in 0 .. 1
    BY UnansweredType
  <2>3. Unanswered(s) = 0 \/ Unanswered(s) = 1
    BY <2>2
  <2>4. Len(s) \in Nat /\ Len(s) >= 1
    BY <1>2
  <2>5. CASE Unanswered(s) = 0
    BY <2>4, <2>5
  <2>6. CASE Unanswered(s) = 1
    <3> DEFINE m == Len(s)
               u == Unanswered(s)
    <3>1. m \in Nat /\ m >= 1 /\ u = 1 /\ (m = 1 => u = 0)
      BY <2>1, <2>4, <2>6
    <3> HIDE DEF m, u
    <3>2. u \in Nat /\ m - u >= 1
      BY <3>1
    <3>3. QED
      BY <3>2 DEF m, u
  <2>7. QED
    BY <2>3, <2>5, <2>6
<1>5. o[Len(c) + 1] = s[1]
  BY <1>2, <1>4 DEF Lined
<1>6. ASSUME NEW i \in 1 .. Len(t) - Unanswered(t) PROVE o[Len(c) + 1 + i] = t[i]
  <2>1. i \in 1 .. Len(t) /\ i + 1 \in 1 .. Len(s) - Unanswered(s)
    BY <1>1, <1>2, <1>3, <1>4
  <2>2. o[Len(c) + 0 + (i + 1)] = s[i + 1]
    BY <2>1 DEF Lined
  <2>3. QED
    BY <1>1, <1>2, <2>1, <2>2
<1>7. Lined(o, c, 1, Head(s), t)
  BY <1>1, <1>2, <1>3, <1>4, <1>5, <1>6 DEF Lined
<1>8. QED
  BY <1>7 DEF t

\* COM_QUIT is received.
LEMMA LinedReceiveQuit ==
  ASSUME NEW o \in Seq(Request), NEW c \in Seq(Frame), NEW b, NEW b2,
         NEW s \in Seq(Request), s # <<>>, Len(s) = 1,
         Lined(o, c, 0, b, s), Head(s).kind = "QUIT"
  PROVE  Lined(o, c, 0, b2, Tail(s))
<1> DEFINE t == Tail(s)
<1>1. Head(s) = s[1] /\ t \in Seq(Request) /\ Len(t) = 0
  BY HeadTailProperties
<1> HIDE DEF t
<1>2. t = <<>>
  BY <1>1, EmptySeq
<1>3. Unanswered(s) = 1 /\ Unanswered(t) = 0
  BY <1>1, <1>2 DEF Unanswered
<1>4. Len(c) \in Nat
  BY LenProperties
<1>5. Len(o) = Len(c) /\ \A i \in 1 .. Len(c) : c[i].id = (o[i].id + 1) % 256
  BY <1>3, <1>4 DEF Lined
<1>6. Len(t) - Unanswered(t) = 0
  BY <1>1, <1>3
<1>7. Lined(o, c, 0, b2, t)
  BY <1>4, <1>5, <1>6 DEF Lined
<1>8. QED
  BY <1>7 DEF t

\* The answer in hand is sent.
LEMMA LinedAnswer ==
  ASSUME NEW o \in Seq(Request), NEW c \in Seq(Frame), NEW b \in Request, NEW b2,
         NEW s \in Seq(Request), NEW p \in Frame,
         Lined(o, c, 1, b, s), p.id = (b.id + 1) % 256
  PROVE  /\ Lined(o, Append(c, p), 0, b2, s)
         /\ Len(c) + 1 <= Len(o)
<1> DEFINE d == Append(c, p)
<1>1. /\ Len(d) = Len(c) + 1 /\ d[Len(c) + 1] = p
      /\ \A i \in 1 .. Len(c) : d[i] = c[i]
  BY AppendProperties
<1>2. Len(c) \in Nat /\ Len(s) \in Nat /\ Unanswered(s) \in Nat /\ Len(s) - Unanswered(s) >= 0
  <2>1. Len(s) = 0 => Unanswered(s) = 0
    BY EmptySeq DEF Unanswered
  <2>2. QED
    BY <2>1, UnansweredType, LenProperties
<1>3. /\ Len(o) = Len(c) + 1 + (Len(s) - Unanswered(s))
      /\ \A i \in 1 .. Len(c) : c[i].id = (o[i].id + 1) % 256
      /\ o[Len(c) + 1] = b
      /\ \A i \in 1 .. Len(s) - Unanswered(s) : o[Len(c) + 1 + i] = s[i]
  BY DEF Lined
<1> HIDE DEF d
<1>4. ASSUME NEW i \in 1 .. Len(d) PROVE d[i].id = (o[i].id + 1) % 256
  <2>1. CASE i = Len(c) + 1
    BY <1>1, <1>3, <2>1
  <2>2. CASE i # Len(c) + 1
    <3>1. i \in 1 .. Len(c)
      BY <1>1, <1>2, <2>2
    <3>2. QED
      BY <1>1, <1>3, <3>1
  <2>3. QED
    BY <2>1, <2>2
<1>5. \A i \in 1 .. Len(s) - Unanswered(s) : o[Len(d) + 0 + i] = s[i]
  BY <1>1, <1>2, <1>3
<1>6. Lined(o, d, 0, b2, s)
  BY <1>1, <1>2, <1>3, <1>4, <1>5 DEF Lined
<1>7. QED
  BY <1>2, <1>3, <1>6 DEF d

\* The first answer is read.
LEMMA LinedRead ==
  ASSUME NEW o \in Seq(Request), NEW c \in Seq(Frame), NEW h \in 0 .. 1, NEW b,
         NEW s \in Seq(Request), c # <<>>,
         NEW o2 \in Seq(Request), Len(o2) = Len(o) - 1,
         \A i \in 1 .. Len(o) - 1 : o2[i] = o[i + 1],
         Lined(o, c, h, b, s)
  PROVE  Lined(o2, Tail(c), h, b, s)
<1> DEFINE t == Tail(c)
<1>1. /\ t \in Seq(Frame) /\ Len(t) = Len(c) - 1
      /\ \A i \in 1 .. Len(t) : t[i] = c[i + 1]
  BY HeadTailProperties
<1>2. /\ Len(c) \in Nat \ {0} /\ Len(s) \in Nat /\ Unanswered(s) \in Nat
      /\ Len(s) - Unanswered(s) \in Nat
  <2>1. Len(s) = 0 => Unanswered(s) = 0
    BY EmptySeq DEF Unanswered
  <2>2. QED
    BY <2>1, UnansweredType, LenProperties, EmptySeq
<1> DEFINE w == Len(s) - Unanswered(s)
<1>3. /\ Len(o) = Len(c) + h + w
      /\ \A i \in 1 .. Len(c) : c[i].id = (o[i].id + 1) % 256
      /\ h = 1 => o[Len(c) + 1] = b
      /\ \A i \in 1 .. w : o[Len(c) + h + i] = s[i]
  BY DEF Lined
<1>w. w \in Nat /\ Len(c) \in Nat /\ Len(c) >= 1 /\ h \in Nat
  BY <1>2
<1> HIDE DEF t, w
<1>4. ASSUME NEW i \in 1 .. Len(t) PROVE t[i].id = (o2[i].id + 1) % 256
  <2>1. t[i] = c[i + 1] /\ i + 1 \in 1 .. Len(c) /\ o2[i] = o[i + 1]
    BY <1>1, <1>w, <1>3, <1>4
  <2>2. QED
    BY <1>3, <2>1
<1>5. h = 1 => o2[Len(t) + 1] = b
  BY <1>1, <1>w, <1>3
<1>6. ASSUME NEW i \in 1 .. w PROVE o2[Len(t) + h + i] = s[i]
  <2>1. Len(t) + h + i \in 1 .. Len(o) - 1
    BY <1>1, <1>w, <1>3, <1>6
  <2>2. o2[Len(t) + h + i] = o[Len(t) + h + i + 1]
    BY <2>1
  <2>3. Len(t) + h + i + 1 = Len(c) + h + i
    BY <1>1, <1>w
  <2>4. QED
    BY <1>3, <2>2, <2>3
<1>7. Lined(o2, t, h, b, s)
  BY <1>1, <1>w, <1>3, <1>4, <1>5, <1>6 DEF Lined, w
<1>8. QED
  BY <1>7 DEF t
LEMMA OutcomesOf ==
  ASSUME NEW r
  PROVE  /\ r.kind \in {"STATEMENT", "LIMIT_UNBOUNDED"} => Promise!Outcomes(r) = {TRUE}
         /\ r.kind = "DESCRIBE" => Promise!Outcomes(r) = {TRUE, FALSE}
         /\ r.kind \notin {"STATEMENT", "LIMIT_UNBOUNDED", "DESCRIBE"} =>
              Promise!Outcomes(r) = {FALSE}
BY DEF Promise!Outcomes

LEMMA SuccessAllowed ==
  ASSUME NEW r, r.kind \notin {"STATEMENT", "LIMIT_UNBOUNDED"}
  PROVE  FALSE \in Promise!Outcomes(r)
BY OutcomesOf

FailingKinds == {"STATEMENT", "LIMIT_UNBOUNDED", "DESCRIBE"}

LEMMA FailureAllowed ==
  ASSUME NEW r, r.kind \in FailingKinds
  PROVE  TRUE \in Promise!Outcomes(r)
BY OutcomesOf DEF FailingKinds

LEMMA SuccessHeader == header(FXMY_OK) = 0 /\ FXMY_OK \in SuccessCodes
BY DEF header, SuccessCodes, FXMY_OK

\* What a handler owes besides: an answer that the packet received can have,
\* or none to COM_QUIT.
LEMMA HandlerOrder ==
  ASSUME IInv, OInv, NEW from \in {"auth", "command"}, NEW kind, Recv(from, kind),
         \/ process' \in Crashes /\ pc' = pc
         \/ kind # "QUIT" /\ process' = "up" /\ pc' \in {"auth_reply", "reply"}
         \/ kind = "QUIT" /\ process' = "up" /\ pc' = "close",
         process' = "up" /\ pc' = "auth_reply" => FALSE \in Promise!Outcomes(xfer_buffer'),
         process' = "up" /\ pc' = "reply" =>
           status' = NULL \/ (header(status') = 255) \in Promise!Outcomes(xfer_buffer')
  PROVE  OInv'
<1>1. /\ process = "up" /\ pc = from
      /\ toServer # <<>> /\ Head(toServer).kind = kind
      /\ toServer' = Tail(toServer)
      /\ xfer_buffer' = Head(toServer)
      /\ packet_number' = Head(toServer).id + 1
      /\ client' = client /\ outstanding' = outstanding /\ toClient' = toClient
  BY DEF Recv, NextNumber, peer
<1>2. toServer \in Seq(Request) /\ outstanding \in Seq(Request) /\ toClient \in Seq(Frame)
  BY DEF IInv, TypeOK
<1>3. /\ Tail(toServer) \in Seq(Request) /\ Head(toServer) = toServer[1]
      /\ Len(Tail(toServer)) = Len(toServer) - 1
      /\ \A i \in 1 .. Len(Tail(toServer)) : Tail(toServer)[i] = toServer[i + 1]
      /\ Len(toServer) \in Nat
  BY <1>1, <1>2, HeadTailProperties, LenProperties
<1>4. client \notin {"connecting", "greeted"}
  BY <1>1 DEF OInv, Phases
<1>5. Phases'
  BY <1>1, <1>4 DEF Phases
<1>6. QuitLast'
  <2> DEFINE t == Tail(toServer)
  <2>1. toServer' = t /\ Len(t) = Len(toServer) - 1
    BY <1>1, <1>3
  <2>2. \A i \in 1 .. Len(t) : t[i] = toServer[i + 1]
    BY <1>3
  <2> HIDE DEF t
  <2>3. ASSUME NEW i \in 1 .. Len(t), t[i].kind = "QUIT"
        PROVE  i = Len(t) /\ client \in {"quitting", "closed"}
    <3>1. i + 1 \in 1 .. Len(toServer) /\ toServer[i + 1].kind = "QUIT"
      BY <1>3, <2>1, <2>2, <2>3
    <3>2. i + 1 = Len(toServer) /\ client \in {"quitting", "closed"}
      BY <3>1 DEF OInv, QuitLast
    <3>3. i \in Nat /\ Len(toServer) \in Nat /\ Len(t) = Len(toServer) - 1
      BY <1>3, <2>1, <2>3
    <3>4. i = Len(t)
      BY <3>2, <3>3
    <3>5. QED
      BY <3>2, <3>4
  <2>4. QED
    BY <1>1, <2>1, <2>3 DEF QuitLast
<1>7. StatusFits'
  BY DEF StatusFits, Crashes
<1>8. NumberFollows'
  BY <1>1 DEF NumberFollows
<1>9. Order'
  <2>1. SUFFICES ASSUME Talking
                 PROVE  /\ Len(toClient) <= Len(outstanding)
                        /\ process' = "up" =>
                             Lined(outstanding, toClient, InHand', Head(toServer), Tail(toServer))
    BY <1>1 DEF Order, Talking
  <2>2. /\ Len(toClient) <= Len(outstanding)
        /\ Lined(outstanding, toClient, 0, xfer_buffer, toServer)
    BY <1>1, <2>1 DEF OInv, Order, InHand
  <2>3. CASE kind # "QUIT" /\ process' = "up" /\ pc' \in {"auth_reply", "reply"}
    <3>1. InHand' = 1
      BY <2>3 DEF InHand
    <3>2. Lined(outstanding, toClient, 1, Head(toServer), Tail(toServer))
      BY <1>1, <1>2, <2>2, <2>3, LinedReceive
    <3>3. QED
      BY <2>2, <3>1, <3>2
  <2>4. CASE kind = "QUIT" /\ process' = "up" /\ pc' = "close"
    <3>1. InHand' = 0
      BY <2>4 DEF InHand
    <3>2. 1 \in 1 .. Len(toServer)
      BY <1>1, <1>2, <1>3, EmptySeq
    <3>3. Len(toServer) = 1
      BY <1>1, <1>3, <2>4, <3>2 DEF OInv, QuitLast
    <3>4. Lined(outstanding, toClient, 0, Head(toServer), Tail(toServer))
      BY <1>1, <1>2, <2>2, <2>4, <3>3, LinedReceiveQuit
    <3>5. QED
      BY <2>2, <3>1, <3>4
  <2>5. CASE process' \in Crashes
    BY <2>2, <2>5 DEF Crashes
  <2>6. QED
    BY <2>3, <2>4, <2>5
<1>10. QED
  BY <1>5, <1>6, <1>7, <1>8, <1>9 DEF OInv

LEMMA ConnectStatus ==
  ASSUME NEW to, Connect(to), process' = "up"
  PROVE  status' = NULL \/ header(status') = 0
<1>1. PICK o \in DriverConnect :
        \/ Breaks(o) /\ Crash(Why(o)) /\ UNCHANGED status
        \/ ~Breaks(o) /\ Proceed(to) /\ status' = StatusAfterConnect(o)
  BY DEF Connect
<1>2. Why(o) # "up"
  BY DEF Why
<1>3. status' = StatusAfterConnect(o)
  BY <1>1, <1>2 DEF Crash
<1>4. QED
  BY <1>3, InvalidHandleStatus DEF StatusAfterConnect, Succeeded, header

\* An answer that is not a failure.
LEMMA Unfailed ==
  ASSUME NEW s, s = NULL \/ header(s) = 0, NEW r,
         r.kind \notin {"STATEMENT", "LIMIT_UNBOUNDED"}
  PROVE  s = NULL \/ (header(s) = 255) \in Promise!Outcomes(r)
<1>1. FALSE \in Promise!Outcomes(r)
  BY OutcomesOf
<1>2. CASE header(s) = 0
  <2>1. (header(s) = 255) = FALSE
    BY <1>2
  <2>2. QED
    BY <1>1, <2>1
<1>3. QED
  BY <1>2

LEMMA IdleStatus ==
  ASSUME OInv, process = "up", pc = "command"
  PROVE  header(status) = 0
BY SuccessHeader DEF OInv, StatusFits

LEMMA AuthenticationOrder ==
  ASSUME IInv, OInv, Auth \/ AuthWithDb \/ AuthBadName \/ AuthShort
  PROVE  OInv'
<1>1. CASE Auth
  <2>1. Recv("auth", "AUTH") /\ Proceed("auth_reply")
    BY <1>1 DEF Auth
  <2>2. FALSE \in Promise!Outcomes(xfer_buffer')
    <3>1. xfer_buffer'.kind \notin {"STATEMENT", "LIMIT_UNBOUNDED"}
      BY <2>1, RecvFacts
    <3>2. QED
      BY <3>1, SuccessAllowed, Zenon
  <2>3. QED
    BY <2>1, <2>2, HandlerOrder DEF Proceed
<1>2. CASE AuthWithDb
  <2>1. Recv("auth", "AUTH_WITH_DB") /\ Connect("auth_reply")
    BY <1>2 DEF AuthWithDb
  <2>2. FALSE \in Promise!Outcomes(xfer_buffer')
    <3>1. xfer_buffer'.kind \notin {"STATEMENT", "LIMIT_UNBOUNDED"}
      BY <2>1, RecvFacts
    <3>2. QED
      BY <3>1, SuccessAllowed, Zenon
  <2>3. (process' \in Crashes /\ pc' = pc) \/ (process' = "up" /\ pc' = "auth_reply")
    BY <2>1, ConnectFacts, Zenon
  <2>4. process' = "up" => pc' # "reply"
    BY <2>1, <2>3 DEF Crashes
  <2>5. QED
    BY <2>1, <2>2, <2>3, <2>4, HandlerOrder
<1>3. CASE AuthBadName
  BY <1>3, HandlerOrder DEF AuthBadName, Crash, Crashes
<1>4. CASE AuthShort
  BY <1>4, HandlerOrder DEF AuthShort, Crash, Crashes
<1>5. QED
  BY <1>1, <1>2, <1>3, <1>4

LEMMA CommandOrder ==
  ASSUME IInv, OInv, Quit \/ InitDb \/ SetOption \/ Unsupported
  PROVE  OInv'
<1>1. CASE Quit
  BY <1>1, HandlerOrder DEF Quit, Proceed
<1>2. CASE InitDb
  <2>1. Recv("command", "INIT_DB") /\ Connect("reply")
    BY <1>2 DEF InitDb
  <2>2. (process' \in Crashes /\ pc' = pc) \/ (process' = "up" /\ pc' = "reply")
    BY <2>1, ConnectFacts, Zenon
  <2>3. process' = "up" => status' = NULL \/ header(status') = 0
    BY <2>1, ConnectStatus
  <2>4. process' = "up" =>
          status' = NULL \/ (header(status') = 255) \in Promise!Outcomes(xfer_buffer')
    BY <2>1, <2>3, RecvFacts, Unfailed
  <2>5. process' = "up" => pc' # "auth_reply"
    BY <2>2 DEF Crashes
  <2>6. QED
    BY <2>1, <2>2, <2>4, <2>5, HandlerOrder
<1>3. CASE SetOption
  <2>1. Recv("command", "SET_OPTION") /\ Proceed("reply") /\ status' = status
    BY <1>3 DEF SetOption
  <2>2. header(status') = 0
    BY <2>1, IdleStatus DEF Recv
  <2>3. status' = NULL \/ (header(status') = 255) \in Promise!Outcomes(xfer_buffer')
    BY <2>1, <2>2, RecvFacts, Unfailed
  <2>4. QED
    BY <2>1, <2>3, HandlerOrder DEF Proceed
<1>4. CASE Unsupported
  BY <1>4, HandlerOrder DEF Unsupported, Crash, Crashes
<1>5. QED
  BY <1>1, <1>2, <1>3, <1>4

\* A query that ends the process.
LEMMA CrashOrder ==
  ASSUME IInv, OInv, NEW kind, Recv("command", kind), ExecCrashes \/ FetchCrashes
  PROVE  OInv'
<1>1. process' \in Crashes /\ pc' = pc
  <2>1. CASE ExecCrashes
    BY <2>1 DEF ExecCrashes, Crash, Crashes
  <2>2. CASE FetchCrashes
    <3>1. PICK f \in Fetch : Crash(IF Breaks(f) THEN Why(f) ELSE "todo")
      BY <2>2 DEF FetchCrashes
    <3>2. QED
      BY <3>1 DEF Crash, Crashes, Why
  <2>3. QED
    BY <2>1, <2>2
<1>2. process' # "up"
  BY <1>1 DEF Crashes
<1>3. QED
  BY <1>1, <1>2, HandlerOrder

LEMMA LocalQueryOrder ==
  ASSUME IInv, OInv, SetNames \/ SetNamesOther \/ LimitUnbounded \/ Malformed
  PROVE  OInv'
<1>1. CASE SetNames
  <2>1. Recv("command", "SET_NAMES") /\ Proceed("reply") /\ status' = status
    BY <1>1 DEF SetNames
  <2>2. header(status') = 0
    BY <2>1, IdleStatus DEF Recv
  <2>3. status' = NULL \/ (header(status') = 255) \in Promise!Outcomes(xfer_buffer')
    BY <2>1, <2>2, RecvFacts, Unfailed
  <2>4. QED
    BY <2>1, <2>3, HandlerOrder DEF Proceed
<1>2. CASE SetNamesOther
  BY <1>2, HandlerOrder DEF SetNamesOther, Crash, Crashes
<1>3. CASE LimitUnbounded
  <2>1. Recv("command", "LIMIT_UNBOUNDED") /\ Proceed("reply") /\ status' = FXMY_ERROR_DEFAULT
    BY <1>3 DEF LimitUnbounded
  <2>2. (header(status') = 255) = TRUE
    BY <2>1 DEF header, FXMY_ERROR_DEFAULT, SuccessCodes, FXMY_OK
  <2>3. xfer_buffer'.kind = "LIMIT_UNBOUNDED"
    BY <2>1, RecvFacts
  <2>4. TRUE \in Promise!Outcomes(xfer_buffer')
    <3>1. xfer_buffer'.kind \in FailingKinds
      BY <2>3 DEF FailingKinds
    <3>2. QED
      BY <3>1, FailureAllowed, Zenon
  <2>5. QED
    BY <2>1, <2>2, <2>4, HandlerOrder DEF Proceed
<1>4. CASE Malformed
  BY <1>4, HandlerOrder DEF Malformed, Crash, Crashes
<1>5. QED
  BY <1>1, <1>2, <1>3, <1>4

LEMMA DescribeOrder ==
  ASSUME IInv, OInv, Describe
  PROVE  OInv'
<1>1. Recv("command", "DESCRIBE")
  BY DEF Describe
<1>2. CASE ExecCrashes \/ FetchCrashes
  BY <1>1, <1>2, CrashOrder
<1>3. CASE ~(ExecCrashes \/ FetchCrashes)
  <2>1. Proceed("reply")
    BY <1>3 DEF Describe
  <2>2. xfer_buffer'.kind = "DESCRIBE"
    BY <1>1, RecvFacts
  <2>3. (header(status') = 255) \in Promise!Outcomes(xfer_buffer')
    <3>1. (header(status') = 255) = TRUE \/ (header(status') = 255) = FALSE
      OBVIOUS
    <3>2. /\ xfer_buffer'.kind \notin {"STATEMENT", "LIMIT_UNBOUNDED"}
          /\ xfer_buffer'.kind \in FailingKinds
      BY <2>2 DEF FailingKinds
    <3>3. TRUE \in Promise!Outcomes(xfer_buffer') /\ FALSE \in Promise!Outcomes(xfer_buffer')
      BY <3>2, SuccessAllowed, FailureAllowed, Zenon
    <3>4. QED
      BY <3>1, <3>3, Zenon
  <2>5. QED
    BY <1>1, <2>1, <2>3, HandlerOrder DEF Proceed
<1>4. QED
  BY <1>2, <1>3

LEMMA ShowTablesOrder ==
  ASSUME IInv, OInv, ShowTables
  PROVE  OInv'
<1>1. Recv("command", "SHOW_TABLES")
  BY DEF ShowTables
<1>2. CASE ExecCrashes \/ FetchCrashes
  BY <1>1, <1>2, CrashOrder
<1>3. CASE ~(ExecCrashes \/ FetchCrashes)
  <2>1. Proceed("reply") /\ (status' = FXMY_OK \/ status' = status)
    BY <1>3 DEF ShowTables
  <2>2. header(status') = 0
    BY <1>1, <2>1, IdleStatus, SuccessHeader DEF Recv
  <2>3. status' = NULL \/ (header(status') = 255) \in Promise!Outcomes(xfer_buffer')
    BY <1>1, <2>2, RecvFacts, Unfailed
  <2>4. QED
    BY <1>1, <2>1, <2>3, HandlerOrder DEF Proceed
<1>4. QED
  BY <1>2, <1>3

LEMMA StatementOrder ==
  ASSUME IInv, OInv, Statement
  PROVE  OInv'
<1>1. Recv("command", "STATEMENT")
  BY DEF Statement
<1>2. PICK o \in ExecDirect :
        \/ Breaks(o) /\ Crash(Why(o)) /\ UNCHANGED status
        \/ ~Breaks(o) /\ StatusOf(o) = NULL /\ Crash("null_status") /\ UNCHANGED status
        \/ ~Breaks(o) /\ Succeeded(StatusOf(o)) /\ Crash("todo") /\ UNCHANGED status
        \/ ~Breaks(o) /\ Failed(StatusOf(o)) /\ Proceed("reply") /\ status' = StatusOf(o)
  BY DEF Statement
<1>3. CASE Failed(StatusOf(o)) /\ Proceed("reply") /\ status' = StatusOf(o)
  <2>1. (header(status') = 255) = TRUE
    BY <1>3 DEF Failed, header, ErrorCodes, SuccessCodes, FXMY_OK, FXMY_ERROR_NO_DATA
  <2>2. xfer_buffer'.kind = "STATEMENT"
    BY <1>1, RecvFacts
  <2>3. TRUE \in Promise!Outcomes(xfer_buffer')
    <3>1. xfer_buffer'.kind \in FailingKinds
      BY <2>2 DEF FailingKinds
    <3>2. QED
      BY <3>1, FailureAllowed, Zenon
  <2>4. QED
    BY <1>1, <1>3, <2>1, <2>3, HandlerOrder DEF Proceed
<1>4. CASE \E why \in Crashes : Crash(why)
  BY <1>1, <1>4, HandlerOrder DEF Crash, Crashes
<1>5. Why(o) \in Crashes /\ "null_status" \in Crashes /\ "todo" \in Crashes
  BY DEF Why, Crashes
<1>6. QED
  BY <1>2, <1>3, <1>4, <1>5

-----------------------------------------------------------------------------
(* The answers, and the ways to stop.                                      *)

\* An answer about the packet in hand takes its place behind the others.
LEMMA SendOrder ==
  ASSUME IInv, OInv, NEW s, Send(NULL, "result", s),
         process = "up", pc \in {"auth_reply", "reply"},
         process' = "up", pc' = "command", status' = FXMY_OK,
         UNCHANGED <<peer, toServer>>
  PROVE  OInv'
<1> DEFINE p == Packet(NULL, "result", s)
<1>1. p \in Frame /\ p.id = packet_number % 256
  BY PacketType DEF IInv, Packet
<1> HIDE DEF p
<1>2. client # "closed" => toClient' = Append(toClient, p)
  BY DEF Send, p
<1>3. xfer_buffer \in Request /\ packet_number = xfer_buffer.id + 1
  BY DEF IInv, TypeOK, BufferHandOff, OInv, NumberFollows
<1>4. /\ outstanding \in Seq(Request) /\ toServer \in Seq(Request) /\ toClient \in Seq(Frame)
      /\ outstanding' = outstanding /\ toServer' = toServer /\ client' = client
  BY DEF IInv, TypeOK, peer
<1>5. client \notin {"connecting", "greeted"}
  BY DEF OInv, Phases
<1>6. Phases' /\ QuitLast' /\ StatusFits' /\ NumberFollows'
  BY <1>4, <1>5 DEF OInv, Phases, QuitLast, StatusFits, NumberFollows
<1>7. Order'
  <2>1. SUFFICES ASSUME Talking
                 PROVE  /\ Len(toClient') <= Len(outstanding)
                        /\ Lined(outstanding, toClient', 0, xfer_buffer', toServer)
    BY <1>4 DEF Order, Talking, InHand
  <2>2. Lined(outstanding, toClient, 1, xfer_buffer, toServer)
    BY <2>1 DEF OInv, Order, InHand
  <2>3. toClient' = Append(toClient, p)
    BY <1>2, <2>1 DEF Talking
  <2>4. p.id = (xfer_buffer.id + 1) % 256
    BY <1>1, <1>3
  <2>5. /\ Lined(outstanding, Append(toClient, p), 0, xfer_buffer', toServer)
        /\ Len(toClient) + 1 <= Len(outstanding)
    BY <1>1, <1>3, <1>4, <2>2, <2>4, LinedAnswer
  <2>6. Len(Append(toClient, p)) = Len(toClient) + 1
    BY <1>1, <1>4, AppendProperties
  <2>7. QED
    BY <2>3, <2>5, <2>6
<1>8. QED
  BY <1>6, <1>7 DEF OInv

LEMMA HandshakeOrder ==
  ASSUME IInv, OInv, SendHandshake
  PROVE  OInv'
<1>1. /\ process = "up" /\ pc = "handshake" /\ process' = "up" /\ pc' = "auth"
      /\ client' = client /\ toServer' = toServer
  BY DEF SendHandshake, Proceed, peer
<1>2. client \in {"connecting", "closed"} /\ (client = "connecting" => toClient = <<>>)
  BY <1>1 DEF OInv, Phases
<1>3. client = "connecting" => Len(toClient') <= 1
  <2>1. SUFFICES ASSUME client = "connecting" PROVE Len(toClient') <= 1
    OBVIOUS
  <2>2. PICK p : toClient' = <<p>>
    BY <1>2, <2>1 DEF SendHandshake, Send
  <2>3. QED
    BY <2>2
<1>4. Phases' /\ QuitLast' /\ StatusFits' /\ NumberFollows'
  BY <1>1, <1>2, <1>3 DEF OInv, Phases, QuitLast, StatusFits, NumberFollows
<1>5. Order'
  BY <1>1, <1>2 DEF Order, Talking
<1>6. QED
  BY <1>4, <1>5 DEF OInv

LEMMA AnswerOrder ==
  ASSUME IInv, OInv, SendHandshake \/ AuthReply \/ Reply
  PROVE  OInv'
<1>1. CASE AuthReply
  BY <1>1, SendOrder DEF AuthReply, Proceed, BufferAtResult
<1>2. CASE Reply
  BY <1>2, SendOrder DEF Reply, Proceed, BufferAtResult, StatusAfterReply
<1>3. QED
  BY <1>1, <1>2, HandshakeOrder

LEMMA StopOrder ==
  ASSUME OInv, process' # "up", UNCHANGED <<peer, toServer, toClient>>
  PROVE  OInv'
BY DEF OInv, Phases, QuitLast, StatusFits, NumberFollows, Order, Talking, peer

LEMMA StoppingOrder ==
  ASSUME IInv, OInv, ReplyWithoutStatus \/ SendFails \/ ShortRead
  PROVE  OInv'
BY StopOrder DEF ReplyWithoutStatus, SendFails, ShortRead, Crash

LEMMA CloseOrder ==
  ASSUME IInv, OInv, Close
  PROVE  OInv'
<1>1. PICK o : \/ Breaks(o) /\ Crash(Why(o))
               \/ ~Breaks(o) /\ Proceed("exited")
  BY DEF Close
<1>2. /\ process = "up" /\ pc = "close"
      /\ UNCHANGED <<buffers, transient, peer, toServer, toClient>>
  BY DEF Close
<1>3. CASE Crash(Why(o))
  BY <1>2, <1>3, StopOrder DEF Crash, Why
<1>4. CASE Proceed("exited")
  <2>1. InHand = 0 /\ InHand' = 0
    BY <1>2, <1>4 DEF InHand, Proceed
  <2>2. Phases' /\ QuitLast' /\ StatusFits' /\ NumberFollows'
    BY <1>2, <1>4 DEF Proceed, OInv, Phases, QuitLast, StatusFits, NumberFollows, peer
  <2>3. Order'
    BY <1>2, <2>1 DEF OInv, Order, Talking, peer, buffers
  <2>4. QED
    BY <2>2, <2>3 DEF OInv
<1>5. QED
  BY <1>1, <1>3, <1>4

-----------------------------------------------------------------------------
(* The client.                                                             *)

\* Before it quits, a client has no COM_QUIT on the way.
LEMMA NoQuitYet ==
  ASSUME IInv, OInv, client \notin {"quitting", "closed"}
  PROVE  /\ Unanswered(toServer) = 0
         /\ \A i \in 1 .. Len(toServer) : toServer[i].kind # "QUIT"
<1>1. \A i \in 1 .. Len(toServer) : toServer[i].kind # "QUIT"
  BY DEF OInv, QuitLast
<1>2. toServer \in Seq(Request)
  BY DEF IInv, TypeOK
<1>3. toServer # <<>> => Len(toServer) \in 1 .. Len(toServer)
  BY <1>2, EmptySeq, LenProperties
<1>4. QED
  BY <1>1, <1>3 DEF Unanswered

\* A request is put behind those on their way.
LEMMA QuitLastAppend ==
  ASSUME IInv, OInv, client \notin {"quitting", "closed"},
         NEW r \in Request, toServer' = Append(toServer, r),
         r.kind = "QUIT" => client' \in {"quitting", "closed"}
  PROVE  QuitLast'
<1>1. toServer \in Seq(Request) /\ Len(toServer) \in Nat
  BY LenProperties DEF IInv, TypeOK
<1>2. /\ Len(toServer') = Len(toServer) + 1
      /\ toServer'[Len(toServer) + 1] = r
      /\ \A i \in 1 .. Len(toServer) : toServer'[i] = toServer[i]
  BY <1>1, AppendProperties
<1>3. ASSUME NEW i \in 1 .. Len(toServer'), toServer'[i].kind = "QUIT"
      PROVE  i = Len(toServer') /\ client' \in {"quitting", "closed"}
  <2>1. i \notin 1 .. Len(toServer)
    BY <1>2, <1>3, NoQuitYet
  <2>2. i = Len(toServer) + 1
    BY <1>1, <1>2, <1>3, <2>1
  <2>3. QED
    BY <1>2, <1>3, <2>2
<1>4. QED
  BY <1>3 DEF QuitLast

LEMMA ClientAuthOrder ==
  ASSUME IInv, OInv, NEW r \in Request, ClientAuth(r)
  PROVE  OInv'
<1>1. /\ process = "up" /\ client = "greeted" /\ client' = "authenticating"
      /\ outstanding' = <<r>> /\ toServer' = Append(toServer, r)
      /\ toClient' = toClient
      /\ UNCHANGED worker
  BY DEF ClientAuth
<1>2. r.kind # "QUIT"
  BY DEF ClientAuth, AuthKinds
<1>3. /\ pc = "auth" /\ toServer = <<>> /\ toClient = <<>>
      /\ pc' = pc /\ process' = process /\ xfer_buffer' = xfer_buffer
      /\ status' = status /\ packet_number' = packet_number
  BY <1>1 DEF OInv, Phases, worker, buffers, transient
<1>4. QuitLast'
  BY <1>1, <1>2, QuitLastAppend
<1>5. Phases' /\ StatusFits' /\ NumberFollows'
  BY <1>1, <1>3 DEF OInv, Phases, StatusFits, NumberFollows
<1>6. Lined(<<>>, <<>>, 0, xfer_buffer, <<>>) /\ Unanswered(<<>>) = 0
  BY DEF Lined, Unanswered
<1>7. Lined(Append(<<>>, r), <<>>, 0, xfer_buffer, Append(<<>>, r))
  <2>1. <<>> \in Seq(Request) /\ <<>> \in Seq(Frame) /\ 0 \in 0 .. 1
    OBVIOUS
  <2> DEFINE o == <<>>
             c == <<>>
  <2>2. /\ o \in Seq(Request) /\ c \in Seq(Frame)
        /\ Lined(o, c, 0, xfer_buffer, o) /\ Unanswered(o) = 0
    BY <1>6, <2>1
  <2> HIDE DEF o, c
  <2>3. Lined(Append(o, r), c, 0, xfer_buffer, Append(o, r))
    BY <1>2, <2>1, <2>2, LinedAsk
  <2>4. QED
    BY <2>3 DEF o, c
<1>8. Order'
  <2>1. outstanding' = Append(<<>>, r) /\ Len(toClient') <= Len(outstanding')
    BY <1>1, <1>3
  <2>2. InHand' = 0
    BY <1>3 DEF InHand
  <2>3. toServer' = Append(<<>>, r) /\ toClient' = <<>> /\ xfer_buffer' = xfer_buffer
    BY <1>1, <1>3
  <2>4. Lined(outstanding', toClient', InHand', xfer_buffer', toServer')
    BY <1>7, <2>1, <2>2, <2>3, Zenon
  <2>5. QED
    BY <2>1, <2>4 DEF Order
<1>9. QED
  BY <1>4, <1>5, <1>8 DEF OInv

LEMMA ClientCommandOrder ==
  ASSUME IInv, OInv, NEW r \in Request, ClientCommand(r)
  PROVE  OInv'
<1>1. /\ process = "up" /\ client = "ready" /\ client' \in {"ready", "quitting"}
      /\ toServer' = Append(toServer, r)
      /\ toClient' = toClient
      /\ UNCHANGED worker
      /\ \/ r.kind = "QUIT" /\ client' = "quitting" /\ outstanding' = outstanding
         \/ r.kind # "QUIT" /\ outstanding' = Append(outstanding, r)
  BY DEF ClientCommand
<1>2. /\ pc' = pc /\ process' = process /\ xfer_buffer' = xfer_buffer
      /\ status' = status /\ packet_number' = packet_number /\ InHand' = InHand
  BY <1>1 DEF worker, buffers, transient, InHand
<1>3. QuitLast'
  BY <1>1, QuitLastAppend
<1>4. Phases' /\ StatusFits' /\ NumberFollows'
  BY <1>1, <1>2 DEF OInv, Phases, StatusFits, NumberFollows
<1>5. /\ outstanding \in Seq(Request) /\ toServer \in Seq(Request) /\ toClient \in Seq(Frame)
      /\ InHand \in 0 .. 1
  BY DEF IInv, TypeOK, InHand
<1>6. /\ Len(toClient) <= Len(outstanding)
      /\ Lined(outstanding, toClient, InHand, xfer_buffer, toServer)
  BY <1>1 DEF OInv, Order, Talking
<1>7. Unanswered(toServer) = 0
  BY <1>1, NoQuitYet
<1>8. Order'
  <2>1. Len(toClient') <= Len(outstanding')
    <3>1. Len(Append(outstanding, r)) = Len(outstanding) + 1
      BY <1>5, AppendProperties
    <3>2. Len(outstanding) \in Nat /\ Len(toClient) \in Nat
      BY <1>5, LenProperties
    <3>3. QED
      BY <1>1, <1>6, <3>1, <3>2
  <2>2. Lined(outstanding', toClient', InHand', xfer_buffer', toServer')
    <3>1. CASE r.kind = "QUIT"
      BY <1>1, <1>2, <1>5, <1>6, <1>7, <3>1, LinedAskQuit
    <3>2. CASE r.kind # "QUIT"
      BY <1>1, <1>2, <1>5, <1>6, <1>7, <3>2, LinedAsk
    <3>3. QED
      BY <3>1, <3>2
  <2>3. QED
    BY <2>1, <2>2 DEF Order
<1>9. QED
  BY <1>3, <1>4, <1>8 DEF OInv

\* What a client that talks does to its queue when it reads.
LEMMA ReadsShift ==
  ASSUME IInv, OInv, ClientReads, Talking
  PROVE  /\ outstanding' \in Seq(Request)
         /\ Len(outstanding) \in Nat /\ Len(outstanding) >= 1
         /\ Len(outstanding') = Len(outstanding) - 1
         /\ \A i \in 1 .. Len(outstanding) - 1 : outstanding'[i] = outstanding[i + 1]
<1>1. /\ outstanding \in Seq(Request) /\ toClient \in Seq(Frame) /\ toClient # <<>>
      /\ Len(toClient) <= Len(outstanding)
  BY DEF IInv, TypeOK, ClientReads, OInv, Order
<1>2. Len(toClient) \in Nat /\ Len(toClient) # 0 /\ Len(outstanding) \in Nat
  BY <1>1, EmptySeq, LenProperties
<1>3. Len(outstanding) >= 1
  BY <1>1, <1>2
<1>4. CASE client = "authenticating"
  <2>1. outstanding' = Tail(outstanding) /\ outstanding # <<>>
    BY <1>4 DEF ClientReads, IInv, AuthOutstanding
  <2> DEFINE t == Tail(outstanding)
  <2>2. /\ t \in Seq(Request) /\ Len(t) = Len(outstanding) - 1
        /\ \A i \in 1 .. Len(t) : t[i] = outstanding[i + 1]
    BY <1>1, <2>1, HeadTailProperties
  <2> HIDE DEF t
  <2>3. outstanding' = t
    BY <2>1 DEF t
  <2>4. QED
    BY <1>2, <1>3, <2>2, <2>3
<1>5. CASE client \in {"ready", "quitting"}
  <2> DEFINE t == SubSeq(outstanding, 2, Len(outstanding))
  <2>1. outstanding' = t
    BY <1>5 DEF ClientReads
  <2>2. /\ t \in Seq(Request) /\ Len(t) = Len(outstanding) - 1
        /\ \A i \in 1 .. Len(outstanding) - 1 : t[i] = outstanding[i + 1]
    <3> DEFINE n == Len(outstanding)
    <3>1. n \in Nat /\ n >= 1 /\ 2 \in 1 .. n + 1 /\ n \in 1 - 1 .. n
      BY <1>2, <1>3
    <3>2. /\ SubSeq(outstanding, 2, n) \in Seq(Request)
          /\ Len(SubSeq(outstanding, 2, n)) = IF 2 <= n THEN n - 2 + 1 ELSE 0
          /\ \A i \in 1 .. n - 2 + 1 : SubSeq(outstanding, 2, n)[i] = outstanding[2 + i - 1]
      BY <1>1, <3>1, SubSeqProperties
    <3> HIDE DEF n
    <3>3. n - 2 + 1 = n - 1 /\ (2 <= n \/ n = 1) /\ \A i \in 1 .. n - 1 : 2 + i - 1 = i + 1
      BY <3>1
    <3>4. QED
      BY <3>1, <3>2, <3>3 DEF n
  <2> HIDE DEF t
  <2>3. QED
    BY <1>2, <1>3, <2>1, <2>2
<1>6. QED
  BY <1>4, <1>5 DEF Talking

LEMMA ClientReadsOrder ==
  ASSUME IInv, OInv, ClientReads
  PROVE  OInv'
<1>1. /\ toClient # <<>> /\ toClient' = Tail(toClient) /\ toServer' = toServer
      /\ UNCHANGED worker
      /\ \/ client = "connecting" /\ client' = "greeted"
         \/ client = "authenticating" /\ client' = "ready"
         \/ client \in {"ready", "quitting"} /\ client' = client
  BY DEF ClientReads
<1>2. /\ pc' = pc /\ process' = process /\ xfer_buffer' = xfer_buffer
      /\ status' = status /\ packet_number' = packet_number /\ InHand' = InHand
  BY <1>1 DEF worker, buffers, transient, InHand
<1>3. toServer \in Seq(Request) /\ toClient \in Seq(Frame) /\ outstanding \in Seq(Request)
  BY DEF IInv, TypeOK
<1>4. /\ Tail(toClient) \in Seq(Frame) /\ Len(Tail(toClient)) = Len(toClient) - 1
      /\ Len(toClient) \in Nat
  BY <1>1, <1>3, HeadTailProperties, LenProperties
<1>5. QuitLast'
  BY <1>1 DEF OInv, QuitLast
<1>6. StatusFits' /\ NumberFollows'
  BY <1>2 DEF OInv, StatusFits, NumberFollows
<1>7. Phases'
  <2>1. CASE client = "connecting"
    <3>1. Len(Tail(toClient)) = 0
      BY <1>1, <1>3, <1>4, <2>1, EmptySeq DEF OInv, Phases
    <3>2. toClient' = <<>>
      BY <1>1, <1>4, <3>1, EmptySeq
    <3>3. process = "up" => pc = "auth"
      BY <1>1, <2>1 DEF OInv, Phases
    <3>4. client' = "greeted" /\ toServer' = <<>>
      BY <1>1, <2>1 DEF OInv, Phases
    <3>5. QED
      BY <1>2, <3>2, <3>3, <3>4 DEF Phases
  <2>2. CASE client # "connecting"
    BY <1>1, <1>2, <2>2 DEF OInv, Phases
  <2>3. QED
    BY <2>1, <2>2
<1>8. Order'
  <2>1. CASE ~Talking
    BY <1>1, <2>1 DEF Order, Talking
  <2>2. CASE Talking
    <3>1. /\ Len(toClient) <= Len(outstanding)
          /\ process = "up" => Lined(outstanding, toClient, InHand, xfer_buffer, toServer)
      BY <2>2 DEF OInv, Order
    <3>2. Len(toClient') <= Len(outstanding')
      BY <1>1, <1>4, <2>2, <3>1, ReadsShift
    <3>3. ASSUME process = "up"
          PROVE  Lined(outstanding', Tail(toClient), InHand, xfer_buffer, toServer)
      <4>1. /\ outstanding' \in Seq(Request) /\ Len(outstanding') = Len(outstanding) - 1
            /\ \A i \in 1 .. Len(outstanding) - 1 : outstanding'[i] = outstanding[i + 1]
        BY <2>2, ReadsShift
      <4>2. InHand \in 0 .. 1
        BY DEF InHand
      <4>3. QED
        BY <1>1, <1>3, <3>1, <3>3, <4>1, <4>2, LinedRead
    <3>4. QED
      BY <1>1, <1>2, <3>2, <3>3 DEF Order
  <2>3. QED
    BY <2>1, <2>2
<1>9. QED
  BY <1>5, <1>6, <1>7, <1>8 DEF OInv

LEMMA ClientClosesOrder ==
  ASSUME IInv, OInv, ClientCloses
  PROVE  OInv'
<1>1. client' = "closed" /\ toServer' = toServer /\ UNCHANGED worker
  BY DEF ClientCloses
<1>2. Phases' /\ QuitLast' /\ StatusFits' /\ NumberFollows' /\ Order'
  BY <1>1 DEF OInv, Phases, QuitLast, StatusFits, NumberFollows, Order, Talking,
     worker, buffers, transient
<1>3. QED
  BY <1>2 DEF OInv

-----------------------------------------------------------------------------
(* The second invariant.                                                   *)

LEMMA InitOrder == Init => OInv
<1> SUFFICES ASSUME Init PROVE OInv
  OBVIOUS
<1>1. Phases /\ QuitLast /\ StatusFits /\ NumberFollows /\ Order
  BY DEF Init, Phases, QuitLast, StatusFits, NumberFollows, Order, Talking
<1>2. QED
  BY <1>1 DEF OInv

LEMMA NextOrder == IInv /\ OInv /\ [Next]_vars => OInv'
<1> SUFFICES ASSUME IInv, OInv, [Next]_vars PROVE OInv'
  OBVIOUS
<1>1. CASE WorkerStep
  BY <1>1, AuthenticationOrder, CommandOrder, LocalQueryOrder, DescribeOrder,
     ShowTablesOrder, StatementOrder, AnswerOrder, StoppingOrder, CloseOrder DEF WorkerStep
<1>2. CASE ClientStep
  BY <1>2, ClientAuthOrder, ClientCommandOrder, ClientReadsOrder, ClientClosesOrder
     DEF ClientStep
<1>3. CASE UNCHANGED vars
  BY <1>3 DEF vars, buffers, transient, peer, OInv, Phases, QuitLast, StatusFits,
     NumberFollows, Order, Talking, InHand
<1>4. QED
  BY <1>1, <1>2, <1>3 DEF Next

\* Requests keep their places in every reachable state.
THEOREM OrderInvariance == Spec => []OInv
<1>1. Spec => []IInv
  BY SessionInvariance
<1>2. QED
  BY <1>1, InitOrder, NextOrder, PTL DEF Spec

-----------------------------------------------------------------------------
(* What the client waits for.                                              *)

\* A sequence made from another, place by place.
LEMMA NumbersType ==
  ASSUME NEW q \in Seq(Request)
  PROVE  /\ AnswerNumbers(q) \in Seq(Int)
         /\ Len(AnswerNumbers(q)) = Len(q)
         /\ \A i \in 1 .. Len(q) : AnswerNumbers(q)[i] = (q[i].id + 1) % 256
<1>1. Len(q) \in Nat /\ DOMAIN q = 1 .. Len(q)
  BY LenProperties
<1>2. \A i \in 1 .. Len(q) : (q[i].id + 1) % 256 \in Int
  <2>1. \A i \in 1 .. Len(q) : q[i] \in Request
    BY <1>1
  <2>2. \A r \in Request : r.id \in Int /\ (r.id + 1) % 256 \in Int
    <3>1. \A r \in Request : r.id \in 0 .. 255
      BY SessionAssumption DEF Request
    <3>2. \A k \in 0 .. 255 : k \in Int
      OBVIOUS
    <3>3. \A r \in Request : r.id \in Int
      BY <3>1, <3>2, Zenon
    <3>4. QED
      BY <3>3
  <2>3. QED
    BY <2>1, <2>2
<1>3. QED
  BY <1>1, <1>2 DEF AnswerNumbers

LEMMA SentType ==
  ASSUME TypeOK
  PROVE  /\ NumbersSent \in Seq(Int)
         /\ Len(NumbersSent) = Len(toClient)
         /\ \A i \in 1 .. Len(toClient) : NumbersSent[i] = toClient[i].id
<1>1. toClient \in Seq(Frame) /\ Len(toClient) \in Nat /\ DOMAIN toClient = 1 .. Len(toClient)
  BY LenProperties DEF TypeOK
<1>2. \A i \in 1 .. Len(toClient) : toClient[i].id \in Int
  <2>1. \A i \in 1 .. Len(toClient) : toClient[i] \in Frame
    BY <1>1
  <2>2. \A p \in Frame : p.id \in Int
    BY DEF Frame
  <2>3. QED
    BY <2>1, <2>2
<1>3. QED
  BY <1>1, <1>2 DEF NumbersSent

\* Every request has one place, on one side or the other, and its number
\* with it.
THEOREM AnsweredInOrder == Spec => []AnswersInOrder
<1>1. IInv /\ OInv => AnswersInOrder
  <2> SUFFICES ASSUME IInv, OInv, process = "up", Talking
               PROVE  (NumbersSent \o NumberInHand) \o AnswerNumbers(NotReceived)
                        = AnswerNumbers(outstanding)
    BY DEF AnswersInOrder
  <2> DEFINE n == Len(toClient)
             h == InHand
             w == Len(toServer) - Unanswered(toServer)
             a == NumbersSent
             b == NumberInHand
             c == AnswerNumbers(NotReceived)
             d == AnswerNumbers(outstanding)
  <2>1. /\ outstanding \in Seq(Request) /\ toServer \in Seq(Request) /\ toClient \in Seq(Frame)
        /\ n \in Nat /\ Len(toServer) \in Nat /\ h \in 0 .. 1 /\ w \in Nat
    <3>1. outstanding \in Seq(Request) /\ toServer \in Seq(Request) /\ toClient \in Seq(Frame)
      BY DEF IInv, TypeOK
    <3>2. n \in Nat /\ Len(toServer) \in Nat /\ h \in 0 .. 1
      BY <3>1, LenProperties DEF InHand
    <3>3. Len(toServer) = 0 => Unanswered(toServer) = 0
      BY <3>1, EmptySeq DEF Unanswered
    <3>4. w \in Nat
      BY <3>2, <3>3, UnansweredType
    <3>5. QED
      BY <3>1, <3>2, <3>4
  <2>2. Lined(outstanding, toClient, InHand, xfer_buffer, toServer)
    BY DEF OInv, Order
  <2>3. /\ Len(outstanding) = n + h + w
        /\ \A i \in 1 .. n : toClient[i].id = (outstanding[i].id + 1) % 256
        /\ h = 1 => outstanding[n + 1] = xfer_buffer
        /\ \A i \in 1 .. w : outstanding[n + h + i] = toServer[i]
    BY <2>2 DEF Lined
  <2>4. a \in Seq(Int) /\ Len(a) = n /\ \A i \in 1 .. n : a[i] = (outstanding[i].id + 1) % 256
    BY <2>3, SentType DEF IInv
  <2>5. b \in Seq(Int) /\ Len(b) = h /\ (h = 1 => b[1] = (outstanding[n + 1].id + 1) % 256)
    <3>1. CASE pc \in {"auth_reply", "reply"}
      <4>1. b = <<packet_number % 256>> /\ h = 1
        BY <3>1 DEF NumberInHand, InHand
      <4>2. packet_number % 256 \in Int
        BY DEF IInv, TypeOK
      <4>3. packet_number = xfer_buffer.id + 1
        BY <3>1 DEF OInv, NumberFollows
      <4>4. outstanding[n + 1] = xfer_buffer
        BY <2>3, <4>1
      <4> HIDE DEF b, h, n
      <4>5. QED
        BY <4>1, <4>2, <4>3, <4>4
    <3>2. CASE pc \notin {"auth_reply", "reply"}
      BY <3>2 DEF NumberInHand, InHand
    <3>3. QED
      BY <3>1, <3>2
  <2>6. c \in Seq(Int) /\ Len(c) = w /\ \A i \in 1 .. w : c[i] = (outstanding[n + h + i].id + 1) % 256
    <3>1. /\ NotReceived \in Seq(Request) /\ Len(NotReceived) = w
          /\ \A i \in 1 .. w : NotReceived[i] = toServer[i]
      <4>1. w \in Int /\ 1 \in Int /\ w <= Len(toServer) /\ \A i \in 1 .. w : toServer[i] \in Request
        <5>1. w <= Len(toServer)
          BY <2>1, UnansweredType
        <5>2. \A i \in 1 .. Len(toServer) : toServer[i] \in Request
          BY <2>1
        <5> HIDE DEF w
        <5>3. QED
          BY <2>1, <5>1, <5>2
      <4>2. NotReceived = SubSeq(toServer, 1, w)
        BY DEF NotReceived
      <4> HIDE DEF w
      <4>3. /\ SubSeq(toServer, 1, w) \in Seq(Request)
            /\ Len(SubSeq(toServer, 1, w)) = IF 1 <= w THEN w - 1 + 1 ELSE 0
            /\ \A i \in 1 .. w - 1 + 1 : SubSeq(toServer, 1, w)[i] = toServer[1 + i - 1]
        BY <4>1, SubSeqProperties
      <4>4. w - 1 + 1 = w /\ (1 <= w \/ w = 0) /\ \A i \in 1 .. w : 1 + i - 1 = i
        BY <2>1
      <4>5. QED
        BY <4>2, <4>3, <4>4
    <3> HIDE DEF w, n, h
    <3>2. QED
      BY <2>3, <3>1, NumbersType
  <2>7. d \in Seq(Int) /\ Len(d) = n + h + w /\ \A i \in 1 .. n + h + w : d[i] = (outstanding[i].id + 1) % 256
    BY <2>1, <2>3, NumbersType
  <2> HIDE DEF a, b, c, d, n, h, w
  <2>8. /\ a \o b \in Seq(Int) /\ Len(a \o b) = n + h
        /\ \A i \in 1 .. n + h : (a \o b)[i] = d[i]
    <3>1. /\ a \o b \in Seq(Int) /\ Len(a \o b) = n + h
          /\ \A i \in 1 .. n + h : (a \o b)[i] = IF i <= n THEN a[i] ELSE b[i - n]
      <4>1. Len(a) + Len(b) = n + h
        BY <2>4, <2>5
      <4>2. /\ a \o b \in Seq(Int) /\ Len(a \o b) = Len(a) + Len(b)
            /\ \A i \in 1 .. Len(a) + Len(b) :
                 (a \o b)[i] = IF i <= Len(a) THEN a[i] ELSE b[i - Len(a)]
        <5>1. a \in Seq(Int) /\ b \in Seq(Int)
          BY <2>4, <2>5
        <5>2. QED
          BY <5>1, ConcatProperties
      <4>3. QED
        BY <2>4, <4>1, <4>2
    <3>2. ASSUME NEW i \in 1 .. n + h PROVE (a \o b)[i] = d[i]
      <4>1. CASE i <= n
        BY <2>1, <2>4, <2>7, <3>1, <3>2, <4>1
      <4>2. CASE ~(i <= n)
        <5>1. h = 1 /\ i = n + 1 /\ i - n = 1 /\ i \in 1 .. n + h + w
          BY <2>1, <3>2, <4>2
        <5>2. QED
          BY <2>5, <2>7, <3>1, <4>2, <5>1
      <4>3. QED
        BY <4>1, <4>2
    <3>3. QED
      BY <3>1, <3>2
  <2> DEFINE e == a \o b
  <2> HIDE DEF e
  <2>9. e \in Seq(Int) /\ Len(e) = n + h /\ \A i \in 1 .. n + h : e[i] = d[i]
    BY <2>8 DEF e
  <2>10. /\ e \o c \in Seq(Int) /\ Len(e \o c) = n + h + w
         /\ \A i \in 1 .. n + h + w : (e \o c)[i] = d[i]
    <3>1. /\ e \o c \in Seq(Int) /\ Len(e \o c) = n + h + w
          /\ \A i \in 1 .. n + h + w : (e \o c)[i] = IF i <= n + h THEN e[i] ELSE c[i - (n + h)]
      <4>1. Len(e) + Len(c) = n + h + w
        BY <2>6, <2>9
      <4>2. /\ e \o c \in Seq(Int) /\ Len(e \o c) = Len(e) + Len(c)
            /\ \A i \in 1 .. Len(e) + Len(c) :
                 (e \o c)[i] = IF i <= Len(e) THEN e[i] ELSE c[i - Len(e)]
        <5>1. e \in Seq(Int) /\ c \in Seq(Int)
          BY <2>6, <2>9
        <5>2. QED
          BY <5>1, ConcatProperties
      <4>3. QED
        BY <2>9, <4>1, <4>2
    <3>2. ASSUME NEW i \in 1 .. n + h + w PROVE (e \o c)[i] = d[i]
      <4>1. CASE i <= n + h
        BY <2>1, <2>9, <3>1, <3>2, <4>1
      <4>2. CASE ~(i <= n + h)
        <5>1. i - (n + h) \in 1 .. w /\ n + h + (i - (n + h)) = i
          BY <2>1, <3>2, <4>2
        <5>2. c[i - (n + h)] = (outstanding[i].id + 1) % 256
          BY <2>6, <5>1
        <5>3. QED
          BY <2>7, <3>1, <3>2, <4>2, <5>2
      <4>3. QED
        BY <4>1, <4>2
    <3>3. QED
      BY <3>1, <3>2
  <2>11. e \o c = d
    BY <2>7, <2>10, SeqEqual
  <2>12. QED
    BY <2>11 DEF a, b, c, d, e
<1>2. QED
  BY <1>1, SessionInvariance, OrderInvariance, PTL

-----------------------------------------------------------------------------
(* A session implements RequestReply.                                      *)

LEMMA BehindType ==
  ASSUME NEW o \in Seq(Request), NEW n \in Nat, n <= Len(o)
  PROVE  /\ Behind(o, n) \in Seq(Request)
         /\ Len(Behind(o, n)) = Len(o) - n
         /\ \A i \in 1 .. Len(o) - n : Behind(o, n)[i] = o[n + i]
<1> DEFINE m == Len(o)
<1>1. m \in Nat /\ n + 1 \in Int /\ \A i \in n + 1 .. m : o[i] \in Request
  BY LenProperties
<1>2. /\ SubSeq(o, n + 1, m) \in Seq(Request)
      /\ Len(SubSeq(o, n + 1, m)) = IF n + 1 <= m THEN m - (n + 1) + 1 ELSE 0
      /\ \A i \in 1 .. m - (n + 1) + 1 : SubSeq(o, n + 1, m)[i] = o[n + 1 + i - 1]
  BY <1>1, SubSeqProperties
<1>3. n <= m /\ Behind(o, n) = SubSeq(o, n + 1, m)
  BY DEF Behind
<1> HIDE DEF m
<1>4. m - (n + 1) + 1 = m - n /\ \A i \in 1 .. m - n : n + 1 + i - 1 = n + i
  BY <1>1
<1>5. Len(SubSeq(o, n + 1, m)) = m - n
  BY <1>1, <1>2, <1>3, <1>4
<1>6. QED
  BY <1>2, <1>3, <1>4, <1>5 DEF m

LEMMA BehindAppend ==
  ASSUME NEW o \in Seq(Request), NEW n \in Nat, n <= Len(o), NEW r \in Request
  PROVE  Behind(Append(o, r), n) = Append(Behind(o, n), r)
<1> DEFINE o2 == Append(o, r)
           x  == Behind(o2, n)
           z  == Behind(o, n)
           y  == Append(z, r)
           m  == Len(o) - n
<1>1. /\ o2 \in Seq(Request) /\ Len(o2) = Len(o) + 1 /\ o2[Len(o) + 1] = r
      /\ \A i \in 1 .. Len(o) : o2[i] = o[i]
  BY AppendProperties
<1>2. Len(o) \in Nat /\ m \in Nat /\ n <= Len(o2)
  BY <1>1, LenProperties
<1>3. z \in Seq(Request) /\ Len(z) = m /\ \A i \in 1 .. m : z[i] = o[n + i]
  BY BehindType
<1> HIDE DEF z
<1>4. /\ y \in Seq(Request) /\ Len(y) = m + 1 /\ y[m + 1] = r
      /\ \A i \in 1 .. m : y[i] = z[i]
  BY <1>3, AppendProperties
<1> HIDE DEF o2
<1>5. /\ x \in Seq(Request) /\ Len(x) = Len(o2) - n
      /\ \A i \in 1 .. Len(o2) - n : x[i] = o2[n + i]
  BY <1>1, <1>2, BehindType
<1> HIDE DEF x, y
<1>6. Len(x) = m + 1 /\ \A i \in 1 .. m + 1 : x[i] = o2[n + i]
  BY <1>1, <1>2, <1>5
<1>7. ASSUME NEW i \in 1 .. m + 1 PROVE x[i] = y[i]
  <2>1. CASE i = m + 1
    BY <1>1, <1>2, <1>4, <1>6, <2>1
  <2>2. CASE i # m + 1
    <3>1. i \in 1 .. m /\ n + i \in 1 .. Len(o)
      BY <1>2, <2>2
    <3>2. QED
      BY <1>1, <1>3, <1>4, <1>6, <3>1
  <2>3. QED
    BY <2>1, <2>2
<1>8. x = y
  BY <1>4, <1>5, <1>6, <1>7, SeqEqual
<1>9. QED
  BY <1>8 DEF x, y, z, o2

\* The first of those behind the answers is the next to be answered.
LEMMA BehindNext ==
  ASSUME NEW o \in Seq(Request), NEW n \in Nat, n + 1 <= Len(o)
  PROVE  /\ Behind(o, n) # <<>> /\ Head(Behind(o, n)) = o[n + 1]
         /\ Behind(o, n + 1) = Tail(Behind(o, n))
<1> DEFINE x == Behind(o, n)
           y == Behind(o, n + 1)
           m == Len(o)
<1>1. m \in Nat /\ n + 1 \in Nat /\ n <= m /\ n + 1 <= m
  BY LenProperties
<1>2. x \in Seq(Request) /\ Len(x) = m - n /\ \A i \in 1 .. m - n : x[i] = o[n + i]
  BY <1>1, BehindType
<1>3. y \in Seq(Request) /\ Len(y) = m - (n + 1) /\ \A i \in 1 .. m - (n + 1) : y[i] = o[n + 1 + i]
  BY <1>1, BehindType
<1> HIDE DEF x, y, m
<1>4. x # <<>>
  BY <1>1, <1>2, EmptySeq
<1>5. /\ Tail(x) \in Seq(Request) /\ Head(x) = x[1] /\ Len(Tail(x)) = Len(x) - 1
      /\ \A i \in 1 .. Len(Tail(x)) : Tail(x)[i] = x[i + 1]
  <2>1. x \in Seq(Request) /\ x # <<>>
    BY <1>2, <1>4
  <2>2. Head(x) = x[1]
    BY <2>1
  <2>3. QED
    BY <2>1, <2>2, HeadTailProperties
<1>6. Head(x) = o[n + 1]
  BY <1>1, <1>2, <1>5
<1>7. Len(Tail(x)) = m - (n + 1)
  BY <1>1, <1>2, <1>5
<1>8. ASSUME NEW i \in 1 .. m - (n + 1) PROVE y[i] = Tail(x)[i]
  <2>1. i + 1 \in 1 .. m - n /\ n + (i + 1) = n + 1 + i
    BY <1>1, <1>8
  <2>2. QED
    BY <1>2, <1>3, <1>5, <1>7, <2>1
<1>9. y = Tail(x)
  BY <1>3, <1>5, <1>7, <1>8, SeqEqual
<1>10. QED
  BY <1>4, <1>6, <1>9 DEF x, y

\* Reading an answer leaves those that wait as they were.
LEMMA BehindShift ==
  ASSUME NEW o \in Seq(Request), NEW o2 \in Seq(Request), NEW n \in Nat, n >= 1, n <= Len(o),
         Len(o2) = Len(o) - 1, \A i \in 1 .. Len(o) - 1 : o2[i] = o[i + 1]
  PROVE  Behind(o2, n - 1) = Behind(o, n)
<1> DEFINE x == Behind(o2, n - 1)
           y == Behind(o, n)
           m == Len(o)
<1>1. m \in Nat /\ n - 1 \in Nat /\ n - 1 <= Len(o2) /\ Len(o2) = m - 1 /\ n <= m
  BY LenProperties
<1>2. /\ x \in Seq(Request) /\ Len(x) = Len(o2) - (n - 1)
      /\ \A i \in 1 .. Len(o2) - (n - 1) : x[i] = o2[n - 1 + i]
  BY <1>1, BehindType
<1>3. y \in Seq(Request) /\ Len(y) = m - n /\ \A i \in 1 .. m - n : y[i] = o[n + i]
  BY <1>1, BehindType
<1> HIDE DEF x, y
<1>4. Len(o2) - (n - 1) = m - n
  BY <1>1
<1>5. ASSUME NEW i \in 1 .. m - n PROVE x[i] = y[i]
  <2>1. n - 1 + i \in 1 .. m - 1 /\ n - 1 + i + 1 = n + i
    BY <1>1, <1>5
  <2>2. o2[n - 1 + i] = o[n - 1 + i + 1]
    BY <2>1
  <2>3. QED
    BY <1>2, <1>3, <1>4, <2>1, <2>2
<1>6. x = y
  BY <1>2, <1>3, <1>4, <1>5, SeqEqual
<1>7. QED
  BY <1>6 DEF x, y

AnswerType == [id : Int, failed : BOOLEAN]

LEMMA FrameId ==
  ASSUME NEW p \in Frame
  PROVE  p.id \in Int
<1>1. \A k \in 0 .. 255 : k \in Int
  OBVIOUS
<1>2. p.id \in 0 .. 255
  BY DEF Frame
<1>3. QED
  BY <1>1, <1>2, Zenon

LEMMA AsAnswersType ==
  ASSUME NEW c \in Seq(Frame)
  PROVE  /\ AsAnswers(c) \in Seq(AnswerType)
         /\ Len(AsAnswers(c)) = Len(c)
         /\ \A i \in 1 .. Len(c) :
              AsAnswers(c)[i] = [id |-> c[i].id, failed |-> c[i].header = 255]
<1>1. Len(c) \in Nat /\ DOMAIN c = 1 .. Len(c)
  BY LenProperties
<1>2. \A i \in 1 .. Len(c) : [id |-> c[i].id, failed |-> c[i].header = 255] \in AnswerType
  <2>1. \A i \in 1 .. Len(c) : c[i] \in Frame
    BY <1>1
  <2>2. \A p \in Frame : p.id \in Int
    BY FrameId, Zenon
  <2>3. \A i \in 1 .. Len(c) : c[i].id \in Int
    BY <2>1, <2>2
  <2>4. QED
    BY <2>3 DEF AnswerType
<1>3. QED
  BY <1>1, <1>2 DEF AsAnswers

LEMMA AsAnswersAppend ==
  ASSUME NEW c \in Seq(Frame), NEW p \in Frame
  PROVE  AsAnswers(Append(c, p)) =
           Append(AsAnswers(c), [id |-> p.id, failed |-> p.header = 255])
<1> DEFINE d == Append(c, p)
           q == [id |-> p.id, failed |-> p.header = 255]
           x == AsAnswers(d)
           z == AsAnswers(c)
           y == Append(z, q)
           m == Len(c)
<1>1. /\ d \in Seq(Frame) /\ Len(d) = m + 1 /\ d[m + 1] = p /\ \A i \in 1 .. m : d[i] = c[i]
      /\ m \in Nat
  BY AppendProperties, LenProperties
<1>2. z \in Seq(AnswerType) /\ Len(z) = m
      /\ \A i \in 1 .. m : z[i] = [id |-> c[i].id, failed |-> c[i].header = 255]
  BY AsAnswersType
<1>3. q \in AnswerType
  <2>1. p.id \in Int
    BY FrameId, Zenon
  <2>2. QED
    BY <2>1 DEF AnswerType
<1> HIDE DEF d, z
<1>4. x \in Seq(AnswerType) /\ Len(x) = m + 1
      /\ \A i \in 1 .. m + 1 : x[i] = [id |-> d[i].id, failed |-> d[i].header = 255]
  <2>1. d \in Seq(Frame) /\ Len(d) = m + 1
    BY <1>1
  <2>2. x \in Seq(AnswerType) /\ Len(x) = Len(d)
        /\ \A i \in 1 .. Len(d) : x[i] = [id |-> d[i].id, failed |-> d[i].header = 255]
    BY <2>1, AsAnswersType
  <2>3. QED
    BY <2>1, <2>2, Zenon
<1> HIDE DEF x, m
<1>5. q = [id |-> d[m + 1].id, failed |-> d[m + 1].header = 255]
  BY <1>1
<1> HIDE DEF q
<1>6. /\ y \in Seq(AnswerType) /\ Len(y) = m + 1 /\ y[m + 1] = q
      /\ \A i \in 1 .. m : y[i] = z[i]
  BY <1>2, <1>3, AppendProperties
<1> HIDE DEF y
<1>7. ASSUME NEW i \in 1 .. m + 1 PROVE x[i] = y[i]
  <2>1. CASE i = m + 1
    BY <1>4, <1>5, <1>6, <1>7, <2>1
  <2>2. CASE i # m + 1
    <3>1. i \in 1 .. m
      BY <1>1, <1>7, <2>2
    <3>2. x[i] = [id |-> d[i].id, failed |-> d[i].header = 255] /\ d[i] = c[i]
      BY <1>1, <1>4, <1>7, <3>1
    <3>3. y[i] = [id |-> c[i].id, failed |-> c[i].header = 255]
      BY <1>2, <1>6, <3>1
    <3>4. QED
      BY <3>2, <3>3
  <2>3. QED
    BY <2>1, <2>2
<1>8. x = y
  BY <1>4, <1>6, <1>7, SeqEqual
<1>9. QED
  BY <1>8 DEF x, y, z, d, q

LEMMA AsAnswersTail ==
  ASSUME NEW c \in Seq(Frame), c # <<>>
  PROVE  AsAnswers(Tail(c)) = Tail(AsAnswers(c)) /\ AsAnswers(c) # <<>>
<1> DEFINE d == Tail(c)
           x == AsAnswers(d)
           z == AsAnswers(c)
           m == Len(c) - 1
<1>1. /\ d \in Seq(Frame) /\ Len(d) = m /\ \A i \in 1 .. m : d[i] = c[i + 1]
      /\ m \in Nat /\ Len(c) = m + 1
  <2>1. Len(c) \in Nat /\ Len(c) # 0
    BY LenProperties, EmptySeq
  <2>2. d \in Seq(Frame) /\ Len(d) = m /\ \A i \in 1 .. m : d[i] = c[i + 1]
    BY HeadTailProperties
  <2>3. QED
    BY <2>1, <2>2
<1> HIDE DEF d, m
<1>2. z \in Seq(AnswerType) /\ Len(z) = m + 1
      /\ \A i \in 1 .. m + 1 : z[i] = [id |-> c[i].id, failed |-> c[i].header = 255]
  <2>1. z \in Seq(AnswerType) /\ Len(z) = Len(c)
        /\ \A i \in 1 .. Len(c) : z[i] = [id |-> c[i].id, failed |-> c[i].header = 255]
    BY AsAnswersType
  <2>2. Len(c) = m + 1
    BY <1>1
  <2>3. QED
    BY <2>1, <2>2, Zenon
<1>3. x \in Seq(AnswerType) /\ Len(x) = m
      /\ \A i \in 1 .. m : x[i] = [id |-> d[i].id, failed |-> d[i].header = 255]
  <2>1. d \in Seq(Frame) /\ Len(d) = m
    BY <1>1
  <2>2. x \in Seq(AnswerType) /\ Len(x) = Len(d)
        /\ \A i \in 1 .. Len(d) : x[i] = [id |-> d[i].id, failed |-> d[i].header = 255]
    BY <2>1, AsAnswersType
  <2>3. QED
    BY <2>1, <2>2, Zenon
<1> HIDE DEF x, z
<1>4. z # <<>>
  BY <1>1, <1>2, EmptySeq
<1>5. /\ Tail(z) \in Seq(AnswerType) /\ Len(Tail(z)) = Len(z) - 1
      /\ \A i \in 1 .. Len(Tail(z)) : Tail(z)[i] = z[i + 1]
  BY <1>2, <1>4, HeadTailProperties
<1>6. Len(Tail(z)) = m
  BY <1>1, <1>2, <1>5
<1>7. ASSUME NEW i \in 1 .. m PROVE x[i] = Tail(z)[i]
  <2>1. i + 1 \in 1 .. m + 1
    BY <1>1, <1>7
  <2>2. x[i] = [id |-> d[i].id, failed |-> d[i].header = 255] /\ d[i] = c[i + 1]
    BY <1>1, <1>3, <1>7
  <2>3. Tail(z)[i] = [id |-> c[i + 1].id, failed |-> c[i + 1].header = 255]
    BY <1>2, <1>5, <1>6, <1>7, <2>1
  <2>4. x[i] = [id |-> c[i + 1].id, failed |-> c[i + 1].header = 255]
    BY <2>2, Zenon
  <2>5. QED
    BY <2>3, <2>4, Zenon
<1>8. x = Tail(z)
  BY <1>3, <1>5, <1>6, <1>7, SeqEqual
<1>9. QED
  BY <1>4, <1>8 DEF x, z, d

\* A step that RequestReply allows.
PromiseStep == [Promise!Next]_(Promise!vars)

LEMMA PromiseStutters ==
  ASSUME (process' = "up") = (process = "up"),
         PromisedAnswers' = PromisedAnswers, PromisedWaiting' = PromisedWaiting
  PROVE  PromiseStep
BY DEF PromiseStep, Promise!vars

\* The worker does not touch what the promise is about, or ends the process.
LEMMA WorkerStutters ==
  ASSUME process = "up", UNCHANGED <<peer, toClient>>
  PROVE  PromiseStep
<1>1. PromisedAnswers' = PromisedAnswers /\ PromisedWaiting' = PromisedWaiting
  BY DEF PromisedAnswers, PromisedWaiting, Talking, peer
<1>2. CASE process' = "up"
  BY <1>1, <1>2, PromiseStutters
<1>3. CASE process' # "up"
  BY <1>1, <1>3 DEF PromiseStep, Promise!Next, Promise!Stop
<1>4. QED
  BY <1>2, <1>3

LEMMA ReceiptStutters ==
  ASSUME \/ Auth \/ AuthWithDb \/ AuthBadName \/ AuthShort
         \/ Quit \/ InitDb \/ SetOption \/ Unsupported
         \/ SetNames \/ SetNamesOther \/ Describe \/ ShowTables
         \/ LimitUnbounded \/ Malformed \/ Statement
  PROVE  PromiseStep
<1>1. PICK from, kind : Recv(from, kind)
  BY DEF Auth, AuthWithDb, AuthBadName, AuthShort, Quit, InitDb, SetOption, Unsupported,
     SetNames, SetNamesOther, Describe, ShowTables, LimitUnbounded, Malformed, Statement
<1>2. process = "up" /\ UNCHANGED <<peer, toClient>>
  BY <1>1 DEF Recv
<1>3. QED
  BY <1>2, WorkerStutters

LEMMA StoppingStutters ==
  ASSUME ReplyWithoutStatus \/ SendFails \/ ShortRead \/ Close
  PROVE  PromiseStep
<1>1. process = "up" /\ UNCHANGED <<peer, toClient>>
  BY DEF ReplyWithoutStatus, SendFails, ShortRead, Close
<1>2. QED
  BY <1>1, WorkerStutters

LEMMA HandshakeStutters ==
  ASSUME OInv, SendHandshake
  PROVE  PromiseStep
<1>1. process = "up" /\ process' = "up" /\ client' = client /\ client \in {"connecting", "closed"}
  BY DEF SendHandshake, Proceed, peer, OInv, Phases
<1>2. ~Talking /\ ~Talking'
  BY <1>1 DEF Talking
<1>3. PromisedAnswers' = PromisedAnswers /\ PromisedWaiting' = PromisedWaiting
  BY <1>2 DEF PromisedAnswers, PromisedWaiting
<1>4. QED
  BY <1>1, <1>3, PromiseStutters

\* An answer is about the first request that waits, and one it can have.
LEMMA ResultAnswers ==
  ASSUME IInv, OInv, NEW s, Send(NULL, "result", s),
         process = "up", pc \in {"auth_reply", "reply"}, process' = "up",
         UNCHANGED <<peer, toServer>>,
         (header(s) = 255) \in Promise!Outcomes(xfer_buffer)
  PROVE  PromiseStep
<1>1. client' = client /\ outstanding' = outstanding
  BY DEF peer
<1>2. CASE client = "closed"
  <2>1. ~Talking /\ ~Talking'
    BY <1>1, <1>2 DEF Talking
  <2>2. PromisedAnswers' = PromisedAnswers /\ PromisedWaiting' = PromisedWaiting
    BY <2>1 DEF PromisedAnswers, PromisedWaiting
  <2>3. QED
    BY <2>2, PromiseStutters
<1>3. CASE client # "closed"
  <2> DEFINE p == Packet(NULL, "result", s)
             o == outstanding
             n == Len(toClient)
             failed == header(s) = 255
  <2>1. p \in Frame /\ p.id = packet_number % 256 /\ p.header = header(s)
    BY PacketType DEF IInv, Packet
  <2> HIDE DEF p
  <2>2. toClient' = Append(toClient, p)
    BY <1>3 DEF Send, p
  <2>3. /\ o \in Seq(Request) /\ toClient \in Seq(Frame) /\ toServer \in Seq(Request)
        /\ n \in Nat
    BY LenProperties DEF IInv, TypeOK
  <2>4. Talking /\ Talking'
    <3>1. client \notin {"connecting", "greeted"}
      BY DEF OInv, Phases
    <3>2. QED
      BY <1>1, <1>3, <3>1 DEF IInv, TypeOK, Talking
  <2>5. xfer_buffer \in Request /\ packet_number = xfer_buffer.id + 1
    BY DEF IInv, TypeOK, BufferHandOff, OInv, NumberFollows
  <2>6. Lined(o, toClient, 1, xfer_buffer, toServer)
    BY <2>4 DEF OInv, Order, InHand
  <2>7. o[n + 1] = xfer_buffer
    BY <2>6 DEF Lined
  <2>8. p.id = (xfer_buffer.id + 1) % 256
    BY <2>1, <2>5
  <2>9. n + 1 <= Len(o)
    BY <2>1, <2>3, <2>5, <2>6, <2>8, LinedAnswer
  <2>10. /\ Behind(o, n) # <<>> /\ Head(Behind(o, n)) = xfer_buffer
         /\ Behind(o, n + 1) = Tail(Behind(o, n))
    BY <2>3, <2>7, <2>9, BehindNext
  <2>11. Len(toClient') = n + 1
    BY <2>1, <2>2, <2>3, AppendProperties
  <2>12. PromisedWaiting = Behind(o, n) /\ PromisedWaiting' = Behind(o, n + 1)
    BY <1>1, <2>4, <2>11 DEF PromisedWaiting
  <2>13. PromisedAnswers' = Append(PromisedAnswers, [id |-> p.id, failed |-> p.header = 255])
    <3>1. AsAnswers(toClient') = Append(AsAnswers(toClient), [id |-> p.id, failed |-> p.header = 255])
      BY <2>1, <2>2, <2>3, AsAnswersAppend
    <3>2. QED
      BY <2>4, <3>1 DEF PromisedAnswers
  <2>14. Promise!AnswerTo(xfer_buffer, failed) = [id |-> p.id, failed |-> p.header = 255]
    BY <2>1, <2>8 DEF Promise!AnswerTo
  <2> HIDE DEF failed
  <2>15. failed \in Promise!Outcomes(xfer_buffer)
    BY DEF failed
  <2>16. Promise!Answer
    <3>1. PromisedWaiting # <<>> /\ Head(PromisedWaiting) = xfer_buffer
      BY <2>10, <2>12
    <3>2. PromisedWaiting' = Tail(PromisedWaiting)
      BY <2>10, <2>12
    <3>3. PromisedAnswers' = Append(PromisedAnswers, Promise!AnswerTo(xfer_buffer, failed))
      BY <2>13, <2>14
    <3>4. \E f \in Promise!Outcomes(Head(PromisedWaiting)) :
            PromisedAnswers' = Append(PromisedAnswers, Promise!AnswerTo(Head(PromisedWaiting), f))
      BY <2>15, <3>1, <3>3
    <3>5. QED
      BY <3>1, <3>2, <3>4 DEF Promise!Answer
  <2>17. QED
    BY <2>16 DEF PromiseStep, Promise!Next
<1>4. QED
  BY <1>2, <1>3

LEMMA ReplyAnswers ==
  ASSUME IInv, OInv, AuthReply \/ Reply
  PROVE  PromiseStep
<1>1. CASE AuthReply
  <2>1. (header(FXMY_OK) = 255) = FALSE
    BY SuccessHeader
  <2>2. FALSE \in Promise!Outcomes(xfer_buffer)
    BY <1>1 DEF AuthReply, OInv, StatusFits
  <2>3. (header(FXMY_OK) = 255) \in Promise!Outcomes(xfer_buffer)
    BY <2>1, <2>2
  <2>4. QED
    BY <1>1, <2>3, ResultAnswers DEF AuthReply, Proceed, BufferAtResult
<1>2. CASE Reply
  <2>1. (header(status) = 255) \in Promise!Outcomes(xfer_buffer)
    BY <1>2 DEF Reply, OInv, StatusFits
  <2>2. QED
    BY <1>2, <2>1, ResultAnswers DEF Reply, Proceed, BufferAtResult
<1>3. QED
  BY <1>1, <1>2

\* A request is put behind those that wait.
LEMMA AuthAsks ==
  ASSUME OInv, NEW r \in Request, ClientAuth(r)
  PROVE  PromiseStep
<1>1. /\ process = "up" /\ process' = "up" /\ client = "greeted" /\ client' = "authenticating"
      /\ outstanding' = <<r>> /\ toClient' = toClient
  BY DEF ClientAuth, worker
<1>2. toClient = <<>>
  BY <1>1 DEF OInv, Phases
<1>3. PromisedAnswers = <<>> /\ PromisedWaiting = <<>>
  BY <1>1 DEF PromisedAnswers, PromisedWaiting, Talking
<1>4. PromisedAnswers' = <<>>
  <2>1. toClient' = <<>> /\ Talking'
    BY <1>1, <1>2 DEF Talking
  <2> DEFINE c == toClient'
  <2>2. c \in Seq(Frame) /\ Len(c) = 0
    BY <2>1
  <2> HIDE DEF c
  <2>3. AsAnswers(c) \in Seq(AnswerType) /\ Len(AsAnswers(c)) = 0
    <3>1. c \in Seq(Frame)
      BY <2>2
    <3>2. AsAnswers(c) \in Seq(AnswerType) /\ Len(AsAnswers(c)) = Len(c)
      BY <3>1, AsAnswersType
    <3>3. QED
      BY <2>2, <3>2
  <2>4. AsAnswers(c) = <<>>
    BY <2>3, EmptySeq
  <2>5. QED
    BY <2>1, <2>4 DEF PromisedAnswers, c
<1>5. PromisedWaiting' = Append(<<>>, r)
  <2>1. Talking' /\ Len(toClient') = 0 /\ outstanding' = <<r>>
    BY <1>1, <1>2 DEF Talking
  <2>2. PromisedWaiting' = Behind(<<r>>, 0)
    BY <2>1 DEF PromisedWaiting
  <2> DEFINE o == <<r>>
             x == Behind(o, 0)
  <2>3. o \in Seq(Request) /\ Len(o) = 1 /\ o[1] = r
    OBVIOUS
  <2> HIDE DEF o
  <2>4. x \in Seq(Request) /\ Len(x) = Len(o) - 0 /\ \A i \in 1 .. Len(o) - 0 : x[i] = o[0 + i]
    BY <2>3, BehindType
  <2> HIDE DEF x
  <2>5. Len(x) = 1 /\ \A i \in 1 .. 1 : x[i] = o[i]
    BY <2>3, <2>4
  <2>6. x = o
    BY <2>3, <2>4, <2>5, SeqEqual
  <2>7. QED
    BY <2>2, <2>6 DEF x, o
<1>6. Promise!Ask(r)
  BY <1>1, <1>3, <1>4, <1>5 DEF Promise!Ask
<1>7. QED
  BY <1>6 DEF PromiseStep, Promise!Next

LEMMA CommandAsks ==
  ASSUME IInv, OInv, NEW r \in Request, ClientCommand(r)
  PROVE  PromiseStep
<1>1. /\ process = "up" /\ process' = "up" /\ Talking /\ Talking'
      /\ toClient' = toClient
      /\ \/ outstanding' = outstanding
         \/ outstanding' = Append(outstanding, r)
  BY DEF ClientCommand, worker, Talking
<1>2. PromisedAnswers' = PromisedAnswers
  BY <1>1 DEF PromisedAnswers
<1>3. CASE outstanding' = outstanding
  <2>1. PromisedWaiting' = PromisedWaiting
    BY <1>1, <1>3 DEF PromisedWaiting
  <2>2. QED
    BY <1>1, <1>2, <2>1, PromiseStutters
<1>4. CASE outstanding' = Append(outstanding, r)
  <2>1. outstanding \in Seq(Request) /\ Len(toClient) \in Nat /\ Len(toClient) <= Len(outstanding)
    BY <1>1, LenProperties DEF IInv, TypeOK, OInv, Order
  <2>2. Behind(Append(outstanding, r), Len(toClient)) = Append(Behind(outstanding, Len(toClient)), r)
    BY <2>1, BehindAppend
  <2>3. PromisedWaiting' = Append(PromisedWaiting, r)
    BY <1>1, <1>4, <2>2 DEF PromisedWaiting
  <2>4. Promise!Ask(r)
    BY <1>1, <1>2, <2>3 DEF Promise!Ask
  <2>5. QED
    BY <2>4 DEF PromiseStep, Promise!Next
<1>5. QED
  BY <1>1, <1>3, <1>4

LEMMA ReadingReads ==
  ASSUME IInv, OInv, ClientReads
  PROVE  PromiseStep
<1>1. process' = process /\ toClient # <<>> /\ toClient' = Tail(toClient)
  BY DEF ClientReads, worker
<1>2. CASE client = "connecting"
  <2>1. ~Talking /\ ~Talking'
    BY <1>2 DEF ClientReads, Talking
  <2>2. PromisedAnswers' = PromisedAnswers /\ PromisedWaiting' = PromisedWaiting
    BY <2>1 DEF PromisedAnswers, PromisedWaiting
  <2>3. QED
    BY <1>1, <2>2, PromiseStutters
<1>3. CASE client # "connecting"
  <2>1. Talking /\ Talking'
    BY <1>3 DEF ClientReads, Talking
  <2>2. /\ outstanding \in Seq(Request) /\ outstanding' \in Seq(Request)
        /\ toClient \in Seq(Frame)
        /\ Len(outstanding') = Len(outstanding) - 1
        /\ \A i \in 1 .. Len(outstanding) - 1 : outstanding'[i] = outstanding[i + 1]
    BY <2>1, ReadsShift DEF IInv, TypeOK
  <2>3. Len(toClient) \in Nat /\ Len(toClient) >= 1 /\ Len(toClient) <= Len(outstanding)
    BY <1>1, <2>1, <2>2, EmptySeq, LenProperties DEF OInv, Order
  <2>4. Len(toClient') = Len(toClient) - 1
    BY <1>1, <2>2, HeadTailProperties
  <2> DEFINE o2 == outstanding'
  <2>5. o2 \in Seq(Request) /\ Len(o2) = Len(outstanding) - 1
        /\ \A i \in 1 .. Len(outstanding) - 1 : o2[i] = outstanding[i + 1]
    BY <2>2
  <2> HIDE DEF o2
  <2>6. Behind(o2, Len(toClient) - 1) = Behind(outstanding, Len(toClient))
    BY <2>2, <2>3, <2>5, BehindShift
  <2>7. PromisedWaiting' = PromisedWaiting
    BY <2>1, <2>4, <2>6 DEF PromisedWaiting, o2
  <2>8. AsAnswers(Tail(toClient)) = Tail(AsAnswers(toClient)) /\ AsAnswers(toClient) # <<>>
    BY <1>1, <2>2, AsAnswersTail
  <2>9. PromisedAnswers' = Tail(PromisedAnswers) /\ PromisedAnswers # <<>>
    BY <1>1, <2>1, <2>8 DEF PromisedAnswers
  <2>10. Promise!Read
    BY <1>1, <2>7, <2>9 DEF Promise!Read
  <2>11. QED
    BY <2>10 DEF PromiseStep, Promise!Next
<1>4. QED
  BY <1>2, <1>3

LEMMA ClosingLeaves ==
  ASSUME ClientCloses
  PROVE  PromiseStep
<1>1. process' = process /\ ~Talking'
  BY DEF ClientCloses, worker, Talking
<1>2. PromisedAnswers' = <<>> /\ PromisedWaiting' = <<>>
  BY <1>1 DEF PromisedAnswers, PromisedWaiting
<1>3. Promise!Leave
  BY <1>1, <1>2 DEF Promise!Leave
<1>4. QED
  BY <1>3 DEF PromiseStep, Promise!Next

LEMMA InitPromise == Init => Promise!Init
BY DEF Init, Promise!Init, PromisedAnswers, PromisedWaiting, Talking

LEMMA NextPromise == IInv /\ OInv /\ [Next]_vars => [Promise!Next]_(Promise!vars)
<1> SUFFICES ASSUME IInv, OInv, [Next]_vars PROVE PromiseStep
  BY DEF PromiseStep
<1>1. CASE WorkerStep
  BY <1>1, ReceiptStutters, StoppingStutters, HandshakeStutters, ReplyAnswers DEF WorkerStep
<1>2. CASE ClientStep
  BY <1>2, AuthAsks, CommandAsks, ReadingReads, ClosingLeaves DEF ClientStep
<1>3. CASE UNCHANGED vars
  <2>1. process' = process /\ PromisedAnswers' = PromisedAnswers
        /\ PromisedWaiting' = PromisedWaiting
    BY <1>3 DEF vars, peer, PromisedAnswers, PromisedWaiting, Talking
  <2>2. QED
    BY <2>1, PromiseStutters
<1>4. QED
  BY <1>1, <1>2, <1>3 DEF Next

\* A session keeps the promise of RequestReply, for any packet IDs and native
\* codes and however many requests: each answer is about the first request
\* that waits and has its number, an outcome that request can have, and
\* nothing of the command before it.
THEOREM SessionKeepsPromise == Spec => ImplementsPromise
<1>1. Spec => []IInv /\ []OInv
  BY SessionInvariance, OrderInvariance, PTL
<1>2. QED
  BY <1>1, InitPromise, NextPromise, PTL DEF Spec, ImplementsPromise, Promise!Spec

-----------------------------------------------------------------------------
(* What a session has allocated.                                           *)

\* What HeapAccounted expects: x is the packet in hand, d whether there is a
\* name of a database, and n wide queries are lost.
Ledger(x, d, n) ==
  [b \in Block |-> IF b = "packet" THEN IF x = NULL THEN 0 ELSE 1
                   ELSE IF b = "database" THEN IF d THEN 1 ELSE 0
                   ELSE IF b = "wide_query" THEN n
                   ELSE 0]

\* No database is named before fxmy_handle_auth.
HInv ==
  process = "up" =>
    /\ blocks = Ledger(xfer_buffer, database, early - Early(toServer))
    /\ pc \in {"handshake", "auth"} => ~database
    /\ stmts <= early - Early(toServer)
    /\ stmts > 0 => connected

EarlySet(q) == {i \in DOMAIN q : q[i].kind \in EarlyKinds}
IsEarly(r)  == IF r.kind \in EarlyKinds THEN 1 ELSE 0

LEMMA EarlySetFinite ==
  ASSUME NEW q \in Seq(Request)
  PROVE  /\ IsFiniteSet(EarlySet(q)) /\ EarlySet(q) \subseteq 1 .. Len(q)
         /\ Early(q) = Cardinality(EarlySet(q)) /\ Early(q) \in Nat
<1>1. Len(q) \in Nat /\ DOMAIN q = 1 .. Len(q)
  BY LenProperties
<1>2. IsFiniteSet(1 .. Len(q))
  BY <1>1, FS_Interval
<1>3. EarlySet(q) \subseteq 1 .. Len(q)
  BY <1>1 DEF EarlySet
<1>4. IsFiniteSet(EarlySet(q))
  BY <1>2, <1>3, FS_Subset
<1>5. QED
  BY <1>3, <1>4, FS_CardinalityType DEF Early, EarlySet

\* A request is sent.
LEMMA EarlyAppend ==
  ASSUME NEW q \in Seq(Request), NEW r \in Request
  PROVE  Early(Append(q, r)) = Early(q) + IsEarly(r)
<1> DEFINE q2 == Append(q, r)
           n  == Len(q)
<1>1. /\ q2 \in Seq(Request) /\ DOMAIN q2 = 1 .. n + 1 /\ q2[n + 1] = r
      /\ \A i \in 1 .. n : q2[i] = q[i]
      /\ n \in Nat /\ DOMAIN q = 1 .. n
  BY AppendProperties, LenProperties
<1> HIDE DEF q2, n
<1>2. n + 1 \notin EarlySet(q)
  BY <1>1 DEF EarlySet
<1>3. CASE r.kind \in EarlyKinds
  <2>1. EarlySet(q2) = EarlySet(q) \cup {n + 1}
    BY <1>1, <1>3 DEF EarlySet
  <2>2. Cardinality(EarlySet(q) \cup {n + 1}) = Cardinality(EarlySet(q)) + 1
    BY <1>2, EarlySetFinite, FS_AddElement
  <2>3. Early(q2) = Early(q) + 1
    BY <1>1, <2>1, <2>2, EarlySetFinite
  <2>4. QED
    BY <1>3, <2>3 DEF IsEarly, q2
<1>4. CASE r.kind \notin EarlyKinds
  <2>1. EarlySet(q2) = EarlySet(q)
    BY <1>1, <1>4 DEF EarlySet
  <2>2. Early(q2) = Early(q) /\ Early(q) \in Nat
    BY <1>1, <2>1, EarlySetFinite
  <2>3. QED
    BY <1>4, <2>2 DEF IsEarly, q2
<1>5. QED
  BY <1>3, <1>4

\* A request is received.
LEMMA EarlyTail ==
  ASSUME NEW q \in Seq(Request), q # <<>>
  PROVE  Early(Tail(q)) = Early(q) - IsEarly(Head(q))
<1> DEFINE t == Tail(q)
           n == Len(q)
           f == [i \in EarlySet(t) |-> i + 1]
<1>1. /\ t \in Seq(Request) /\ Head(q) = q[1]
      /\ n \in Nat /\ n # 0 /\ Len(t) = n - 1
      /\ \A i \in 1 .. Len(t) : t[i] = q[i + 1]
  BY HeadTailProperties, LenProperties, EmptySeq
<1>2. DOMAIN q = 1 .. n /\ DOMAIN t = 1 .. n - 1
  BY <1>1, LenProperties
<1> HIDE DEF t, n
<1>3. \A i : i \in EarlySet(t) <=> i \in 1 .. n - 1 /\ q[i + 1].kind \in EarlyKinds
  BY <1>1, <1>2 DEF EarlySet
<1>4. \A j : j \in EarlySet(q) \ {1} <=> j \in 2 .. n /\ q[j].kind \in EarlyKinds
  BY <1>1, <1>2 DEF EarlySet
<1>5. f \in Bijection(EarlySet(t), EarlySet(q) \ {1})
  <2>1. \A i \in EarlySet(t) : f[i] \in EarlySet(q) \ {1}
    BY <1>1, <1>3, <1>4
  <2>2. \A i, j \in EarlySet(t) : f[i] = f[j] => i = j
    BY <1>3
  <2>3. ASSUME NEW j \in EarlySet(q) \ {1}
        PROVE  \E i \in EarlySet(t) : f[i] = j
    <3>1. j \in 2 .. n /\ q[j].kind \in EarlyKinds
      BY <1>4
    <3>2. j - 1 \in 1 .. n - 1 /\ (j - 1) + 1 = j
      BY <1>1, <3>1
    <3>3. j - 1 \in EarlySet(t)
      BY <1>3, <3>1, <3>2
    <3>4. QED
      BY <3>2, <3>3
  <2>4. QED
    BY <2>1, <2>2, <2>3, Fun_IsBij
<1>6. Cardinality(EarlySet(q) \ {1}) = Cardinality(EarlySet(t))
  BY <1>1, <1>5, EarlySetFinite, FS_Bijection DEF ExistsBijection
<1>7. /\ Cardinality(EarlySet(q) \ {1}) =
           IF 1 \in EarlySet(q) THEN Cardinality(EarlySet(q)) - 1
           ELSE Cardinality(EarlySet(q))
  BY EarlySetFinite, FS_RemoveElement
<1>8. 1 \in EarlySet(q) <=> Head(q).kind \in EarlyKinds
  BY <1>1, <1>2 DEF EarlySet
<1>9. Early(t) = Cardinality(EarlySet(t)) /\ Early(q) = Cardinality(EarlySet(q))
      /\ Early(q) \in Nat
  BY <1>1, EarlySetFinite
<1>10. QED
  BY <1>6, <1>7, <1>8, <1>9 DEF IsEarly, t

\* By how much a handler changes the count of a sort of block.
Net(b, got, freed) == (IF b \in got THEN 1 ELSE 0) - (IF b \in freed THEN 1 ELSE 0)
Held(d)            == IF d THEN 1 ELSE 0

\* What a handler that comes to an end owes: one wide query for an early
\* return, and a name of a database for the one before.
LEMMA HandlerHeap ==
  ASSUME IInv, HInv, NEW from \in {"auth", "command"}, NEW kind, Recv(from, kind),
         NEW got, NEW freed, Uses(got, freed), NEW n \in 0 .. 1,
         process' = "up" =>
           /\ pc' \in {"auth_reply", "reply", "close"}
           /\ n = 1 <=> kind \in EarlyKinds
           /\ Net("packet", got, freed) = 0
           /\ Net("database", got, freed) = Held(database') - Held(database)
           /\ Net("wide_query", got, freed) = n
           /\ Net("buffer", got, freed) = 0
           /\ Net("result", got, freed) = 0
           /\ stmts' \in {stmts, stmts + n}
           /\ stmts' > 0 => connected'
  PROVE  HInv'
<1> SUFFICES ASSUME process' = "up" PROVE HInv'
  BY DEF HInv
<1> DEFINE w  == early - Early(toServer)
           w2 == early' - Early(toServer')
<1>1. /\ process = "up" /\ pc = from /\ toServer # <<>> /\ Head(toServer).kind = kind
      /\ toServer' = Tail(toServer) /\ early' = early
      /\ toServer \in Seq(Request) /\ early \in Nat /\ stmts \in Nat
      /\ blocks \in [Block -> Int]
  BY DEF Recv, peer, IInv, TypeOK
<1>2. xfer_buffer = NULL /\ xfer_buffer' # NULL
  BY <1>1, RecvFacts DEF IInv, BufferHandOff
<1>3. w \in Int /\ w2 = w + n
  <2>1. Early(toServer') = Early(toServer) - n
    BY <1>1, EarlyTail DEF IsEarly
  <2>2. Early(toServer) \in Nat
    BY <1>1, EarlySetFinite
  <2>3. QED
    BY <1>1, <2>1, <2>2
<1>4. blocks = Ledger(NULL, database, w) /\ stmts <= w
  BY <1>1, <1>2 DEF HInv
<1> HIDE DEF w, w2
<1>5. blocks' = [b \in Block |-> blocks[b] + Net(b, {"packet"}, {}) + Net(b, got, freed)]
  <2>1. ASSUME NEW h \in [Block -> Int], NEW S
        PROVE  /\ Malloc(h, S) \in [Block -> Int]
               /\ \A b \in Block : Malloc(h, S)[b] = IF b \in S THEN h[b] + 1 ELSE h[b]
               /\ Free(h, S) = [b \in Block |-> IF b \in S THEN h[b] - 1 ELSE h[b]]
    BY DEF Malloc, Free
  <2> DEFINE m1 == Malloc(blocks, {"packet"})
             m2 == Malloc(m1, got)
  <2>2. m1 \in [Block -> Int]
        /\ \A b \in Block : m1[b] = IF b \in {"packet"} THEN blocks[b] + 1 ELSE blocks[b]
    BY <1>1, <2>1
  <2> HIDE DEF m1
  <2>3. m2 \in [Block -> Int]
        /\ \A b \in Block : m2[b] = IF b \in got THEN m1[b] + 1 ELSE m1[b]
    BY <2>1, <2>2
  <2> HIDE DEF m2
  <2>4. blocks' = [b \in Block |-> IF b \in freed THEN m2[b] - 1 ELSE m2[b]]
    <3>1. blocks' = Free(m2, freed)
      BY DEF Uses, m1, m2
    <3>2. QED
      BY <2>1, <2>3, <3>1
  <2>5. \A b \in Block : blocks[b] \in Int
    BY <1>1
  <2>6. \A b \in Block :
          (IF b \in freed THEN m2[b] - 1 ELSE m2[b])
            = blocks[b] + Net(b, {"packet"}, {}) + Net(b, got, freed)
    BY <2>2, <2>3, <2>5 DEF Net
  <2>7. QED
    BY <2>4, <2>6
<1>6. /\ blocks["packet"] = 0 /\ blocks["database"] = Held(database)
      /\ blocks["wide_query"] = w /\ blocks["buffer"] = 0 /\ blocks["result"] = 0
  BY <1>4 DEF Ledger, Held, Block
<1>7. \A b \in Block : Net(b, {"packet"}, {}) = IF b = "packet" THEN 1 ELSE 0
  BY DEF Net
<1>8. blocks' = Ledger(xfer_buffer', database', w2)
  <2>1. Held(database) \in Int /\ Held(database') \in Int
    BY DEF Held
  <2>2. \A b \in Block :
          blocks[b] + Net(b, {"packet"}, {}) + Net(b, got, freed)
            = IF b = "packet" THEN 1
              ELSE IF b = "database" THEN Held(database')
              ELSE IF b = "wide_query" THEN w2 ELSE 0
    BY <1>3, <1>6, <1>7, <2>1 DEF Block
  <2>3. QED
    BY <1>2, <1>5, <2>2 DEF Ledger, Held
<1>9. pc' \notin {"handshake", "auth"}
  OBVIOUS
<1>10. stmts' <= w2
  BY <1>1, <1>3, <1>4
<1>11. QED
  BY <1>8, <1>9, <1>10 DEF HInv, w2

LEMMA ConnectKeeps ==
  ASSUME NEW to, Connect(to), connected
  PROVE  connected'
BY DEF Connect

LEMMA AuthenticationHeap ==
  ASSUME IInv, HInv, Auth \/ AuthWithDb \/ AuthBadName \/ AuthShort
  PROVE  HInv'
<1>1. /\ stmts \in Nat /\ database \in BOOLEAN
      /\ process = "up" => (stmts > 0 => connected)
      /\ process = "up" /\ pc = "auth" => ~database
  BY DEF IInv, TypeOK, HInv
<1>2. CASE Auth
  <2>1. /\ Recv("auth", "AUTH") /\ Proceed("auth_reply") /\ Uses({}, {})
        /\ UNCHANGED <<database, stmts, connected>>
    BY <1>2 DEF Auth, UsesNone, odbc
  <2>2. QED
    BY <1>1, <2>1, HandlerHeap DEF Recv, Proceed, Net, Held, EarlyKinds
<1>3. CASE AuthWithDb
  <2>1. /\ Recv("auth", "AUTH_WITH_DB") /\ Connect("auth_reply") /\ Uses({"database"}, {})
        /\ stmts' = stmts /\ database' = TRUE
    BY <1>3 DEF AuthWithDb
  <2>2. (connected => connected') /\ (process' = "up" => pc' = "auth_reply")
    BY <2>1, ConnectKeeps, ConnectFacts DEF Crashes
  <2>3. QED
    BY <1>1, <2>1, <2>2, HandlerHeap DEF Recv, Net, Held, EarlyKinds
<1>4. CASE AuthBadName \/ AuthShort
  BY <1>4 DEF AuthBadName, AuthShort, Crash, HInv
<1>5. QED
  BY <1>2, <1>3, <1>4

LEMMA CommandHeap ==
  ASSUME IInv, HInv, Quit \/ InitDb \/ SetOption \/ Unsupported
  PROVE  HInv'
<1>1. /\ stmts \in Nat /\ database \in BOOLEAN
      /\ process = "up" => (stmts > 0 => connected)
  BY DEF IInv, TypeOK, HInv
<1>2. CASE Quit
  <2>1. /\ Recv("command", "QUIT") /\ Proceed("close") /\ Uses({}, {})
        /\ UNCHANGED <<database, stmts, connected>>
    BY <1>2 DEF Quit, UsesNone, odbc
  <2>2. QED
    BY <1>1, <2>1, HandlerHeap DEF Recv, Proceed, Net, Held, EarlyKinds
<1>3. CASE InitDb
  <2>1. /\ Recv("command", "INIT_DB") /\ Connect("reply")
        /\ Uses({"database"}, FreedByInitDb)
        /\ stmts' = stmts /\ database' = TRUE
    BY <1>3 DEF InitDb
  <2>2. (connected => connected') /\ (process' = "up" => pc' = "reply")
    BY <2>1, ConnectKeeps, ConnectFacts DEF Crashes
  <2>3. \A b \in {"packet", "wide_query", "buffer", "result"} :
          Net(b, {"database"}, FreedByInitDb) = 0
    BY DEF Net, FreedByInitDb
  <2>4. Net("database", {"database"}, FreedByInitDb) = Held(database') - Held(database)
    BY <1>1, <2>1 DEF Net, FreedByInitDb, Held
  <2>5. process' = "up" =>
          /\ pc' \in {"auth_reply", "reply", "close"}
          /\ 0 = 1 <=> "INIT_DB" \in EarlyKinds
          /\ stmts' \in {stmts, stmts + 0}
          /\ stmts' > 0 => connected'
    BY <1>1, <2>1, <2>2 DEF Recv, EarlyKinds
  <2>6. 0 \in 0 .. 1 /\ "command" \in {"auth", "command"}
    OBVIOUS
  <2>7. QED
    BY <2>1, <2>3, <2>4, <2>5, <2>6, HandlerHeap
<1>4. CASE SetOption
  <2>1. /\ Recv("command", "SET_OPTION") /\ Proceed("reply") /\ Uses({}, {})
        /\ UNCHANGED <<database, stmts, connected>>
    BY <1>4 DEF SetOption, UsesNone, odbc
  <2>2. QED
    BY <1>1, <2>1, HandlerHeap DEF Recv, Proceed, Net, Held, EarlyKinds
<1>5. CASE Unsupported
  BY <1>5 DEF Unsupported, Crash, HInv
<1>6. QED
  BY <1>2, <1>3, <1>4, <1>5

\* The queries that return early lose one block each.
LEMMA EarlyHeap ==
  ASSUME IInv, HInv, SetNames \/ LimitUnbounded \/ Describe \/ ShowTables, process' = "up"
  PROVE  HInv'
<1>1. /\ stmts \in Nat /\ database \in BOOLEAN
      /\ process = "up" => (stmts > 0 => connected)
  BY DEF IInv, TypeOK, HInv
<1>2. CASE SetNames
  <2>1. /\ Recv("command", "SET_NAMES") /\ Proceed("reply") /\ Uses({"wide_query"}, {})
        /\ UNCHANGED <<database, stmts, connected>>
    BY <1>2 DEF SetNames, odbc
  <2>2. QED
    BY <1>1, <2>1, HandlerHeap DEF Recv, Proceed, Net, Held, EarlyKinds
<1>3. CASE LimitUnbounded
  <2>1. /\ Recv("command", "LIMIT_UNBOUNDED") /\ Proceed("reply") /\ Uses({"wide_query"}, {})
        /\ UNCHANGED <<database, stmts, connected>>
    BY <1>3 DEF LimitUnbounded, odbc
  <2>2. QED
    BY <1>1, <2>1, HandlerHeap DEF Recv, Proceed, Net, Held, EarlyKinds
<1>4. ~ExecCrashes /\ ~FetchCrashes
  BY DEF ExecCrashes, FetchCrashes, Crash, Why
<1>5. CASE Describe
  <2>1. /\ Recv("command", "DESCRIBE") /\ Proceed("reply")
        /\ Uses({"wide_query", "buffer"}, {"buffer"})
        /\ UNCHANGED <<database, stmts, connected>>
    BY <1>4, <1>5 DEF Describe, odbc
  <2>2. QED
    BY <1>1, <2>1, HandlerHeap DEF Recv, Proceed, Net, Held, EarlyKinds
<1>6. CASE ShowTables
  <2>1. /\ Recv("command", "SHOW_TABLES") /\ Proceed("reply")
        /\ Uses({"wide_query", "buffer"}, {"buffer"})
        /\ UNCHANGED <<database, connected>>
    BY <1>4, <1>6 DEF ShowTables
  <2>2. stmts' = stmts \/ (stmts' = stmts + 1 /\ \E o \in ExecDirect : Succeeded(Exec(o)))
    BY <1>4, <1>6 DEF ShowTables
  <2>3. stmts' \in {stmts, stmts + 1} /\ (stmts' > 0 => connected')
    BY <1>1, <2>1, <2>2, NoHandleNoStatus, NullStatus DEF Recv
  <2>4. QED
    BY <1>1, <2>1, <2>3, HandlerHeap DEF Recv, Proceed, Net, Held, EarlyKinds
<1>7. QED
  BY <1>2, <1>3, <1>5, <1>6

LEMMA StatementHeap ==
  ASSUME IInv, HInv, Statement
  PROVE  HInv'
<1>1. /\ stmts \in Nat /\ database \in BOOLEAN
      /\ process = "up" => (stmts > 0 => connected)
  BY DEF IInv, TypeOK, HInv
<1>2. /\ Recv("command", "STATEMENT") /\ Uses({"wide_query"}, {"wide_query"})
      /\ UNCHANGED <<database, stmts, connected>>
  BY DEF Statement, odbc
<1>3. PICK o \in ExecDirect :
        Crash(Why(o)) \/ Crash("null_status") \/ Crash("todo") \/ Proceed("reply")
  BY DEF Statement
<1>4. process' = "up" => pc' = "reply"
  BY <1>3 DEF Crash, Why, Proceed
<1>5. QED
  BY <1>1, <1>2, <1>4, HandlerHeap DEF Recv, Net, Held, EarlyKinds

\* An answer built in an empty buffer leaves nothing; one that follows a
\* packet frees that.
LEMMA AnswerBlocks ==
  ASSUME blocks \in [Block -> Int]
  PROVE  /\ HeapAfterSend(blocks, NULL) = blocks
         /\ xfer_buffer # NULL =>
              HeapAfterResult = [b \in Block |-> IF b = "packet" THEN blocks[b] - 1 ELSE blocks[b]]
<1>1. ASSUME NEW h \in [Block -> Int], NEW x \in Block
      PROVE  /\ Malloc(h, {x}) \in [Block -> Int] /\ Free(h, {x}) \in [Block -> Int]
             /\ \A b \in Block : Malloc(h, {x})[b] = IF b = x THEN h[b] + 1 ELSE h[b]
             /\ \A b \in Block : Free(h, {x})[b] = IF b = x THEN h[b] - 1 ELSE h[b]
  BY DEF Malloc, Free
<1>2. "packet" \in Block /\ "result" \in Block
  BY DEF Block
<1>3. ASSUME NEW h \in [Block -> Int]
      PROVE  HeapAfterSend(h, NULL) = h
  <2> DEFINE m == Malloc(h, {"packet"})
             f == Free(m, {"packet"})
  <2>1. /\ m \in [Block -> Int]
        /\ \A b \in Block : m[b] = IF b = "packet" THEN h[b] + 1 ELSE h[b]
    BY <1>1, <1>2
  <2> HIDE DEF m
  <2>2. /\ f \in [Block -> Int]
        /\ \A b \in Block : f[b] = IF b = "packet" THEN m[b] - 1 ELSE m[b]
    BY <1>1, <1>2, <2>1
  <2>3. HeapAfterSend(h, NULL) = f
    BY DEF HeapAfterSend, m
  <2> HIDE DEF f
  <2>4. \A b \in Block : h[b] \in Int
    OBVIOUS
  <2>5. \A b \in Block : f[b] = h[b]
    BY <2>1, <2>2, <2>4
  <2>6. f = h
    BY <2>2, <2>5
  <2>7. QED
    BY <2>3, <2>6
<1>4. ASSUME xfer_buffer # NULL
      PROVE  HeapAfterResult = [b \in Block |-> IF b = "packet" THEN blocks[b] - 1 ELSE blocks[b]]
  <2> DEFINE reset == Free(blocks, {"packet"})
             held  == Malloc(reset, {"result"})
  <2>1. /\ reset \in [Block -> Int]
        /\ \A b \in Block : reset[b] = IF b = "packet" THEN blocks[b] - 1 ELSE blocks[b]
    BY <1>1, <1>2
  <2>2. HeapAfterResult = Free(HeapAfterSend(held, NULL), {"result"})
    BY <1>4 DEF HeapAfterResult, BufferAtResult
  <2> HIDE DEF reset
  <2>3. /\ held \in [Block -> Int]
        /\ \A b \in Block : held[b] = IF b = "result" THEN reset[b] + 1 ELSE reset[b]
    BY <1>1, <1>2, <2>1
  <2> HIDE DEF held
  <2>4. HeapAfterResult = Free(held, {"result"})
    BY <1>3, <2>2, <2>3
  <2> DEFINE last == Free(held, {"result"})
  <2>5. /\ last \in [Block -> Int]
        /\ \A b \in Block : last[b] = IF b = "result" THEN held[b] - 1 ELSE held[b]
    BY <1>1, <1>2, <2>3
  <2> HIDE DEF last
  <2>6. \A b \in Block : reset[b] \in Int
    BY <2>1
  <2>7. \A b \in Block : last[b] = reset[b]
    BY <2>3, <2>5, <2>6
  <2>8. last = [b \in Block |-> IF b = "packet" THEN blocks[b] - 1 ELSE blocks[b]]
    BY <2>1, <2>5, <2>7
  <2>9. QED
    BY <2>4, <2>8 DEF last
<1>5. QED
  BY <1>3, <1>4

LEMMA AnswerHeap ==
  ASSUME IInv, HInv, SendHandshake \/ AuthReply \/ Reply
  PROVE  HInv'
<1> DEFINE w == early - Early(toServer)
<1>1. /\ blocks \in [Block -> Int] /\ process = "up"
      /\ xfer_buffer' = NULL /\ UNCHANGED <<odbc, database, peer, toServer>>
  BY DEF SendHandshake, AuthReply, Reply, Send, AfterSend, IInv, TypeOK
<1>2. w' = w
  BY <1>1 DEF peer
<1>3. blocks = Ledger(xfer_buffer, database, w) /\ stmts <= w /\ (stmts > 0 => connected)
  BY <1>1 DEF HInv
<1> HIDE DEF w
<1>4. CASE SendHandshake
  <2>1. xfer_buffer = NULL /\ ~database
    BY <1>4 DEF SendHandshake, IInv, BufferHandOff, HInv
  <2>2. blocks' = Ledger(NULL, database, w)
    BY <1>1, <1>3, <1>4, <2>1, AnswerBlocks DEF SendHandshake
  <2>3. QED
    BY <1>1, <1>2, <1>3, <2>1, <2>2 DEF HInv, w, odbc
<1>5. CASE AuthReply \/ Reply
  <2>1. xfer_buffer # NULL /\ pc' = "command"
    BY <1>5 DEF AuthReply, Reply, Proceed, IInv, BufferHandOff
  <2>2. blocks' = [b \in Block |-> IF b = "packet" THEN blocks[b] - 1 ELSE blocks[b]]
    BY <1>1, <1>5, <2>1, AnswerBlocks DEF AuthReply, Reply
  <2>3. \A b \in Block : blocks[b] = Ledger(xfer_buffer, database, w)[b]
    BY <1>3
  <2>4. blocks' = Ledger(NULL, database, w)
    BY <2>1, <2>2, <2>3 DEF Ledger
  <2>5. QED
    BY <1>1, <1>2, <1>3, <2>1, <2>4 DEF HInv, w, odbc
<1>6. QED
  BY <1>4, <1>5

LEMMA CloseHeap ==
  ASSUME IInv, HInv, Close
  PROVE  HInv'
<1>1. /\ process = "up" /\ pc = "close"
      /\ UNCHANGED <<xfer_buffer, database, blocks, early, toServer>>
  BY DEF Close, buffers, heap, peer
<1>2. PICK o : \/ Crash(Why(o))
               \/ Proceed("exited") /\ connected' = FALSE /\ stmts' = 0
  BY DEF Close
<1>3. CASE Crash(Why(o))
  BY <1>3 DEF Crash, Why, HInv
<1>4. CASE Proceed("exited") /\ stmts' = 0
  <2>1. 0 <= early - Early(toServer)
    <3>1. stmts \in Nat /\ toServer \in Seq(Request) /\ early \in Nat
      BY DEF IInv, TypeOK
    <3>2. Early(toServer) \in Nat
      BY <3>1, EarlySetFinite
    <3>3. QED
      BY <1>1, <3>1, <3>2 DEF HInv
  <2>2. QED
    BY <1>1, <1>4, <2>1 DEF HInv, Proceed
<1>5. QED
  BY <1>2, <1>3, <1>4

LEMMA ClientHeap ==
  ASSUME IInv, HInv, ClientStep
  PROVE  HInv'
<1>1. /\ UNCHANGED <<process, pc, xfer_buffer, database, blocks, stmts, connected>>
      /\ toServer \in Seq(Request) /\ early \in Nat
  BY DEF ClientStep, ClientAuth, ClientCommand, ClientReads, ClientCloses, worker, buffers,
     odbc, heap, IInv, TypeOK
<1>2. Early(toServer) \in Nat
  BY <1>1, EarlySetFinite
<1>3. early' - Early(toServer') = early - Early(toServer)
  <2>1. ASSUME NEW r \in Request, ClientAuth(r)
        PROVE  early' - Early(toServer') = early - Early(toServer)
    <3>1. IsEarly(r) = 0 /\ early' = early /\ toServer' = Append(toServer, r)
      BY <2>1 DEF ClientAuth, AuthKinds, EarlyKinds, IsEarly
    <3>2. QED
      BY <1>1, <1>2, <3>1, EarlyAppend
  <2>2. ASSUME NEW r \in Request, ClientCommand(r)
        PROVE  early' - Early(toServer') = early - Early(toServer)
    <3>1. early' = early + IsEarly(r) /\ toServer' = Append(toServer, r)
      BY <2>2 DEF ClientCommand, IsEarly
    <3>2. IsEarly(r) \in Nat
      BY DEF IsEarly
    <3>3. QED
      BY <1>1, <1>2, <3>1, <3>2, EarlyAppend
  <2>3. CASE ClientReads \/ ClientCloses
    BY <2>3 DEF ClientReads, ClientCloses
  <2>4. QED
    BY <2>1, <2>2, <2>3 DEF ClientStep
<1>4. QED
  BY <1>1, <1>3 DEF HInv

LEMMA NextHeap == IInv /\ HInv /\ [Next]_vars => HInv'
<1> SUFFICES ASSUME IInv, HInv, [Next]_vars PROVE HInv'
  OBVIOUS
<1>1. CASE process' # "up"
  BY <1>1 DEF HInv
<1>2. CASE WorkerStep /\ process' = "up"
  <2>1. ~SetNamesOther /\ ~Malformed /\ ~SendFails /\ ~ShortRead /\ ~ReplyWithoutStatus
    BY <1>2 DEF SetNamesOther, Malformed, SendFails, ShortRead, ReplyWithoutStatus, Crash
  <2>2. QED
    BY <1>2, <2>1, AuthenticationHeap, CommandHeap, EarlyHeap, StatementHeap, AnswerHeap,
       CloseHeap DEF WorkerStep
<1>3. CASE ClientStep
  BY <1>3, ClientHeap
<1>4. CASE UNCHANGED vars
  BY <1>4 DEF vars, buffers, odbc, heap, peer, HInv
<1>5. QED
  BY <1>1, <1>2, <1>3, <1>4 DEF Next

\* Whatever a client sends, every block is freed once or is one that
\* HeapAccounted names: the packet in hand, the name of the database, and a
\* wide query for each query that returned early.
THEOREM HeapIsAccounted == Spec => []HeapAccounted
<1>1. Init => HInv
  <2>1. SUFFICES ASSUME Init PROVE HInv
    OBVIOUS
  <2>2. Early(toServer) = 0
    <3>1. {i \in DOMAIN toServer : toServer[i].kind \in EarlyKinds} = {}
      BY <2>1 DEF Init
    <3>2. QED
      BY <3>1, FS_EmptySet DEF Early
  <2>3. early - Early(toServer) = 0
    BY <2>1, <2>2 DEF Init
  <2>4. blocks = Ledger(xfer_buffer, database, 0)
    BY <2>1 DEF Init, Ledger
  <2>5. QED
    BY <2>1, <2>3, <2>4 DEF Init, HInv
<1>2. IInv /\ HInv => HeapAccounted
  <2> SUFFICES ASSUME IInv, HInv, process = "up" PROVE HeapAccounted
    BY DEF HeapAccounted
  <2>1. blocks = Ledger(xfer_buffer, database, early - Early(toServer))
    BY DEF HInv
  <2>2. blocks["wide_query"] = early - Early(toServer)
        /\ (pc = "exited" => blocks["packet"] = 1)
    BY <2>1 DEF Ledger, Block, IInv, BufferHandOff
  <2>3. QED
    BY <2>1, <2>2 DEF HInv, HeapAccounted, Ledger
<1>3. QED
  BY <1>1, <1>2, NextHeap, SessionInvariance, PTL DEF Spec

-----------------------------------------------------------------------------
(* Who waits for whom.                                                     *)

OnlyTalkersWait == outstanding # <<>> => Talking

Greeted == process = "up" /\ client = "connecting" => pc = "handshake" \/ toClient # <<>>

\* A worker that has taken up COM_QUIT has left nothing behind it.
QuitTaken ==
  process = "up" /\ pc \in {"close", "exited"} =>
    toServer = <<>> /\ client \in {"quitting", "closed"}

QuitOnItsWay ==
  process = "up" /\ client = "quitting" /\ pc \notin {"close", "exited"} =>
    toServer # <<>> /\ toServer[Len(toServer)].kind = "QUIT"

Ends == OnlyTalkersWait /\ Greeted /\ QuitTaken /\ QuitOnItsWay

\* How a handler of a packet of this kind leaves the worker.
Handled(kind) ==
  \/ process' # "up"
  \/ kind # "QUIT" /\ process' = "up" /\ pc' \in {"auth_reply", "reply"}
  \/ kind = "QUIT" /\ process' = "up" /\ pc' = "close"

LEMMA HandlerEnds ==
  ASSUME IInv, OInv, Ends, NEW from \in {"auth", "command"}, NEW kind,
         Recv(from, kind), Handled(kind)
  PROVE  Ends'
<1>1. /\ process = "up" /\ pc = from
      /\ toServer # <<>> /\ Head(toServer).kind = kind
      /\ toServer' = Tail(toServer)
      /\ client' = client /\ outstanding' = outstanding /\ toClient' = toClient
  BY DEF Recv, peer
<1> DEFINE t == Tail(toServer)
           n == Len(toServer)
<1>2. /\ t \in Seq(Request) /\ Head(toServer) = toServer[1]
      /\ n \in Nat /\ n # 0 /\ Len(t) = n - 1
      /\ \A i \in 1 .. Len(t) : t[i] = toServer[i + 1]
  BY <1>1, HeadTailProperties, LenProperties, EmptySeq DEF IInv, TypeOK
<1>3. toServer' = t
  BY <1>1
<1> HIDE DEF t
<1>4. OnlyTalkersWait' /\ Greeted'
  BY <1>1 DEF Ends, OnlyTalkersWait, Greeted, Talking, OInv, Phases
<1>5. QuitTaken'
  <2>1. SUFFICES ASSUME kind = "QUIT" PROVE t = <<>> /\ client \in {"quitting", "closed"}
    BY <1>1, <1>3 DEF QuitTaken, Handled
  <2>2. 1 \in 1 .. n /\ toServer[1].kind = "QUIT"
    BY <1>1, <1>2, <2>1
  <2>3. n = 1 /\ client \in {"quitting", "closed"}
    BY <2>2 DEF OInv, QuitLast
  <2>4. Len(t) = 0
    BY <1>2, <2>3
  <2>5. QED
    BY <1>2, <2>3, <2>4, EmptySeq
<1>6. QuitOnItsWay'
  <2>1. SUFFICES ASSUME client = "quitting", kind # "QUIT"
                 PROVE  t # <<>> /\ t[Len(t)].kind = "QUIT"
    BY <1>1, <1>3 DEF QuitOnItsWay, Handled
  <2>2. toServer[n].kind = "QUIT"
    BY <1>1, <2>1 DEF Ends, QuitOnItsWay
  <2>3. n # 1
    BY <1>1, <1>2, <2>1, <2>2
  <2>4. Len(t) # 0 /\ Len(t) \in 1 .. Len(t) /\ Len(t) + 1 = n
    <3> HIDE DEF n
    <3>1. QED
      BY <1>2, <2>3
  <2>5. t[Len(t)] = toServer[n]
    BY <1>2, <2>4
  <2>6. QED
    BY <1>2, <2>2, <2>4, <2>5, EmptySeq
<1>7. QED
  BY <1>4, <1>5, <1>6 DEF Ends


LEMMA ConnectHandled ==
  ASSUME NEW to \in {"auth_reply", "reply"}, Connect(to), NEW kind, kind # "QUIT"
  PROVE  Handled(kind)
<1>1. PICK o \in DriverConnect : Crash(Why(o)) \/ Proceed(to)
  BY DEF Connect
<1>2. QED
  BY <1>1 DEF Crash, Why, Proceed, Handled

LEMMA QueryHandled ==
  ASSUME ExecCrashes \/ FetchCrashes \/ Proceed("reply"), NEW kind, kind # "QUIT"
  PROVE  Handled(kind)
<1>1. CASE ExecCrashes
  BY <1>1 DEF ExecCrashes, Crash, Handled
<1>2. CASE FetchCrashes
  <2>1. PICK f \in Fetch : Crash(IF Breaks(f) THEN Why(f) ELSE "todo")
    BY <1>2 DEF FetchCrashes
  <2>2. QED
    BY <2>1 DEF Crash, Why, Handled
<1>3. QED
  BY <1>1, <1>2 DEF Proceed, Handled

LEMMA AuthenticationEnds ==
  ASSUME IInv, OInv, Ends, Auth \/ AuthWithDb \/ AuthBadName \/ AuthShort
  PROVE  Ends'
<1>1. CASE Auth
  BY <1>1, HandlerEnds DEF Auth, Proceed, Handled
<1>2. CASE AuthWithDb
  <2>1. Recv("auth", "AUTH_WITH_DB") /\ Connect("auth_reply")
    BY <1>2 DEF AuthWithDb
  <2>2. Handled("AUTH_WITH_DB")
    BY <2>1, ConnectHandled
  <2>3. QED
    BY <2>1, <2>2, HandlerEnds
<1>3. CASE AuthBadName
  BY <1>3, HandlerEnds DEF AuthBadName, Crash, Handled
<1>4. CASE AuthShort
  BY <1>4, HandlerEnds DEF AuthShort, Crash, Handled
<1>5. QED
  BY <1>1, <1>2, <1>3, <1>4

LEMMA CommandEnds ==
  ASSUME IInv, OInv, Ends, Quit \/ InitDb \/ SetOption \/ Unsupported
  PROVE  Ends'
<1>1. CASE Quit
  BY <1>1, HandlerEnds DEF Quit, Proceed, Handled
<1>2. CASE InitDb
  <2>1. Recv("command", "INIT_DB") /\ Connect("reply")
    BY <1>2 DEF InitDb
  <2>2. Handled("INIT_DB")
    BY <2>1, ConnectHandled
  <2>3. QED
    BY <2>1, <2>2, HandlerEnds
<1>3. CASE SetOption
  BY <1>3, HandlerEnds DEF SetOption, Proceed, Handled
<1>4. CASE Unsupported
  BY <1>4, HandlerEnds DEF Unsupported, Crash, Handled
<1>5. QED
  BY <1>1, <1>2, <1>3, <1>4

LEMMA LocalQueryEnds ==
  ASSUME IInv, OInv, Ends, SetNames \/ SetNamesOther \/ LimitUnbounded \/ Malformed
  PROVE  Ends'
<1>1. CASE SetNames
  BY <1>1, HandlerEnds DEF SetNames, Proceed, Handled
<1>2. CASE SetNamesOther
  BY <1>2, HandlerEnds DEF SetNamesOther, Crash, Handled
<1>3. CASE LimitUnbounded
  BY <1>3, HandlerEnds DEF LimitUnbounded, Proceed, Handled
<1>4. CASE Malformed
  BY <1>4, HandlerEnds DEF Malformed, Crash, Handled
<1>5. QED
  BY <1>1, <1>2, <1>3, <1>4

LEMMA DatabaseQueryEnds ==
  ASSUME IInv, OInv, Ends, Describe \/ ShowTables \/ Statement
  PROVE  Ends'
<1>1. CASE Describe
  <2>1. Recv("command", "DESCRIBE") /\ (ExecCrashes \/ FetchCrashes \/ Proceed("reply"))
    BY <1>1 DEF Describe
  <2>2. QED
    BY <2>1, QueryHandled, HandlerEnds
<1>2. CASE ShowTables
  <2>1. Recv("command", "SHOW_TABLES") /\ (ExecCrashes \/ FetchCrashes \/ Proceed("reply"))
    BY <1>2 DEF ShowTables
  <2>2. QED
    BY <2>1, QueryHandled, HandlerEnds
<1>3. CASE Statement
  <2>1. Recv("command", "STATEMENT")
    BY <1>3 DEF Statement
  <2>2. PICK o \in ExecDirect :
          Crash(Why(o)) \/ Crash("null_status") \/ Crash("todo") \/ Proceed("reply")
    BY <1>3 DEF Statement
  <2>3. Handled("STATEMENT")
    BY <2>2 DEF Crash, Why, Proceed, Handled
  <2>4. QED
    BY <2>1, <2>3, HandlerEnds
<1>4. QED
  BY <1>1, <1>2, <1>3

LEMMA AnswerEnds ==
  ASSUME IInv, OInv, Ends, SendHandshake \/ AuthReply \/ Reply
  PROVE  Ends'
<1>1. CASE SendHandshake
  <2>1. /\ process = "up" /\ pc = "handshake" /\ pc' = "auth" /\ UNCHANGED <<peer, toServer>>
        /\ client \in {"connecting", "closed"}
    BY <1>1 DEF SendHandshake, Proceed, OInv, Phases
  <2>2. client = "connecting" => toClient' # <<>>
    <3>1. SUFFICES ASSUME client = "connecting" PROVE toClient' # <<>>
      OBVIOUS
    <3>2. PICK p : toClient' = Append(toClient, p)
      BY <1>1, <3>1 DEF SendHandshake, Send
    <3>3. toClient = <<>>
      BY <2>1, <3>1 DEF OInv, Phases
    <3>4. QED
      BY <3>2, <3>3
  <2>3. QED
    BY <2>1, <2>2 DEF Ends, OnlyTalkersWait, Greeted, QuitTaken, QuitOnItsWay, Talking, peer
<1>2. CASE AuthReply \/ Reply
  <2>1. /\ process = "up" /\ pc \in {"auth_reply", "reply"} /\ pc' = "command"
        /\ UNCHANGED <<peer, toServer>>
    BY <1>2 DEF AuthReply, Reply, Proceed
  <2>2. client # "connecting"
    BY <2>1 DEF OInv, Phases
  <2>3. QED
    BY <2>1, <2>2 DEF Ends, OnlyTalkersWait, Greeted, QuitTaken, QuitOnItsWay, Talking, peer
<1>3. QED
  BY <1>1, <1>2

LEMMA StoppingEnds ==
  ASSUME Ends, ReplyWithoutStatus \/ SendFails \/ ShortRead
  PROVE  Ends'
<1>1. process' # "up" /\ UNCHANGED peer
  BY DEF ReplyWithoutStatus, SendFails, ShortRead, Crash
<1>2. QED
  BY <1>1 DEF Ends, OnlyTalkersWait, Greeted, QuitTaken, QuitOnItsWay, Talking, peer

LEMMA CloseEnds ==
  ASSUME Ends, Close
  PROVE  Ends'
<1>1. process = "up" /\ pc = "close" /\ UNCHANGED <<peer, toServer, toClient>>
  BY DEF Close
<1>2. PICK o : Crash(Why(o)) \/ Proceed("exited")
  BY DEF Close
<1>3. process' # "up" \/ (process' = "up" /\ pc' = "exited")
  BY <1>2 DEF Crash, Why, Proceed
<1>4. QED
  BY <1>1, <1>3 DEF Ends, OnlyTalkersWait, Greeted, QuitTaken, QuitOnItsWay, Talking, peer

LEMMA ClientEnds ==
  ASSUME IInv, OInv, Ends, ClientStep
  PROVE  Ends'
<1>1. process' = process /\ pc' = pc
  BY DEF ClientStep, ClientAuth, ClientCommand, ClientReads, ClientCloses, worker
<1>2. ASSUME NEW r \in Request, ClientAuth(r)
      PROVE  Ends'
  <2>1. client = "greeted" /\ client' = "authenticating"
    BY <1>2 DEF ClientAuth
  <2>2. QED
    BY <1>1, <2>1 DEF Ends, OnlyTalkersWait, Greeted, QuitTaken, QuitOnItsWay, Talking
<1>3. ASSUME NEW r \in Request, ClientCommand(r)
      PROVE  Ends'
  <2>1. /\ client = "ready" /\ client' \in {"ready", "quitting"}
        /\ client' = "quitting" => r.kind = "QUIT"
        /\ toServer' = Append(toServer, r)
    BY <1>3 DEF ClientCommand
  <2>2. toServer' # <<>> /\ toServer'[Len(toServer')] = r
    <3>1. toServer \in Seq(Request) /\ Len(toServer) \in Nat
      BY LenProperties DEF IInv, TypeOK
    <3>2. Len(toServer') = Len(toServer) + 1 /\ toServer'[Len(toServer) + 1] = r
      BY <2>1, <3>1, AppendProperties
    <3>3. toServer' \in Seq(Request) /\ Len(toServer') # 0
      BY <2>1, <3>1, <3>2, AppendProperties
    <3>4. QED
      BY <3>2, <3>3, EmptySeq
  <2>3. QED
    BY <1>1, <2>1, <2>2 DEF Ends, OnlyTalkersWait, Greeted, QuitTaken, QuitOnItsWay, Talking
<1>4. CASE ClientReads
  <2>1. /\ toServer' = toServer
        /\ \/ client = "connecting" /\ client' = "greeted" /\ outstanding' = outstanding
           \/ client = "authenticating" /\ client' = "ready"
           \/ client \in {"ready", "quitting"} /\ client' = client
    BY <1>4 DEF ClientReads
  <2>2. QED
    BY <1>1, <2>1 DEF Ends, OnlyTalkersWait, Greeted, QuitTaken, QuitOnItsWay, Talking
<1>5. CASE ClientCloses
  <2>1. toServer' = toServer /\ client' = "closed" /\ outstanding' = <<>>
    BY <1>5 DEF ClientCloses
  <2>2. QED
    BY <1>1, <2>1 DEF Ends, OnlyTalkersWait, Greeted, QuitTaken, QuitOnItsWay, Talking
<1>6. QED
  BY <1>2, <1>3, <1>4, <1>5 DEF ClientStep

LEMMA NextEnds == IInv /\ OInv /\ Ends /\ [Next]_vars => Ends'
<1> SUFFICES ASSUME IInv, OInv, Ends, [Next]_vars PROVE Ends'
  OBVIOUS
<1>1. CASE WorkerStep
  BY <1>1, AuthenticationEnds, CommandEnds, LocalQueryEnds, DatabaseQueryEnds, AnswerEnds,
     StoppingEnds, CloseEnds DEF WorkerStep
<1>2. CASE ClientStep
  BY <1>2, ClientEnds
<1>3. CASE UNCHANGED vars
  BY <1>3 DEF vars, peer, Ends, OnlyTalkersWait, Greeted, QuitTaken, QuitOnItsWay, Talking
<1>4. QED
  BY <1>1, <1>2, <1>3 DEF Next

\* A request the client waits for has a place, and none of the places is one
\* where it stays: the worker is never in recv() with nothing on its way
\* while the client waits.
THEOREM NobodyWaitsForNobody == Spec => []NoMutualWait
<1>1. Init => Ends
  BY DEF Init, Ends, OnlyTalkersWait, Greeted, QuitTaken, QuitOnItsWay, Talking
<1>2. IInv /\ OInv /\ Ends => NoMutualWait
  <2> SUFFICES ASSUME IInv, OInv, Ends, process = "up" PROVE NoMutualWait
    BY DEF NoMutualWait
  <2>1. client = "connecting" => pc = "handshake" \/ toClient # <<>>
    BY DEF Ends, Greeted
  <2>2. client = "quitting" =>
          \/ pc \in {"close", "exited"}
          \/ toServer # <<>> /\ toServer[Len(toServer)].kind = "QUIT"
    BY DEF Ends, QuitOnItsWay
  <2>3. ASSUME outstanding # <<>>, toClient = <<>>, pc \notin {"auth_reply", "reply"}
        PROVE  pc \in {"auth", "command"} /\ toServer # <<>>
    <3>1. Talking
      BY <2>3 DEF Ends, OnlyTalkersWait
    <3>2. Len(outstanding) = Len(toClient) + InHand + (Len(toServer) - Unanswered(toServer))
      BY <3>1 DEF OInv, Order, Lined
    <3>3. Len(toClient) = 0 /\ InHand = 0
      BY <2>3 DEF InHand
    <3>4. Len(outstanding) \in Nat /\ Len(outstanding) # 0
      BY <2>3, LenProperties, EmptySeq DEF IInv, TypeOK
    <3>5. toServer # <<>>
      <4>1. SUFFICES ASSUME toServer = <<>> PROVE FALSE
        OBVIOUS
      <4>2. Len(toServer) = 0 /\ Unanswered(toServer) = 0
        BY <4>1 DEF Unanswered
      <4>3. QED
        BY <3>2, <3>3, <3>4, <4>2
    <3>6. pc \notin {"close", "exited"}
      BY <3>5 DEF Ends, QuitTaken
    <3>7. pc # "handshake"
      BY <3>1 DEF Talking, OInv, Phases
    <3>8. QED
      BY <2>3, <3>5, <3>6, <3>7 DEF IInv, TypeOK
  <2>4. QED
    BY <2>1, <2>2, <2>3 DEF NoMutualWait
<1>3. QED
  BY <1>1, <1>2, NextEnds, SessionInvariance, OrderInvariance, PTL DEF Spec

-----------------------------------------------------------------------------
(* What ends the server.                                                   *)

\* Only a connect that fails leaves no status for its answer.
StatusMissing ==
  process = "up" /\ pc = "reply" /\ status = NULL => xfer_buffer.kind = "INIT_DB"

\* The worker closes the connection for the COM_QUIT it has in hand.
QuitInHand == process = "up" /\ pc = "close" => xfer_buffer.kind = "QUIT"

Accounts == EndsOnItsOwnAccount /\ StatusMissing /\ QuitInHand

DatabaseKinds == {"INIT_DB", "DESCRIBE", "SHOW_TABLES", "STATEMENT"}

\* What a handler owes besides.
LEMMA HandlerAccounts ==
  ASSUME IInv, NEW from, NEW kind, Recv(from, kind),
         process' = "null_status" => kind \in DatabaseKinds,
         process' \in {"unmapped_info", "unmapped_error", "todo"} =>
           kind \in DatabaseKinds \cup {"AUTH_WITH_DB"},
         process' \in {"unmapped_info", "todo"} => connected',
         process' \in {"unsupported", "access_violation", "verify"} => kind \in Hopeless,
         process' = "up" /\ pc' = "reply" /\ status' = NULL => kind = "INIT_DB",
         process' = "up" /\ pc' = "close" => kind = "QUIT"
  PROVE  Accounts'
<1>1. xfer_buffer'.kind = kind /\ xfer_buffer' # NULL
  BY RecvFacts
<1>2. DatabaseKinds \cup {"AUTH_WITH_DB"} \subseteq AsksServer
      /\ DatabaseKinds \subseteq AsksServer \ {"AUTH_WITH_DB", "QUIT"}
  BY DEF DatabaseKinds, AsksServer
<1>3. QED
  BY <1>1, <1>2 DEF Accounts, EndsOnItsOwnAccount, StatusMissing, QuitInHand

LEMMA ConnectAccounts ==
  ASSUME NEW to, Connect(to)
  PROVE  /\ process' \in {"up", "unmapped_info", "unmapped_error"}
         /\ process' = "unmapped_info" => connected'
         /\ process' = "up" => pc' = to
<1>1. PICK o \in DriverConnect :
        /\ connected' = (connected \/ o.rc # "SQL_ERROR")
        /\ Crash(Why(o)) \/ Proceed(to)
  BY DEF Connect
<1>2. QED
  BY <1>1 DEF Crash, Why, Proceed

\* A command finds the status that the one before it had reset.
LEMMA IdleStatusThere ==
  ASSUME OInv, process = "up", pc = "command"
  PROVE  status # NULL
BY SessionAssumption DEF OInv, StatusFits, TableCodes, SuccessCodes

LEMMA AuthenticationAccounts ==
  ASSUME IInv, OInv, Auth \/ AuthWithDb \/ AuthBadName \/ AuthShort
  PROVE  Accounts'
<1>1. CASE Auth
  BY <1>1, HandlerAccounts DEF Auth, Proceed
<1>2. CASE AuthWithDb
  <2>1. Recv("auth", "AUTH_WITH_DB") /\ Connect("auth_reply")
    BY <1>2 DEF AuthWithDb
  <2>2. QED
    BY <2>1, ConnectAccounts, HandlerAccounts
<1>3. CASE AuthBadName
  BY <1>3, HandlerAccounts DEF AuthBadName, Crash, Hopeless
<1>4. CASE AuthShort
  BY <1>4, HandlerAccounts DEF AuthShort, Crash, Hopeless
<1>5. QED
  BY <1>1, <1>2, <1>3, <1>4

LEMMA CommandAccounts ==
  ASSUME IInv, OInv, Quit \/ InitDb \/ SetOption \/ Unsupported
  PROVE  Accounts'
<1>1. CASE Quit
  BY <1>1, HandlerAccounts DEF Quit, Proceed
<1>2. CASE InitDb
  <2>1. Recv("command", "INIT_DB") /\ Connect("reply")
    BY <1>2 DEF InitDb
  <2>2. QED
    BY <2>1, ConnectAccounts, HandlerAccounts DEF DatabaseKinds
<1>3. CASE SetOption
  <2>1. Recv("command", "SET_OPTION") /\ Proceed("reply") /\ status' = status
    BY <1>3 DEF SetOption
  <2>2. status' # NULL
    BY <2>1, IdleStatusThere DEF Recv
  <2>3. QED
    BY <2>1, <2>2, HandlerAccounts DEF Proceed
<1>4. CASE Unsupported
  BY <1>4, HandlerAccounts DEF Unsupported, Crash, Hopeless
<1>5. QED
  BY <1>1, <1>2, <1>3, <1>4

LEMMA LocalQueryAccounts ==
  ASSUME IInv, OInv, SetNames \/ SetNamesOther \/ LimitUnbounded \/ Malformed
  PROVE  Accounts'
<1>1. CASE SetNames
  <2>1. Recv("command", "SET_NAMES") /\ Proceed("reply") /\ status' = status
    BY <1>1 DEF SetNames
  <2>2. status' # NULL
    BY <2>1, IdleStatusThere DEF Recv
  <2>3. QED
    BY <2>1, <2>2, HandlerAccounts DEF Proceed
<1>2. CASE SetNamesOther
  BY <1>2, HandlerAccounts DEF SetNamesOther, Crash, Hopeless
<1>3. CASE LimitUnbounded
  <2>1. Recv("command", "LIMIT_UNBOUNDED") /\ Proceed("reply") /\ status' = FXMY_ERROR_DEFAULT
    BY <1>3 DEF LimitUnbounded
  <2>2. status' # NULL
    BY <2>1, SessionAssumption DEF TableCodes, ErrorCodes, FXMY_ERROR_DEFAULT
  <2>3. QED
    BY <2>1, <2>2, HandlerAccounts DEF Proceed
<1>4. CASE Malformed
  BY <1>4, HandlerAccounts DEF Malformed, Crash, Hopeless
<1>5. QED
  BY <1>1, <1>2, <1>3, <1>4

\* DESCRIBE and SHOW TABLES come to a row only over a connection.
LEMMA CrashAccounts ==
  ASSUME IInv, NEW kind \in DatabaseKinds, Recv("command", kind),
         ExecCrashes \/ FetchCrashes
  PROVE  Accounts'
<1>1. CASE ExecCrashes
  BY <1>1, HandlerAccounts DEF ExecCrashes, Crash
<1>2. CASE FetchCrashes
  <2>1. PICK o \in ExecDirect : Succeeded(Exec(o))
    BY <1>2 DEF FetchCrashes
  <2>2. PICK f \in Fetch : Crash(IF Breaks(f) THEN Why(f) ELSE "todo")
    BY <1>2 DEF FetchCrashes
  <2>3. connected' = connected
    BY <1>2 DEF FetchCrashes, odbc
  <2>4. connected'
    BY <2>1, <2>3, NoHandleNoStatus, NullStatus DEF IInv, TypeOK
  <2>5. process' \in {"unmapped_info", "unmapped_error", "todo"}
    BY <2>2 DEF Crash, Why
  <2>6. QED
    BY <2>4, <2>5, HandlerAccounts
<1>3. QED
  BY <1>1, <1>2

LEMMA DatabaseQueryAccounts ==
  ASSUME IInv, OInv, Describe \/ ShowTables \/ Statement
  PROVE  Accounts'
<1>1. CASE Describe
  <2>1. Recv("command", "DESCRIBE")
    BY <1>1 DEF Describe
  <2>2. CASE ExecCrashes \/ FetchCrashes
    BY <2>1, <2>2, CrashAccounts DEF DatabaseKinds
  <2>3. CASE ~(ExecCrashes \/ FetchCrashes)
    <3>1. Proceed("reply") /\ status' # NULL
      BY <1>1, <2>3 DEF Describe
    <3>2. QED
      BY <2>1, <3>1, HandlerAccounts DEF Proceed
  <2>4. QED
    BY <2>2, <2>3
<1>2. CASE ShowTables
  <2>1. Recv("command", "SHOW_TABLES")
    BY <1>2 DEF ShowTables
  <2>2. CASE ExecCrashes \/ FetchCrashes
    BY <2>1, <2>2, CrashAccounts DEF DatabaseKinds
  <2>3. CASE ~(ExecCrashes \/ FetchCrashes)
    <3>1. Proceed("reply") /\ (status' = FXMY_OK \/ status' = status)
      BY <1>2, <2>3 DEF ShowTables
    <3>2. status # NULL
      BY <2>1, IdleStatusThere DEF Recv
    <3>3. FXMY_OK # NULL
      BY SessionAssumption DEF TableCodes, SuccessCodes
    <3>4. QED
      BY <2>1, <3>1, <3>2, <3>3, HandlerAccounts DEF Proceed
  <2>4. QED
    BY <2>2, <2>3
<1>3. CASE Statement
  <2>1. Recv("command", "STATEMENT") /\ connected' = connected
    BY <1>3 DEF Statement, odbc
  <2>2. PICK o \in ExecDirect :
          \/ Breaks(o) /\ Crash(Why(o))
          \/ Crash("null_status")
          \/ Succeeded(StatusOf(o)) /\ Crash("todo")
          \/ Failed(StatusOf(o)) /\ Proceed("reply") /\ status' = StatusOf(o)
    BY <1>3 DEF Statement
  <2>3. Breaks(o) \/ Succeeded(StatusOf(o)) => connected
    <3>1. SUFFICES ASSUME ~connected PROVE ~Breaks(o) /\ ~Succeeded(StatusOf(o))
      OBVIOUS
    <3>2. o = InvalidHandle
      BY <3>1 DEF ExecDirect
    <3>3. ~Breaks(o)
      BY <3>2 DEF InvalidHandle, Outcome, Breaks
    <3>4. QED
      BY <3>2, <3>3, InvalidHandleStatus, NullStatus
  <2>4. CASE Breaks(o) /\ Crash(Why(o))
    BY <2>1, <2>3, <2>4, HandlerAccounts DEF Crash, Why, DatabaseKinds
  <2>5. CASE Crash("null_status")
    BY <2>1, <2>5, HandlerAccounts DEF Crash, DatabaseKinds
  <2>6. CASE Succeeded(StatusOf(o)) /\ Crash("todo")
    BY <2>1, <2>3, <2>6, HandlerAccounts DEF Crash, DatabaseKinds
  <2>7. CASE Failed(StatusOf(o)) /\ Proceed("reply") /\ status' = StatusOf(o)
    <3>1. status' # NULL
      BY <2>7, NullStatus
    <3>2. QED
      BY <2>1, <2>7, <3>1, HandlerAccounts DEF Proceed
  <2>8. QED
    BY <2>2, <2>4, <2>5, <2>6, <2>7
<1>4. QED
  BY <1>1, <1>2, <1>3

LEMMA AnswerAccounts ==
  ASSUME SendHandshake \/ AuthReply \/ Reply
  PROVE  Accounts'
<1>1. process' = "up" /\ pc' \in {"auth", "command"}
  BY DEF SendHandshake, AuthReply, Reply, Proceed
<1>2. QED
  BY <1>1 DEF Accounts, EndsOnItsOwnAccount, StatusMissing, QuitInHand

LEMMA StoppingAccounts ==
  ASSUME IInv, Accounts, ReplyWithoutStatus \/ SendFails \/ ShortRead
  PROVE  Accounts'
<1>1. CASE ReplyWithoutStatus
  <2>1. process' = "null_status" /\ xfer_buffer' = xfer_buffer
    BY <1>1 DEF ReplyWithoutStatus, Crash, buffers
  <2>2. xfer_buffer.kind = "INIT_DB" /\ xfer_buffer # NULL
    BY <1>1 DEF ReplyWithoutStatus, Accounts, StatusMissing, IInv, BufferHandOff
  <2>3. QED
    BY <2>1, <2>2 DEF Accounts, EndsOnItsOwnAccount, StatusMissing, QuitInHand, AsksServer
<1>2. CASE SendFails
  <2>1. process' = "verify" /\ client' = "closed"
    BY <1>2 DEF SendFails, Crash, peer
  <2>2. QED
    BY <2>1 DEF Accounts, EndsOnItsOwnAccount, StatusMissing, QuitInHand
<1>3. CASE ShortRead
  <2>1. /\ process' = "verify" /\ UNCHANGED <<xfer_buffer, client, toServer>>
        /\ toServer # <<>> \/ client = "closed"
        /\ xfer_buffer = NULL
    BY <1>3 DEF ShortRead, Crash, buffers, peer, IInv, BufferHandOff
  <2>2. QED
    BY <2>1 DEF Accounts, EndsOnItsOwnAccount, StatusMissing, QuitInHand
<1>4. QED
  BY <1>1, <1>2, <1>3

\* SQLDisconnect is refused without a native code that could end the server.
LEMMA CloseAccounts ==
  ASSUME IInv, Accounts, Close
  PROVE  Accounts'
<1>1. PICK o \in IF connected THEN {Success} \cup Infos ELSE {Refused} :
        \/ Breaks(o) /\ Crash(Why(o)) /\ UNCHANGED odbc
        \/ Proceed("exited")
  BY DEF Close
<1>2. CASE Proceed("exited")
  BY <1>2 DEF Proceed, Accounts, EndsOnItsOwnAccount, StatusMissing, QuitInHand
<1>3. CASE Breaks(o) /\ Crash(Why(o)) /\ UNCHANGED odbc
  <2>1. connected
    <3>1. ~Breaks(Refused)
      BY DEF Refused, Outcome, Breaks, TableCodes, SuccessCodes, FXMY_OK
    <3>2. QED
      BY <1>1, <1>3, <3>1
  <2>2. o.rc \in {"SQL_SUCCESS", "SQL_SUCCESS_WITH_INFO"} /\ o # Success
    <3>1. ~Breaks(Success)
      BY DEF Success, Outcome, Breaks
    <3>2. QED
      BY <1>1, <1>3, <2>1, <3>1 DEF Success, Infos, Outcome
  <2>3. o.rc = "SQL_SUCCESS_WITH_INFO"
    BY <1>1, <2>1, <2>2 DEF Infos, Outcome
  <2>4. process' = "unmapped_info" /\ connected' = connected
    BY <1>3, <2>3 DEF Crash, Why, odbc
  <2>5. xfer_buffer' # NULL /\ xfer_buffer'.kind = "QUIT"
    BY DEF Close, buffers, IInv, BufferHandOff, Accounts, QuitInHand
  <2>6. QED
    BY <2>1, <2>4, <2>5
       DEF Accounts, EndsOnItsOwnAccount, StatusMissing, QuitInHand, AsksServer
<1>4. QED
  BY <1>1, <1>2, <1>3

LEMMA ClientAccounts ==
  ASSUME Accounts, ClientStep \/ UNCHANGED vars
  PROVE  Accounts'
<1>1. UNCHANGED <<process, pc, xfer_buffer, status, connected>>
  BY DEF ClientStep, ClientAuth, ClientCommand, ClientReads, ClientCloses, worker, vars,
     buffers, transient, odbc
<1>2. process = "verify" /\ client' # "closed" => client # "closed" /\ toServer' = toServer
  BY DEF ClientStep, ClientAuth, ClientCommand, ClientReads, ClientCloses, vars, peer
<1>3. QED
  BY <1>1, <1>2 DEF Accounts, EndsOnItsOwnAccount, StatusMissing, QuitInHand

\* The status is set for every answer before it is read, but for that of an
\* INIT_DB whose connect has failed, and the buffer is empty whenever a packet
\* may come in pieces: each end of the server, the failed VERIFYs, aborts and
\* access violations included, is that of the packet in hand or of the
\* connection it comes over, whatever the commands before it left.
THEOREM ServerEndsForACause == Spec => []EndsOnItsOwnAccount
<1>1. Init => Accounts
  BY DEF Init, Accounts, EndsOnItsOwnAccount, StatusMissing, QuitInHand
<1>2. IInv /\ OInv /\ Accounts /\ [Next]_vars => Accounts'
  BY AuthenticationAccounts, CommandAccounts, LocalQueryAccounts, DatabaseQueryAccounts,
     AnswerAccounts, StoppingAccounts, CloseAccounts, ClientAccounts DEF Next, WorkerStep
<1>3. Accounts => EndsOnItsOwnAccount
  BY DEF Accounts
<1>4. QED
  BY <1>1, <1>2, <1>3, SessionInvariance, OrderInvariance, PTL DEF Spec
=============================================================================
