-------------------------------- MODULE Odbc --------------------------------
(***************************************************************************)
(* How the server reads the outcome of an ODBC call: the status table of   *)
(* fxmy_error.c and fxmy_verify_and_log_odbc() of fxmy_main.c.             *)
(*                                                                         *)
(* A status is named by its native error code, the key of the table.  An   *)
(* outcome is what the call returned and the native codes of the           *)
(* diagnostic records SQLGetDiagRecA finds on the handle that the caller   *)
(* passed: there are none when that handle is not the one that was used.   *)
(***************************************************************************)
EXTENDS Integers, Sequences

CONSTANTS
  Natives,      \* native error codes a diagnostic record can carry
  NULL          \* the NULL status pointer

FXMY_OK            == 0
FXMY_ERROR_NO_DATA == -100
FXMY_ERROR_DEFAULT == 208

\* The two kinds of rows of fxmy_error_table: header 0 and header 0xFF.
SuccessCodes == {FXMY_OK, 5701, 5703}
ErrorCodes   == {FXMY_ERROR_NO_DATA, 102, 109, 110, 120, 121, 132, 134, 137,
                 139, 144, 148, 156, 178, 183, 189, 193, 201, 207, 208, 214, 216}
TableCodes   == SuccessCodes \cup ErrorCodes
Status       == TableCodes \cup {NULL}

header(s)    == IF s \in SuccessCodes THEN 0 ELSE 255
Succeeded(s) == s \in SuccessCodes      \* FXMY_SUCCEEDED of a status
Failed(s)    == s \in ErrorCodes        \* FXMY_FAILED of a status

-----------------------------------------------------------------------------
Outcome(r, d) == [rc |-> r, diags |-> d]

Diags == {<<n>> : n \in Natives} \cup {<<m, n>> : m, n \in Natives}

Success       == Outcome("SQL_SUCCESS", <<>>)
NoData        == Outcome("SQL_NO_DATA", <<>>)
InvalidHandle == Outcome("SQL_INVALID_HANDLE", <<>>)
\* The driver manager refuses the call in this state: its records have no
\* native code, which reads as 0.
Refused       == Outcome("SQL_ERROR", <<0>>)
Infos         == {Outcome("SQL_SUCCESS_WITH_INFO", d) : d \in Diags}
Errors        == {Outcome("SQL_ERROR", d) : d \in Diags}

\* fxmy_get_status breaks into the debugger, so ends the process, on the
\* first record whose code is not in the table.
Breaks(o) == \E i \in DOMAIN o.diags : o.diags[i] \notin TableCodes

StatusOf_Default(o) ==       \* seeded fault: no record read as a known error
  IF o.rc \in {"SQL_SUCCESS", "SQL_SUCCESS_WITH_INFO"} THEN FXMY_OK
  ELSE IF o.rc = "SQL_NO_DATA" THEN FXMY_ERROR_NO_DATA
  ELSE IF o.diags = <<>> THEN FXMY_ERROR_DEFAULT
  ELSE o.diags[Len(o.diags)]

\* The status of a call that does not break: the last record counts, and
\* there is no status at all when a failed call shows no record.
StatusOf(o) ==
  IF o.rc \in {"SQL_SUCCESS", "SQL_SUCCESS_WITH_INFO"} THEN FXMY_OK
  ELSE IF o.rc = "SQL_NO_DATA" THEN FXMY_ERROR_NO_DATA
  ELSE IF o.diags = <<>> THEN NULL
  ELSE o.diags[Len(o.diags)]
=============================================================================
