------------------------------ MODULE Storage -------------------------------
(***************************************************************************)
(* The repositories that the metadata and the rating service are built     *)
(* with: a map in the process ("memory", what the mains use) or a table of *)
(* MySQL (schema/schema.sql), and the two protocols they are called by.    *)
(***************************************************************************)
EXTENDS Naturals

CONSTANT Storages    \* the repositories to consider

ASSUME StoragesOK == Storages \subseteq {"memory", "mysql"}

VARIABLE storage     \* the one the services run on

Api == {"grpc", "http"}

\* The empty value of a request's field.
Empty == ""

\* The outcome of a call; the HTTP codes 200, 400, 404 and 500 go by the names
\* of the gRPC codes.
Status == {"none", "OK", "InvalidArgument", "NotFound", "Internal"}

\* What Exec and Query of database/sql may report besides success: the
\* statement failed, or the connection broke.  A map does not fail.
Failure == IF storage = "mysql" THEN {"Internal"} ELSE {}

\* What a Put may do: the rows it stores and the status it reports.  An INSERT of
\* a taken primary key is an error, and the error of a broken connection may
\* follow a row that was stored.
PutResult(taken) ==
  IF storage = "mysql" /\ taken
  THEN {[rows |-> 0, status |-> "Internal"]}
  ELSE {[rows |-> 1, status |-> "OK"]}
         \cup [rows : 0..1, status : Failure]
=============================================================================
