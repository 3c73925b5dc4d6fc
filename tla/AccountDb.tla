----------------------------- MODULE AccountDb ------------------------------
(***************************************************************************)
(* Database::ExcuteQuery of MFC_Server/Database.cpp: every worker runs its *)
(* query through the one statement handle hstmt, which Database::Connect   *)
(* opens before there is a worker and Database::Close frees while there    *)
(* still are some.  A step is one ODBC call.  The driver serialises single *)
(* calls on a handle, not the sequence that makes a query.                 *)
(***************************************************************************)
EXTENDS Naturals, FiniteSets

CONSTANTS
  Workers,
  Ids, Passwords,  \* what users type
  ZeroLow,         \* the strings whose first UTF-16 unit has a zero low byte
  MaxCalls,        \* bound: calls in a behaviour
  NoOne, NoCall, NoReply, Blank

ASSUME DbAssumption == /\ MaxCalls \in Nat
                       /\ Blank \notin Ids \cup Passwords
                       /\ NoOne \notin Workers
                       /\ NoReply \notin BOOLEAN

VARIABLES
  hstmt,     \* the statement handle: "none", "open" or "freed"
  accounts,  \* the rows <<id, pw>> of dbo.AccountInfo; id is the primary key
  param,     \* hstmt: whose string each of the two parameters is bound to
  cursor,    \* hstmt: the rows still to fetch, NoCall when no cursor is open
  col,       \* hstmt: whose buffers the two columns are bound to
  pc,        \* where each worker is in ExcuteQuery
  call,      \* its arguments
  ret,       \* its ret_id and ret_pw
  ok,        \* its result
  calls,     \* calls made so far
  mixed      \* history, which no guard reads: whose call in progress overlapped
             \* another one before its statement was executed

dbVars ==
  <<hstmt, accounts, param, cursor, col, pc, call, ret, ok, calls, mixed>>

Fields == {1, 2}
Strings == Ids \cup Passwords
Call == [type : {"LOGIN", "SIGNUP"}, id : Ids, pw : Passwords]
Closed == NoCall

ASSUME NullsAssumption ==
  /\ \A c \in Call : c # NoCall
  /\ \A rows \in SUBSET (Strings \X Strings) : rows # NoCall

\* Connect looks at the result of SQLConnect, not at that of SQLAllocHandle.
Init ==
  /\ hstmt \in {"open", "none"}
  /\ accounts = {} /\ cursor = Closed /\ calls = 0
  /\ param = [i \in Fields |-> NoOne]
  /\ col = [i \in Fields |-> NoOne]
  /\ pc = [w \in Workers |-> "idle"]
  /\ call = [w \in Workers |-> NoCall]
  /\ ret = [w \in Workers |-> [i \in Fields |-> Blank]]
  /\ ok = [w \in Workers |-> NoReply]
  /\ mixed = [w \in Workers |-> FALSE]

Goto(w, from, to) == pc[w] = from /\ pc' = [pc EXCEPT ![w] = to]

Waiting(w) == pc[w] \in {"bind1", "bind2", "exec"}

\* Nothing keeps two workers from being in ExcuteQuery at a time.
Begin(w) ==
  /\ calls < MaxCalls /\ calls' = calls + 1
  /\ Goto(w, "idle", "bind1")
  /\ \E c \in Call : call' = [call EXCEPT ![w] = c]
  /\ mixed' = [v \in Workers |->
                 IF v = w THEN \E u \in Workers \ {w} : pc[u] # "idle"
                 ELSE mixed[v] \/ Waiting(v)]
  /\ UNCHANGED <<hstmt, accounts, param, cursor, col, ret, ok>>

\* SQLBindParameter keeps the address of the caller's string.
Bind(w, i, from, to) ==
  /\ Goto(w, from, to)
  /\ param' = [param EXCEPT ![i] = w]
  /\ UNCHANGED <<hstmt, accounts, cursor, col, call, ret, ok, calls, mixed>>

BindId(w) == Bind(w, 1, "bind1", "bind2")
BindPw(w) == Bind(w, 2, "bind2", "exec")

\* What the driver reads at a bound address: the string of the call that bound
\* it, or anything when that call has returned.
Values(i) == LET w == param[i]
             IN  IF w = NoOne THEN Strings
                 ELSE {IF i = 1 THEN call[w].id ELSE call[w].pw}

Answer(w, result) == ok' = [ok EXCEPT ![w] = result]

\* Mutant of Select: the WHERE clause matches anything.
SelectAny(w, id, pw) ==
  /\ Goto(w, "exec", "bindCol1")
  /\ cursor' = {<<id, pw>>}
  /\ UNCHANGED <<accounts, ok>>

Select(w, id, pw) ==
  /\ Goto(w, "exec", "bindCol1")
  /\ cursor' = accounts \cap {<<id, pw>>}
  /\ UNCHANGED <<accounts, ok>>

\* A second row with the same id is refused by the primary key.
Insert(w, id, pw) ==
  LET taken == \E account \in accounts : account[1] = id
  IN  /\ Goto(w, "exec", "return") /\ Answer(w, ~taken)
      /\ accounts' = IF taken THEN accounts ELSE accounts \cup {<<id, pw>>}
      /\ UNCHANGED cursor

\* SQLExecDirect fails while the handle has an open cursor, and every call
\* fails on a handle that is none.
Exec(w) ==
  /\ pc[w] = "exec"
  /\ IF hstmt # "open" \/ cursor # Closed
     THEN Goto(w, "exec", "return") /\ Answer(w, FALSE)
          /\ UNCHANGED <<accounts, cursor>>
     ELSE \E id \in Values(1), pw \in Values(2) :
            IF call[w].type = "LOGIN" THEN Select(w, id, pw) ELSE Insert(w, id, pw)
  /\ UNCHANGED <<hstmt, param, col, call, ret, calls, mixed>>

BindCol(w, i, from, to) ==
  /\ Goto(w, from, to)
  /\ col' = [col EXCEPT ![i] = w]
  /\ UNCHANGED <<hstmt, accounts, param, cursor, call, ret, ok, calls, mixed>>

BindColId(w) == BindCol(w, 1, "bindCol1", "bindCol2")
BindColPw(w) == BindCol(w, 2, "bindCol2", "fetch")

\* Mutant of FetchRow: the cursor does not advance.
FetchRowAgain(w) ==
  /\ pc[w] = "fetch" /\ hstmt = "open" /\ cursor \notin {Closed, {}}
  /\ \E row \in cursor :
       ret' = [v \in Workers |-> [i \in Fields |->
                 IF col[i] = v THEN row[i] ELSE ret[v][i]]]
  /\ UNCHANGED <<hstmt, accounts, param, cursor, col, pc, call, ok, calls, mixed>>

\* SQLFetch copies the row to the bound buffers, whoever fetches.
FetchRow(w) ==
  /\ pc[w] = "fetch" /\ hstmt = "open" /\ cursor \notin {Closed, {}}
  /\ \E row \in cursor :
       /\ cursor' = cursor \ {row}
       /\ ret' = [v \in Workers |-> [i \in Fields |->
                    IF col[i] = v THEN row[i] ELSE ret[v][i]]]
  /\ UNCHANGED <<hstmt, accounts, param, col, pc, call, ok, calls, mixed>>

\* The loop ends on SQL_NO_DATA only.  With no open cursor, or no handle any
\* more, SQLFetch returns an error, and the worker fetches again.
FetchNoData(w) ==
  /\ hstmt = "open" /\ cursor = {}
  /\ Goto(w, "fetch", "close")
  /\ UNCHANGED <<hstmt, accounts, param, cursor, col, call, ret, ok, calls, mixed>>

\* strlen(ret_id) == 0 || strlen(ret_pw) == 0, of buffers with wide characters
StrlenZero(s) == s = Blank \/ s \in ZeroLow
Read(row) == \A i \in Fields : ~StrlenZero(row[i])

\* Mutant of CloseCursor: the cursor stays open.
LeaveCursor(w) ==
  /\ Goto(w, "close", "return")
  /\ Answer(w, Read(ret[w]))
  /\ UNCHANGED <<hstmt, accounts, param, cursor, col, call, ret, calls, mixed>>

CloseCursor(w) ==
  /\ Goto(w, "close", "return")
  /\ cursor' = Closed
  /\ Answer(w, Read(ret[w]))
  /\ UNCHANGED <<hstmt, accounts, param, col, call, ret, calls, mixed>>

\* The strings and buffers of the call are gone; hstmt still points to them.
Return(w) ==
  /\ Goto(w, "return", "idle")
  /\ call' = [call EXCEPT ![w] = NoCall]
  /\ Answer(w, NoReply)
  /\ ret' = [ret EXCEPT ![w] = [i \in Fields |-> Blank]]
  /\ param' = [i \in Fields |-> IF param[i] = w THEN NoOne ELSE param[i]]
  /\ col' = [i \in Fields |-> IF col[i] = w THEN NoOne ELSE col[i]]
  /\ mixed' = [mixed EXCEPT ![w] = FALSE]
  /\ UNCHANGED <<hstmt, accounts, cursor, calls>>

Step(w) == \/ BindId(w) \/ BindPw(w)
           \/ Exec(w) \/ BindColId(w) \/ BindColPw(w)
           \/ FetchRow(w) \/ FetchNoData(w) \/ CloseCursor(w) \/ Return(w)

\* Server::ShutdownServer calls it and has joined no worker.
Close ==
  /\ hstmt = "open" /\ hstmt' = "freed"
  /\ UNCHANGED <<accounts, param, cursor, col, pc, call, ret, ok, calls, mixed>>

Next == Close \/ \E w \in Workers : Begin(w) \/ Step(w)

Spec == Init /\ [][Next]_dbVars /\ \A w \in Workers : WF_dbVars(Step(w))

-----------------------------------------------------------------------------
TypeOK ==
  /\ hstmt \in {"none", "open", "freed"}
  /\ accounts \subseteq Strings \X Strings
  /\ param \in [Fields -> Workers \cup {NoOne}]
  /\ cursor = Closed \/ cursor \subseteq accounts
  /\ col \in [Fields -> Workers \cup {NoOne}]
  /\ pc \in [Workers -> {"idle", "bind1", "bind2", "exec", "bindCol1",
                         "bindCol2", "fetch", "close", "return"}]
  /\ call \in [Workers -> Call \cup {NoCall}]
  /\ ret \in [Workers -> [Fields -> Strings \cup {Blank}]]
  /\ ok \in [Workers -> BOOLEAN \cup {NoReply}]
  /\ calls \in 0 .. MaxCalls
  /\ mixed \in [Workers -> BOOLEAN]

\* The moment a call takes effect is the execution of its statement: from then
\* on a login's result is what its cursor found.
Found(w) == IF cursor \in {Closed, {}} THEN Read(ret[w])
                                      ELSE \E row \in cursor : Read(row)
Reading(w) == pc[w] \in {"bindCol1", "bindCol2", "fetch", "close"}
Reply(w) == IF Reading(w) THEN Found(w) ELSE ok[w]
replyOf == [w \in Workers |-> Reply(w)]

Store == INSTANCE AccountStore WITH Unreadable <- ZeroLow,
                                    down <- hstmt # "open",
                                    reply <- replyOf

\* Whatever queries overlap on the one statement handle, and whenever the
\* database is closed: a query during which no other one runs takes effect at
\* one moment and answers what the table holds then, also right after some that
\* overlapped, and the table keeps its key.  Two things are left open: what
\* queries that overlap answer, and whether a login is recognised whose id or
\* password has a zero low byte (Database.cpp:130).
IsAccountStore == Store!Spec

\* A login succeeds only for an id and a password that are in the table.
LoginRight ==
  \A w \in Workers :
    pc[w] = "return" /\ call[w].type = "LOGIN" /\ ok[w]
      => <<call[w].id, call[w].pw>> \in accounts

=============================================================================
