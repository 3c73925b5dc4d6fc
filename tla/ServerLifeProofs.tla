-------------------------- MODULE ServerLifeProofs --------------------------
(***************************************************************************)
(* Proofs about AccountDb and about ServerLife, which extends it: the      *)
(* types, whatever the workers do; that the queries implement              *)
(* AccountStore, however they overlap, also while the server starts and    *)
(* shuts down; and that the shutdown leaves at most one SocketInfo behind, *)
(* for every number of connections and whenever it begins.                 *)
(***************************************************************************)
EXTENDS ServerLife, FiniteSetTheorems, TLAPS

\* A parameter is bound to the string of a call that is under way, and the
\* columns to its buffers.
Bound == \A i \in Fields : /\ param[i] # NoOne => pc[param[i]] # "idle"
                           /\ \A w \in Workers : pc[w] # "idle" => call[w] \in Call

DbTypes == TypeOK /\ Bound

\* The types hold before the first query.
LEMMA InitTypes == Init => DbTypes
<1>1. Init => TypeOK
  BY DbAssumption DEF Init, TypeOK, Closed
<1>2. Init => Bound
  BY DEF Init, Bound
<1>3. QED
  BY <1>1, <1>2 DEF DbTypes

\* What the driver reads at a bound address is a string.
LEMMA ValuesAreStrings ==
  ASSUME DbTypes, NEW i \in Fields
  PROVE  Values(i) \subseteq Strings
<1>1. CASE param[i] = NoOne
  BY <1>1 DEF Values
<1>2. CASE param[i] # NoOne
  <2>1. param[i] \in Workers /\ call[param[i]] \in Call
    BY <1>2 DEF DbTypes, TypeOK, Bound
  <2>2. QED
    BY <1>2, <2>1 DEF Values, Call, Strings
<1>3. QED
  BY <1>1, <1>2

\* A new query keeps the types.
LEMMA BeginTypes ==
  ASSUME DbTypes, NEW w \in Workers, Begin(w) PROVE DbTypes'
<1>1. TypeOK'
  <2>1. pc' \in [Workers -> {"idle", "bind1", "bind2", "exec", "bindCol1",
                             "bindCol2", "fetch", "close", "return"}]
    BY DEF DbTypes, TypeOK, Begin, Goto
  <2>2. mixed' \in [Workers -> BOOLEAN]
    BY DEF DbTypes, TypeOK, Begin, Waiting
  <2>3. call' \in [Workers -> Call \cup {NoCall}] /\ calls' \in 0 .. MaxCalls
    BY DbAssumption DEF DbTypes, TypeOK, Begin
  <2>4. QED
    BY <2>1, <2>2, <2>3 DEF DbTypes, TypeOK, Begin, Closed
<1>2. Bound'
  BY DEF DbTypes, TypeOK, Bound, Begin, Goto
<1>3. QED
  BY <1>1, <1>2 DEF DbTypes

\* So do the two ways of binding.
LEMMA BindTypes ==
  ASSUME DbTypes, NEW w \in Workers,
         BindId(w) \/ BindPw(w) \/ BindColId(w) \/ BindColPw(w)
  PROVE  DbTypes'
<1>1. CASE BindId(w) \/ BindPw(w)
  <2>1. PICK i \in Fields : /\ param' = [param EXCEPT ![i] = w]
                            /\ \E to \in {"bind2", "exec"} :
                                 pc' = [pc EXCEPT ![w] = to]
                            /\ pc[w] \in {"bind1", "bind2"}
    BY <1>1 DEF BindId, BindPw, Bind, Goto, Fields
  <2>2. UNCHANGED <<hstmt, accounts, cursor, col, call, ret, ok, calls, mixed>>
    BY <1>1 DEF BindId, BindPw, Bind
  <2>3. TypeOK'
    BY <2>1, <2>2 DEF DbTypes, TypeOK
  <2>4. Bound'
    BY <2>1, <2>2, DbAssumption DEF DbTypes, TypeOK, Bound
  <2>5. QED
    BY <2>3, <2>4 DEF DbTypes
<1>2. CASE BindColId(w) \/ BindColPw(w)
  <2>1. PICK i \in Fields : /\ col' = [col EXCEPT ![i] = w]
                            /\ \E to \in {"bindCol2", "fetch"} :
                                 pc' = [pc EXCEPT ![w] = to]
                            /\ pc[w] \in {"bindCol1", "bindCol2"}
    BY <1>2 DEF BindColId, BindColPw, BindCol, Goto, Fields
  <2>2. UNCHANGED <<hstmt, accounts, param, cursor, call, ret, ok, calls, mixed>>
    BY <1>2 DEF BindColId, BindColPw, BindCol
  <2>3. TypeOK'
    BY <2>1, <2>2 DEF DbTypes, TypeOK
  <2>4. Bound'
    BY <2>1, <2>2 DEF DbTypes, TypeOK, Bound
  <2>5. QED
    BY <2>3, <2>4 DEF DbTypes
<1>3. QED
  BY <1>1, <1>2

\* A statement finds rows of the table, or adds one.
LEMMA ExecTypes ==
  ASSUME DbTypes, NEW w \in Workers, Exec(w) PROVE DbTypes'
<1>1. /\ pc[w] = "exec"
      /\ \E to \in {"return", "bindCol1"} : pc' = [pc EXCEPT ![w] = to]
      /\ UNCHANGED <<hstmt, param, col, call, ret, calls, mixed>>
  BY DEF Exec, Select, Insert, Goto
<1>2. /\ accounts' \subseteq Strings \X Strings
      /\ cursor' = Closed \/ cursor' \subseteq accounts'
      /\ ok' \in [Workers -> BOOLEAN \cup {NoReply}]
  <2>1. CASE hstmt # "open" \/ cursor # Closed
    BY <2>1 DEF Exec, Answer, DbTypes, TypeOK
  <2>2. CASE hstmt = "open" /\ cursor = Closed
    <3>1. PICK id \in Strings, pw \in Strings :
            Select(w, id, pw) \/ Insert(w, id, pw)
      BY <2>2, ValuesAreStrings DEF Exec, Fields
    <3>2. CASE Select(w, id, pw)
      <4>1. /\ accounts' = accounts /\ cursor' \subseteq accounts /\ ok' = ok
        BY <3>2 DEF Select
      <4>2. QED
        BY <4>1 DEF DbTypes, TypeOK
    <3>3. CASE Insert(w, id, pw)
      <4>1. /\ accounts' \in {accounts, accounts \cup {<<id, pw>>}}
            /\ cursor' = Closed
        BY <2>2, <3>3 DEF Insert
      <4>2. accounts' \subseteq Strings \X Strings
        BY <3>1, <4>1 DEF DbTypes, TypeOK
      <4>3. PICK result \in BOOLEAN : ok' = [ok EXCEPT ![w] = result]
        BY <3>3, Zenon DEF Insert, Answer
      <4>4. QED
        BY <4>1, <4>2, <4>3 DEF DbTypes, TypeOK
    <3>4. QED
      BY <3>1, <3>2, <3>3
  <2>3. QED
    BY <2>1, <2>2
<1>3. TypeOK'
  BY <1>1, <1>2 DEF DbTypes, TypeOK
<1>4. Bound'
  BY <1>1 DEF DbTypes, TypeOK, Bound
<1>5. QED
  BY <1>3, <1>4 DEF DbTypes

\* Fetching copies strings of the table to the buffers.
LEMMA FetchTypes ==
  ASSUME DbTypes, NEW w \in Workers, FetchRow(w) \/ FetchNoData(w)
  PROVE  DbTypes'
<1>1. CASE FetchRow(w)
  <2>1. PICK row \in cursor :
          /\ cursor' = cursor \ {row}
          /\ ret' = [v \in Workers |-> [i \in Fields |->
                       IF col[i] = v THEN row[i] ELSE ret[v][i]]]
    BY <1>1 DEF FetchRow
  <2>2. cursor # Closed
    BY <1>1 DEF FetchRow
  <2>3. cursor \subseteq accounts /\ row \in Strings \X Strings
    BY <2>1, <2>2 DEF DbTypes, TypeOK
  <2>4. ret' \in [Workers -> [Fields -> Strings \cup {Blank}]]
    BY <2>1, <2>3 DEF DbTypes, TypeOK, Fields
  <2>5. QED
    BY <1>1, <2>1, <2>3, <2>4 DEF FetchRow, DbTypes, TypeOK, Bound
<1>2. CASE FetchNoData(w)
  BY <1>2 DEF FetchNoData, Goto, DbTypes, TypeOK, Bound
<1>3. QED
  BY <1>1, <1>2

\* The end of a query unbinds what it had bound.
LEMMA EndTypes ==
  ASSUME DbTypes, NEW w \in Workers, CloseCursor(w) \/ Return(w)
  PROVE  DbTypes'
<1>1. CASE CloseCursor(w)
  <2>1. Read(ret[w]) \in BOOLEAN
    BY DEF Read
  <2>2. TypeOK'
    BY <1>1, <2>1 DEF CloseCursor, Goto, Answer, DbTypes, TypeOK
  <2>3. Bound'
    BY <1>1 DEF CloseCursor, Goto, DbTypes, TypeOK, Bound
  <2>4. QED
    BY <2>2, <2>3 DEF DbTypes
<1>2. CASE Return(w)
  <2>1. TypeOK'
    BY <1>2 DEF Return, Goto, Answer, DbTypes, TypeOK
  <2>2. Bound'
    BY <1>2 DEF Return, Goto, DbTypes, TypeOK, Bound
  <2>3. QED
    BY <2>1, <2>2 DEF DbTypes
<1>3. QED
  BY <1>1, <1>2

\* Closing the database, and a stutter, change the handle at most.
LEMMA CloseTypes == DbTypes /\ (Close \/ UNCHANGED dbVars) => DbTypes'
BY DEF Close, dbVars, DbTypes, TypeOK, Bound

\* Every step keeps the types.
LEMMA NextTypes == DbTypes /\ [Next]_dbVars => DbTypes'
BY BeginTypes, BindTypes, ExecTypes, FetchTypes, EndTypes, CloseTypes
DEF Next, Step

\* The types hold in every state, also when queries overlap on the one handle.
THEOREM DbTypeCorrect == Spec => []TypeOK
<1>1. DbTypes => TypeOK
  BY DEF DbTypes
<1>2. QED
  BY <1>1, InitTypes, NextTypes, PTL DEF Spec

-----------------------------------------------------------------------------
(* Every step of AccountDb is a step of AccountStore or changes nothing    *)
(* there.  Queries may overlap; what holds them together is the cursor:    *)
(* SQLExecDirect fails while one is open, so whoever reads reads alone.    *)

OneReader == \A v, w \in Workers : Reading(v) /\ Reading(w) => v = w

NoCursor == (\A w \in Workers : ~Reading(w)) => cursor = Closed

\* A query that has overlapped no other one is the only one.
ByItself == \A w \in Workers : Waiting(w) /\ ~mixed[w]
              => \A v \in Workers \ {w} : pc[v] = "idle"

Idle(w) == pc[w] = "idle" => call[w] = NoCall

NotAnswered(w) == pc[w] # "return" => ok[w] = NoReply

Answered(w) == pc[w] = "return" => ok[w] \in BOOLEAN

Buffers(w) ==
  pc[w] \notin {"fetch", "close", "return"} => \A i \in Fields : ret[w][i] = Blank

\* What a query by itself has bound stays bound.
Params(w) == ~mixed[w] => /\ pc[w] \in {"bind2", "exec"} => param[1] = w
                          /\ pc[w] = "exec" => param[2] = w

Columns(w) == /\ pc[w] \in {"bindCol2", "fetch"} => col[1] = w
              /\ pc[w] = "fetch" => col[2] = w

\* The cursor of a login has at most one row.
Rows(w) ==
  /\ Reading(w) => /\ cursor # Closed
                   /\ \E row \in Strings \X Strings : cursor \subseteq {row}
  /\ pc[w] = "close" => cursor = {}

WorkerInv(w) == /\ Idle(w) /\ NotAnswered(w) /\ Answered(w)
                /\ Buffers(w) /\ Params(w) /\ Columns(w) /\ Rows(w)

HandleInv == /\ DbTypes /\ OneReader /\ NoCursor /\ ByItself
             /\ \A w \in Workers : WorkerInv(w)

\* Before the first query there is none.
LEMMA InitHandle == Init => HandleInv
<1>1. Init => DbTypes
  BY InitTypes
<1>2. Init => OneReader /\ NoCursor /\ ByItself
  BY DEF Init, OneReader, NoCursor, ByItself, Reading, Waiting, Closed
<1>3. ASSUME Init, NEW w \in Workers PROVE WorkerInv(w)
  BY <1>3 DEF Init, WorkerInv, Idle, NotAnswered, Answered, Buffers, Params,
              Columns, Rows, Reading, Fields
<1>4. QED
  BY <1>1, <1>2, <1>3 DEF HandleInv

\* A step of w leaves to another worker what is its own: the cursor while it
\* reads, and the columns it has bound.
Leaves(w, v) ==
  /\ pc'[v] = pc[v] /\ call'[v] = call[v] /\ ok'[v] = ok[v] /\ ret'[v] = ret[v]
  /\ Waiting(v) => mixed'[v]
  /\ Reading(v) => /\ cursor' = cursor
                   /\ \A i \in Fields : col[i] = v => col'[i] = v

\* While a worker is in a query, every other one that waits has overlapped it.
LEMMA Overlapped ==
  ASSUME HandleInv, NEW w \in Workers, NEW v \in Workers \ {w},
         pc[w] # "idle", Waiting(v)
  PROVE  mixed[v]
BY DEF HandleInv, ByItself

\* What a step leaves to a worker keeps what the invariant says of it.
LEMMA LeftKeeps ==
  ASSUME HandleInv, NEW w \in Workers, NEW v \in Workers \ {w}, Leaves(w, v)
  PROVE  /\ WorkerInv(v)'
         /\ Reading(v)' = Reading(v) /\ Waiting(v)' = Waiting(v)
         /\ Reply(v)' = Reply(v)
<1>1. Reading(v)' = Reading(v) /\ Waiting(v)' = Waiting(v)
  BY DEF Leaves, Reading, Waiting
<1>2. WorkerInv(v)
  BY DEF HandleInv
<1>3. /\ Idle(v)' /\ NotAnswered(v)' /\ Answered(v)' /\ Buffers(v)'
  BY <1>2 DEF Leaves, WorkerInv, Idle, NotAnswered, Answered, Buffers
<1>4. Params(v)'
  BY DEF Leaves, Params, Waiting
<1>5. Columns(v)' /\ Rows(v)'
  BY <1>1, <1>2 DEF Leaves, WorkerInv, Columns, Rows, Reading, Fields, Closed
<1>6. Reading(v) => Found(v)' = Found(v)
  BY DEF Leaves, Found, Read, StrlenZero, Closed
<1>7. Reply(v)' = Reply(v)
  BY <1>1, <1>6, Zenon DEF Leaves, Reply
<1>8. QED
  BY <1>1, <1>3, <1>4, <1>5, <1>7 DEF WorkerInv

\* A step that leaves the other workers theirs keeps the invariant when it keeps
\* it for its own worker.
LEMMA HandleStep ==
  ASSUME HandleInv, DbTypes', NEW w \in Workers,
         \A v \in Workers \ {w} : Leaves(w, v),
         WorkerInv(w)', NoCursor',
         Reading(w)' => Reading(w) \/ cursor = Closed,
         Waiting(w)' /\ ~mixed'[w] => \A v \in Workers \ {w} : pc[v] = "idle"
  PROVE  HandleInv'
<1>1. \A v \in Workers \ {w} : WorkerInv(v)' /\ Reading(v)' = Reading(v)
                               /\ Waiting(v)' = Waiting(v)
  BY LeftKeeps
<1>2. OneReader'
  <2>1. \A v \in Workers : Reading(v) => cursor # Closed
    BY DEF HandleInv, WorkerInv, Rows
  <2>2. \A v \in Workers \ {w} : ~(Reading(v)' /\ Reading(w)')
    BY <1>1, <2>1 DEF HandleInv, OneReader
  <2>3. \A u, v \in Workers \ {w} : Reading(u)' /\ Reading(v)' => u = v
    BY <1>1 DEF HandleInv, OneReader
  <2>4. QED
    BY <2>2, <2>3 DEF OneReader
<1>3. ByItself'
  BY <1>1 DEF ByItself, Leaves
<1>4. QED
  BY <1>1, <1>2, <1>3 DEF HandleInv

\* A new query overlaps those in progress.
LEMMA BeginHandle ==
  ASSUME HandleInv, NEW w \in Workers, Begin(w)
  PROVE  HandleInv' /\ \A v \in Workers \ {w} : Leaves(w, v)
<1>1. pc[w] = "idle" /\ pc' = [pc EXCEPT ![w] = "bind1"] /\ pc'[w] = "bind1"
  BY DEF Begin, Goto, HandleInv, DbTypes, TypeOK
<1>2. UNCHANGED <<hstmt, accounts, param, cursor, col, ret, ok>>
  BY DEF Begin
<1>3. /\ mixed'[w] = \E u \in Workers \ {w} : pc[u] # "idle"
      /\ \A v \in Workers \ {w} : mixed'[v] = (mixed[v] \/ Waiting(v))
  BY DEF Begin
<1>4. \A v \in Workers \ {w} : Leaves(w, v)
  BY <1>1, <1>2, <1>3 DEF Leaves, Begin, HandleInv, DbTypes, TypeOK
<1>5. WorkerInv(w)'
  BY <1>1, <1>2 DEF HandleInv, WorkerInv, Idle, NotAnswered, Answered, Buffers,
                    Params, Columns, Rows, Reading
<1>6. NoCursor'
  BY <1>1, <1>2, <1>4 DEF HandleInv, NoCursor, Reading, Leaves, Closed
<1>7. DbTypes'
  BY BeginTypes DEF HandleInv
<1>8. ~Reading(w)'
  BY <1>1 DEF Reading
<1>9. QED
  BY <1>3, <1>4, <1>5, <1>6, <1>7, <1>8, HandleStep

\* Binding puts the worker's own addresses into the handle.
LEMMA BindHandle ==
  ASSUME HandleInv, NEW w \in Workers,
         BindId(w) \/ BindPw(w) \/ BindColId(w) \/ BindColPw(w)
  PROVE  HandleInv' /\ \A v \in Workers \ {w} : Leaves(w, v)
<1>1. PICK from \in {"bind1", "bind2", "bindCol1", "bindCol2"},
           to \in {"bind2", "exec", "bindCol2", "fetch"} :
        /\ Goto(w, from, to)
        /\ <<from, to>> \in {<<"bind1", "bind2">>, <<"bind2", "exec">>,
                              <<"bindCol1", "bindCol2">>, <<"bindCol2", "fetch">>}
        /\ UNCHANGED <<call, ret, ok, cursor, mixed>>
  BY DEF BindId, BindPw, BindColId, BindColPw, Bind, BindCol
<1>2. /\ pc[w] = from /\ pc' = [pc EXCEPT ![w] = to] /\ pc'[w] = to
      /\ \A v \in Workers \ {w} : pc'[v] = pc[v]
  BY <1>1 DEF Goto, HandleInv, DbTypes, TypeOK
<1>3. /\ from = "bind1" => param' = [param EXCEPT ![1] = w] /\ col' = col
      /\ from = "bind2" => param' = [param EXCEPT ![2] = w] /\ col' = col
      /\ from = "bindCol1" => col' = [col EXCEPT ![1] = w] /\ param' = param
      /\ from = "bindCol2" => col' = [col EXCEPT ![2] = w] /\ param' = param
  BY <1>2 DEF BindId, BindPw, BindColId, BindColPw, Bind, BindCol, Goto
<1>4. Waiting(w)' = Waiting(w) /\ Reading(w)' = Reading(w)
  BY <1>1, <1>2 DEF Waiting, Reading
<1>5. ASSUME NEW v \in Workers \ {w} PROVE Leaves(w, v)
  <2>1. Waiting(v) => mixed'[v]
    BY <1>1, <1>2, Overlapped
  <2>2. Reading(v) => col' = col
    BY <1>1, <1>2, <1>3 DEF HandleInv, OneReader, Reading
  <2>3. QED
    BY <1>1, <1>2, <2>1, <2>2 DEF Leaves
<1>6. WorkerInv(w)'
  <2>1. WorkerInv(w)
    BY DEF HandleInv
  <2>2. /\ Idle(w)' /\ NotAnswered(w)' /\ Answered(w)' /\ Buffers(w)' /\ Rows(w)'
    BY <1>1, <1>2, <2>1 DEF WorkerInv, Idle, NotAnswered, Answered, Buffers, Rows,
                            Reading, Closed
  <2>3. Params(w)' /\ Columns(w)'
    BY <1>1, <1>2, <1>3, <2>1
    DEF WorkerInv, HandleInv, DbTypes, TypeOK, Fields, Params, Columns
  <2>4. QED
    BY <2>2, <2>3 DEF WorkerInv
<1>7. NoCursor'
  BY <1>1, <1>2, <1>4 DEF HandleInv, NoCursor, Reading, Closed
<1>8. DbTypes'
  BY BindTypes DEF HandleInv
<1>9. Waiting(w)' /\ ~mixed'[w] => \A v \in Workers \ {w} : pc[v] = "idle"
  BY <1>1, <1>4 DEF HandleInv, ByItself
<1>10. QED
  BY <1>4, <1>5, <1>6, <1>7, <1>8, <1>9, HandleStep

\* The statement of a query by itself reads that query's own strings, with no
\* cursor open.
LEMMA OwnStatement ==
  ASSUME HandleInv, NEW w \in Workers, pc[w] = "exec", ~mixed[w]
  PROVE  /\ Values(1) = {call[w].id} /\ Values(2) = {call[w].pw}
         /\ cursor = Closed
<1>1. param[1] = w /\ param[2] = w /\ w # NoOne
  BY DbAssumption DEF HandleInv, WorkerInv, Params
<1>2. \A v \in Workers : ~Reading(v)
  BY DEF HandleInv, ByItself, Waiting, Reading
<1>3. cursor = Closed
  BY <1>2 DEF HandleInv, NoCursor
<1>4. QED
  BY <1>1, <1>3 DEF Values

Failed(w) == /\ hstmt # "open" \/ cursor # Closed
             /\ Goto(w, "exec", "return") /\ Answer(w, FALSE)
             /\ UNCHANGED <<accounts, cursor>>
Selected(w, id, pw) == /\ hstmt = "open" /\ cursor = Closed
                       /\ call[w].type = "LOGIN" /\ Select(w, id, pw)
Inserted(w, id, pw) == /\ hstmt = "open" /\ cursor = Closed
                       /\ call[w].type = "SIGNUP" /\ Insert(w, id, pw)

\* The three ways in which a statement ends.
LEMMA ExecOutcomes ==
  ASSUME HandleInv, NEW w \in Workers, Exec(w)
  PROVE  /\ \/ Failed(w)
            \/ \E id \in Values(1), pw \in Values(2) :
                 Selected(w, id, pw) \/ Inserted(w, id, pw)
         /\ UNCHANGED <<hstmt, param, col, call, ret, calls, mixed>>
         /\ call[w] \in Call /\ ok[w] = NoReply /\ pc[w] = "exec"
<1>1. pc[w] = "exec"
  BY DEF Exec
<1>2. call[w] \in Call /\ ok[w] = NoReply
  BY <1>1 DEF HandleInv, DbTypes, Bound, Fields, WorkerInv, NotAnswered
<1>3. call[w].type \in {"LOGIN", "SIGNUP"}
  BY <1>2 DEF Call
<1>4. CASE hstmt # "open" \/ cursor # Closed
  BY <1>1, <1>2, <1>4 DEF Exec, Failed
<1>5. CASE hstmt = "open" /\ cursor = Closed
  <2>1. PICK id \in Values(1), pw \in Values(2) :
          IF call[w].type = "LOGIN" THEN Select(w, id, pw) ELSE Insert(w, id, pw)
    BY <1>5 DEF Exec
  <2>2. Selected(w, id, pw) \/ Inserted(w, id, pw)
    BY <1>3, <1>5, <2>1 DEF Selected, Inserted
  <2>3. QED
    BY <1>1, <1>2, <2>2 DEF Exec
<1>6. QED
  BY <1>4, <1>5

\* Where a statement leaves its worker: with a cursor, or with an answer.
LEMMA ExecGoes ==
  ASSUME HandleInv, NEW w \in Workers, Exec(w)
  PROVE  /\ \A v \in Workers \ {w} : pc'[v] = pc[v] /\ ok'[v] = ok[v]
         /\ \/ /\ pc'[w] = "bindCol1" /\ ok'[w] = NoReply
               /\ cursor = Closed /\ cursor' # Closed
               /\ \E row \in Strings \X Strings : cursor' \subseteq {row}
            \/ pc'[w] = "return" /\ ok'[w] \in BOOLEAN /\ cursor' = cursor
<1>1. CASE Failed(w)
  BY <1>1 DEF Failed, Goto, Answer, HandleInv, DbTypes, TypeOK
<1>2. ASSUME NEW id \in Values(1), NEW pw \in Values(2), Selected(w, id, pw)
      PROVE  /\ \A v \in Workers \ {w} : pc'[v] = pc[v] /\ ok'[v] = ok[v]
             /\ pc'[w] = "bindCol1" /\ ok'[w] = NoReply
             /\ cursor = Closed /\ cursor' # Closed
             /\ \E row \in Strings \X Strings : cursor' \subseteq {row}
  <2>1. id \in Strings /\ pw \in Strings
    BY ValuesAreStrings DEF HandleInv, Fields
  <2>2. accounts \cap {<<id, pw>>} # Closed
    BY NullsAssumption DEF HandleInv, DbTypes, TypeOK, Closed
  <2>3. <<id, pw>> \in Strings \X Strings /\ cursor' \subseteq {<<id, pw>>}
    BY <1>2, <2>1 DEF Selected, Select
  <2>4. ok[w] = NoReply
    BY ExecOutcomes
  <2>5. cursor = Closed /\ cursor' # Closed
    BY <1>2, <2>2 DEF Selected, Select, Closed
  <2>6. /\ \A v \in Workers \ {w} : pc'[v] = pc[v] /\ ok'[v] = ok[v]
        /\ pc'[w] = "bindCol1" /\ ok'[w] = NoReply
    BY <1>2, <2>4 DEF Selected, Select, Goto, HandleInv, DbTypes, TypeOK
  <2>7. QED
    BY <2>3, <2>5, <2>6
<1>3. ASSUME NEW id, NEW pw, Inserted(w, id, pw)
      PROVE  /\ \A v \in Workers \ {w} : pc'[v] = pc[v] /\ ok'[v] = ok[v]
             /\ pc'[w] = "return" /\ ok'[w] \in BOOLEAN /\ cursor' = cursor
  <2>1. PICK result \in BOOLEAN : ok' = [ok EXCEPT ![w] = result]
    BY <1>3, Zenon DEF Inserted, Insert, Answer
  <2>2. /\ \A v \in Workers \ {w} : pc'[v] = pc[v]
        /\ pc'[w] = "return" /\ cursor' = cursor
    BY <1>3 DEF Inserted, Insert, Goto, HandleInv, DbTypes, TypeOK
  <2>3. QED
    BY <2>1, <2>2 DEF HandleInv, DbTypes, TypeOK
<1>4. QED
  BY <1>1, <1>2, <1>3, ExecOutcomes

\* A statement opens a cursor on one row when no other one is open, or answers.
LEMMA ExecHandle ==
  ASSUME HandleInv, NEW w \in Workers, Exec(w)
  PROVE  HandleInv' /\ \A v \in Workers \ {w} : Leaves(w, v)
<1>1. /\ UNCHANGED <<hstmt, param, col, call, ret, calls, mixed>>
      /\ pc[w] = "exec"
  BY ExecOutcomes
<1>2. ASSUME NEW v \in Workers \ {w} PROVE Leaves(w, v)
  <2>1. Waiting(v) => mixed'[v]
    BY <1>1, Overlapped
  <2>2. Reading(v) => cursor # Closed
    BY DEF HandleInv, WorkerInv, Rows
  <2>3. Reading(v) => cursor' = cursor
    BY <2>2, ExecGoes
  <2>4. QED
    BY <1>1, <2>1, <2>3, ExecGoes DEF Leaves
<1>3. WorkerInv(w)'
  <2>1. WorkerInv(w)
    BY DEF HandleInv
  <2>2. Idle(w)' /\ NotAnswered(w)' /\ Answered(w)' /\ Params(w)' /\ Columns(w)'
    BY ExecGoes DEF Idle, NotAnswered, Answered, Params, Columns
  <2>3. Buffers(w)'
    BY <1>1, <2>1 DEF WorkerInv, Buffers
  <2>4. Rows(w)'
    BY ExecGoes DEF Rows, Reading, Closed
  <2>5. QED
    BY <2>2, <2>3, <2>4 DEF WorkerInv
<1>4. /\ ~Waiting(w)' /\ ~Reading(w)
      /\ Reading(w)' => cursor = Closed
      /\ ~Reading(w)' => cursor' = cursor
  BY <1>1, ExecGoes DEF Waiting, Reading
<1>5. NoCursor'
  <2>1. \A v \in Workers \ {w} : Reading(v)' = Reading(v)
    BY <1>2 DEF Leaves, Reading
  <2>2. QED
    BY <1>4, <2>1 DEF HandleInv, NoCursor, Closed
<1>6. DbTypes'
  BY ExecTypes DEF HandleInv
<1>7. QED
  BY <1>2, <1>3, <1>4, <1>5, <1>6, HandleStep

\* A fetch takes the row into the query's own buffers, and no other's.
LEMMA FetchedRow ==
  ASSUME HandleInv, NEW w \in Workers, FetchRow(w)
  PROVE  \E row \in Strings \X Strings :
           /\ cursor = {row} /\ cursor' = {}
           /\ ret' = [ret EXCEPT ![w] = row]
<1>1. pc[w] = "fetch"
  BY DEF FetchRow
<1>2. WorkerInv(w)
  BY DEF HandleInv
<1>3. col[1] = w /\ col[2] = w
  BY <1>1, <1>2 DEF WorkerInv, Columns
<1>4. PICK row \in Strings \X Strings : cursor \subseteq {row}
  BY <1>1, <1>2 DEF WorkerInv, Rows, Reading
<1>5. PICK r \in cursor :
        /\ cursor' = cursor \ {r}
        /\ ret' = [v \in Workers |-> [i \in Fields |->
                     IF col[i] = v THEN r[i] ELSE ret[v][i]]]
  BY DEF FetchRow
<1>6. r = row /\ cursor = {row} /\ cursor' = {}
  BY <1>4, <1>5
<1>7. ret \in [Workers -> [Fields -> Strings \cup {Blank}]]
  BY DEF HandleInv, DbTypes, TypeOK
<1>8. ASSUME NEW v \in Workers \ {w}
      PROVE  [i \in Fields |-> IF col[i] = v THEN r[i] ELSE ret[v][i]] = ret[v]
  BY <1>3, <1>7 DEF Fields
<1>9. [i \in Fields |-> IF col[i] = w THEN r[i] ELSE ret[w][i]] = row
  BY <1>3, <1>6 DEF Fields
<1>10. ret' = [ret EXCEPT ![w] = row]
  BY <1>5, <1>7, <1>8, <1>9
<1>11. QED
  BY <1>6, <1>10

\* Fetching, ending the fetch and closing the cursor are the reader's.
LEMMA FetchHandle ==
  ASSUME HandleInv, NEW w \in Workers,
         FetchRow(w) \/ FetchNoData(w) \/ CloseCursor(w)
  PROVE  HandleInv' /\ Reading(w) /\ \A v \in Workers \ {w} : Leaves(w, v)
<1>1. /\ UNCHANGED <<param, col, call, mixed>>
      /\ pc[w] \in {"fetch", "close"} /\ Reading(w)
  BY DEF FetchRow, FetchNoData, CloseCursor, Goto, Reading
<1>2. WorkerInv(w) /\ {} # Closed
  BY NullsAssumption DEF HandleInv, Closed
<1>3. PICK to \in {"fetch", "close", "return"} :
        /\ pc' = [pc EXCEPT ![w] = to]
        /\ to = "close" => cursor' = {}
        /\ to = "fetch" => pc[w] = "fetch" /\ cursor' # Closed
        /\ to # "return" =>
             \E row \in Strings \X Strings : cursor' \subseteq {row}
        /\ to = "return" => cursor' = Closed
  <2>1. CASE FetchRow(w)
    <3>1. pc' = [pc EXCEPT ![w] = "fetch"]
      BY <2>1 DEF FetchRow, HandleInv, DbTypes, TypeOK
    <3>2. QED
      BY <1>2, <2>1, <3>1, FetchedRow DEF FetchRow
  <2>2. CASE FetchNoData(w)
    BY <1>1, <1>2, <2>2 DEF FetchNoData, Goto, WorkerInv, Rows
  <2>3. CASE CloseCursor(w)
    BY <2>3 DEF CloseCursor, Goto
  <2>4. QED
    BY <2>1, <2>2, <2>3
<1>4. /\ to = "return" => /\ ok'[w] = Read(ret[w]) /\ ret' = ret
                          /\ \A v \in Workers \ {w} : ok'[v] = ok[v]
      /\ to # "return" => ok' = ok
      /\ \A v \in Workers \ {w} : ret'[v] = ret[v]
  <2>1. CASE FetchRow(w)
    <3>1. to = "fetch"
      BY <1>3, <2>1 DEF FetchRow, HandleInv, DbTypes, TypeOK
    <3>2. QED
      BY <2>1, <3>1, FetchedRow DEF FetchRow, HandleInv, DbTypes, TypeOK
  <2>2. CASE FetchNoData(w)
    <3>1. to = "close"
      BY <1>3, <2>2 DEF FetchNoData, Goto, HandleInv, DbTypes, TypeOK
    <3>2. QED
      BY <2>2, <3>1 DEF FetchNoData
  <2>3. CASE CloseCursor(w)
    <3>1. to = "return"
      BY <1>3, <2>3 DEF CloseCursor, Goto, HandleInv, DbTypes, TypeOK
    <3>2. QED
      BY <2>3, <3>1 DEF CloseCursor, Answer, HandleInv, DbTypes, TypeOK
  <2>4. QED
    BY <2>1, <2>2, <2>3
<1>5. pc'[w] = to /\ \A v \in Workers \ {w} : pc'[v] = pc[v]
  BY <1>3 DEF HandleInv, DbTypes, TypeOK
<1>6. ASSUME NEW v \in Workers \ {w} PROVE Leaves(w, v)
  <2>1. ~Reading(v) /\ (Waiting(v) => mixed'[v])
    BY <1>1, Overlapped DEF HandleInv, OneReader
  <2>2. QED
    BY <1>1, <1>4, <1>5, <2>1 DEF Leaves
<1>7. WorkerInv(w)'
  <2>1. Read(ret[w]) \in BOOLEAN
    BY DEF Read
  <2>2. Idle(w)' /\ NotAnswered(w)' /\ Answered(w)' /\ Buffers(w)' /\ Params(w)'
    BY <1>1, <1>2, <1>4, <1>5, <2>1
    DEF WorkerInv, Idle, NotAnswered, Answered, Buffers, Params
  <2>3. Columns(w)'
    BY <1>1, <1>2, <1>3, <1>5 DEF WorkerInv, Columns
  <2>4. Rows(w)'
    BY <1>2, <1>3, <1>5 DEF Rows, Reading, Closed
  <2>5. QED
    BY <2>2, <2>3, <2>4 DEF WorkerInv
<1>8. NoCursor'
  <2>1. to # "return" => Reading(w)'
    BY <1>5 DEF Reading
  <2>2. QED
    BY <1>3, <2>1 DEF NoCursor, Closed
<1>9. DbTypes'
  BY FetchTypes, EndTypes DEF HandleInv
<1>10. ~Waiting(w)'
  BY <1>5 DEF Waiting
<1>11. QED
  BY <1>1, <1>6, <1>7, <1>8, <1>9, <1>10, HandleStep

\* Returning unbinds what was the worker's own.
LEMMA ReturnHandle ==
  ASSUME HandleInv, NEW w \in Workers, Return(w)
  PROVE  HandleInv' /\ \A v \in Workers \ {w} : Leaves(w, v)
<1>1. /\ pc[w] = "return" /\ pc'[w] = "idle" /\ ok'[w] = NoReply
      /\ call'[w] = NoCall /\ ret'[w] = [i \in Fields |-> Blank]
      /\ UNCHANGED <<hstmt, accounts, cursor, calls>>
  BY DEF Return, Goto, Answer, HandleInv, DbTypes, TypeOK
<1>2. ASSUME NEW v \in Workers \ {w} PROVE Leaves(w, v)
  <2>1. /\ pc'[v] = pc[v] /\ call'[v] = call[v] /\ ok'[v] = ok[v]
        /\ ret'[v] = ret[v] /\ mixed'[v] = mixed[v]
    BY DEF Return, Goto, Answer, HandleInv, DbTypes, TypeOK
  <2>2. Waiting(v) => mixed'[v]
    BY <1>1, <2>1, Overlapped
  <2>3. \A i \in Fields : col[i] = v => col'[i] = v
    BY DEF Return
  <2>4. QED
    BY <1>1, <2>1, <2>2, <2>3 DEF Leaves
<1>3. ~Reading(w) /\ ~Reading(w)' /\ ~Waiting(w)'
  BY <1>1 DEF Reading, Waiting
<1>4. WorkerInv(w)'
  BY <1>1 DEF WorkerInv, Idle, NotAnswered, Answered, Buffers, Params, Columns,
              Rows, Reading
<1>5. NoCursor'
  <2>1. \A v \in Workers \ {w} : Reading(v)' = Reading(v)
    BY <1>2 DEF Leaves, Reading
  <2>2. QED
    BY <1>1, <1>3, <2>1 DEF HandleInv, NoCursor, Closed
<1>6. DbTypes'
  BY EndTypes DEF HandleInv
<1>7. QED
  BY <1>2, <1>3, <1>4, <1>5, <1>6, HandleStep

\* Closing the database, and a stutter, change the handle at most.
LEMMA CloseHandle == HandleInv /\ (Close \/ UNCHANGED dbVars) => HandleInv'
<1>1. HandleInv /\ (Close \/ UNCHANGED dbVars) => DbTypes'
  BY CloseTypes DEF HandleInv
<1>2. QED
  BY <1>1 DEF Close, dbVars, HandleInv, OneReader, NoCursor, ByItself, WorkerInv,
              Idle, NotAnswered, Answered, Buffers, Params, Columns, Rows, Reading,
              Waiting, Closed

\* Every step keeps the invariant, however queries overlap.
LEMMA NextHandle == HandleInv /\ [Next]_dbVars => HandleInv'
BY BeginHandle, BindHandle, ExecHandle, FetchHandle, ReturnHandle, CloseHandle
DEF Next, Step

-----------------------------------------------------------------------------
\* The reply of a worker whose query has no cursor is its result.
LEMMA ReplyOutside ==
  ASSUME NEW w \in Workers
  PROVE  /\ ~Reading(w) => Reply(w) = ok[w]
         /\ (~Reading(w) => Reply(w) = ok[w])'
BY DEF Reply

\* A step that leaves the other workers theirs, and changes the reply of its
\* own worker, changes the map of replies there.
LEMMA RepliesStep ==
  ASSUME HandleInv, NEW w \in Workers, \A v \in Workers \ {w} : Leaves(w, v),
         NEW result, Reply(w)' = result
  PROVE  replyOf' = [replyOf EXCEPT ![w] = result]
<1>1. \A v \in Workers \ {w} : Reply(v)' = Reply(v)
  BY LeftKeeps
<1>2. QED
  BY <1>1, Zenon DEF replyOf

\* One that keeps the reply of its own worker, too, changes no reply.
LEMMA RepliesSame ==
  ASSUME HandleInv, NEW w \in Workers, \A v \in Workers \ {w} : Leaves(w, v),
         Reply(w)' = Reply(w)
  PROVE  replyOf' = replyOf
<1>1. \A v \in Workers \ {w} : Reply(v)' = Reply(v)
  BY LeftKeeps
<1>2. \A v \in Workers : Reply(v)' = Reply(v)
  BY <1>1
<1>3. QED
  BY <1>2, Zenon DEF replyOf

\* The initial states are the store's.
LEMMA InitMaps == Init => Store!Init
<1>1. ASSUME Init PROVE replyOf = [w \in Workers |-> NoReply]
  <2>1. \A w \in Workers : ~Reading(w) /\ ok[w] = NoReply
    BY <1>1 DEF Init, Reading
  <2>2. \A w \in Workers : Reply(w) = NoReply
    BY <2>1, ReplyOutside
  <2>3. QED
    BY <2>2, Zenon DEF replyOf
<1>2. QED
  BY <1>1 DEF Init, Store!Init

\* The calls the store sees without an effect are those that wait.
LEMMA WaitingMaps ==
  ASSUME HandleInv, NEW w \in Workers
  PROVE  /\ call[w] # NoCall <=> pc[w] # "idle"
         /\ call[w] # NoCall /\ replyOf[w] = NoReply <=> Waiting(w)
<1>1. WorkerInv(w)
  BY DEF HandleInv
<1>2. call[w] # NoCall <=> pc[w] # "idle"
  BY <1>1, NullsAssumption DEF HandleInv, DbTypes, Bound, Fields, WorkerInv, Idle
<1>3. replyOf[w] = Reply(w)
  BY Zenon DEF replyOf
<1>4. CASE Reading(w)
  <2>1. Found(w) \in BOOLEAN
    BY DEF Found, Read
  <2>2. Reply(w) # NoReply
    BY <1>4, <2>1, DbAssumption, Zenon DEF Reply
  <2>3. ~Waiting(w)
    BY <1>4 DEF Reading, Waiting
  <2>4. QED
    BY <1>2, <1>3, <2>2, <2>3
<1>5. CASE ~Reading(w)
  <2>1. Reply(w) = ok[w]
    BY <1>5, ReplyOutside
  <2>2. pc[w] = "return" => ok[w] # NoReply
    BY <1>1, DbAssumption DEF WorkerInv, Answered
  <2>3. Waiting(w) => ok[w] = NoReply
    BY <1>1 DEF WorkerInv, NotAnswered, Waiting
  <2>4. pc[w] \in {"idle", "return"} \/ Waiting(w)
    BY <1>5 DEF HandleInv, DbTypes, TypeOK, Reading, Waiting
  <2>5. pc[w] \in {"idle", "return"} => ~Waiting(w)
    BY DEF Waiting
  <2>6. QED
    BY <1>2, <1>3, <2>1, <2>2, <2>3, <2>4, <2>5
<1>6. QED
  BY <1>2, <1>4, <1>5

\* A new query is a question to the store.
LEMMA BeginMaps ==
  ASSUME HandleInv, NEW w \in Workers, Begin(w) PROVE Store!Ask(w)
<1>1. call[w] = NoCall
  BY WaitingMaps DEF Begin, Goto
<1>2. Reply(w)' = Reply(w)
  <2>1. ~Reading(w) /\ ~Reading(w)' /\ ok' = ok
    BY DEF Begin, Goto, Reading, HandleInv, DbTypes, TypeOK
  <2>2. QED
    BY <2>1, ReplyOutside
<1>3. replyOf' = replyOf
  BY <1>2, BeginHandle, RepliesSame
<1>4. (\E u \in Workers \ {w} : pc[u] # "idle")
        = (\E u \in Workers \ {w} : call[u] # NoCall)
  BY WaitingMaps
<1>5. \A v \in Workers : (mixed[v] \/ Waiting(v))
        = (mixed[v] \/ (call[v] # NoCall /\ replyOf[v] = NoReply))
  BY WaitingMaps
<1>6. mixed' = [v \in Workers |->
                  IF v = w THEN \E u \in Workers \ {w} : call[u] # NoCall
                  ELSE mixed[v] \/ (call[v] # NoCall /\ replyOf[v] = NoReply)]
  BY <1>4, <1>5, Zenon DEF Begin
<1>7. QED
  BY <1>1, <1>3, <1>6 DEF Begin, Store!Ask, Store!Mixing, Call, Store!Call

\* Binding is nothing the store sees.
LEMMA BindMaps ==
  ASSUME HandleInv, NEW w \in Workers,
         BindId(w) \/ BindPw(w) \/ BindColId(w) \/ BindColPw(w)
  PROVE  UNCHANGED Store!storeVars
<1>1. UNCHANGED <<hstmt, accounts, cursor, call, ret, ok, mixed>>
  BY DEF BindId, BindPw, BindColId, BindColPw, Bind, BindCol
<1>2. Reading(w)' = Reading(w)
  BY DEF BindId, BindPw, BindColId, BindColPw, Bind, BindCol, Goto, Reading,
         HandleInv, DbTypes, TypeOK
<1>3. Found(w)' = Found(w) /\ ok'[w] = ok[w]
  BY <1>1 DEF Found, Read, StrlenZero, Closed
<1>4. Reply(w)' = Reply(w)
  BY <1>2, <1>3, Zenon DEF Reply
<1>5. replyOf' = replyOf
  BY <1>4, BindHandle, RepliesSame
<1>6. QED
  BY <1>1, <1>5 DEF Store!storeVars

\* The one row of a cursor decides the reply.
LEMMA FoundIsRow ==
  ASSUME HandleInv, NEW w \in Workers, Reading(w), NEW row, cursor = {row}
  PROVE  Found(w) = Read(row)
<1>1. cursor \notin {Closed, {}}
  BY DEF HandleInv, WorkerInv, Rows
<1>2. Found(w) = \E r \in {row} : Read(r)
  BY <1>1, Zenon DEF Found
<1>3. (\E r \in {row} : Read(r)) = Read(row)
  BY DEF Read
<1>4. QED
  BY <1>2, <1>3, Zenon

\* Fetching moves the row, not the reply.
LEMMA FetchMaps ==
  ASSUME HandleInv, NEW w \in Workers,
         FetchRow(w) \/ FetchNoData(w) \/ CloseCursor(w)
  PROVE  UNCHANGED Store!storeVars
<1>1. UNCHANGED <<hstmt, accounts, call, mixed>>
  BY DEF FetchRow, FetchNoData, CloseCursor
<1>2. Reading(w)
  BY FetchHandle
<1>3. Reply(w)' = Reply(w)
  <2>1. CASE FetchRow(w)
    <3>1. PICK row \in Strings \X Strings :
            cursor = {row} /\ cursor' = {} /\ ret' = [ret EXCEPT ![w] = row]
      BY <2>1, FetchedRow
    <3>2. ret'[w] = row
      BY <3>1 DEF HandleInv, DbTypes, TypeOK
    <3>3. Found(w)' = Read(row)
      BY <3>1, <3>2 DEF Found, Read, StrlenZero
    <3>4. Found(w) = Read(row)
      BY <1>2, <3>1, FoundIsRow, Zenon
    <3>5. Reading(w)'
      BY <1>2, <2>1 DEF FetchRow, Reading
    <3>6. QED
      BY <1>2, <3>3, <3>4, <3>5, Zenon DEF Reply
  <2>2. CASE FetchNoData(w)
    <3>1. UNCHANGED <<cursor, ret>> /\ Reading(w)'
      BY <2>2 DEF FetchNoData, Goto, Reading, HandleInv, DbTypes, TypeOK
    <3>2. Found(w)' = Found(w)
      BY <3>1 DEF Found, Read, StrlenZero, Closed
    <3>3. QED
      BY <1>2, <3>1, <3>2, Zenon DEF Reply
  <2>3. CASE CloseCursor(w)
    <3>1. cursor = {}
      BY <2>3 DEF CloseCursor, Goto, HandleInv, WorkerInv, Rows
    <3>2. Found(w) = Read(ret[w])
      BY <3>1 DEF Found
    <3>3. ok'[w] = Read(ret[w])
      BY <2>3 DEF CloseCursor, Answer, HandleInv, DbTypes, TypeOK
    <3>4. ~Reading(w)'
      BY <2>3 DEF CloseCursor, Goto, Reading, HandleInv, DbTypes, TypeOK
    <3>5. QED
      BY <1>2, <3>2, <3>3, <3>4, Zenon DEF Reply
  <2>4. QED
    BY <2>1, <2>2, <2>3
<1>4. replyOf' = replyOf
  BY <1>3, FetchHandle, RepliesSame
<1>5. QED
  BY <1>1, <1>4 DEF Store!storeVars

\* A login's cursor answers with what the table holds, or refuses a string it
\* does not recognise.
LEMMA SelectReplies ==
  ASSUME HandleInv, NEW w \in Workers, Exec(w), pc[w] = "exec",
         NEW id \in Strings, NEW pw \in Strings, Selected(w, id, pw)
  PROVE  /\ Reply(w)' = (<<id, pw>> \in accounts /\ Read(<<id, pw>>))
         /\ {id, pw} \cap ZeroLow = {} => Read(<<id, pw>>)
<1> DEFINE row == <<id, pw>>
<1>1. Reading(w)' /\ cursor' = accounts \cap {row} /\ ret' = ret
  BY DEF Selected, Select, Exec, Goto, Reading, HandleInv, DbTypes, TypeOK
<1>2. {id, pw} \cap ZeroLow = {} => Read(row)
  <2>1. id # Blank /\ pw # Blank
    BY DbAssumption DEF Strings
  <2>2. row[1] = id /\ row[2] = pw
    OBVIOUS
  <2>3. QED
    BY <2>1, <2>2 DEF Read, StrlenZero, Fields
<1>3. CASE row \in accounts
  <2>1. cursor' = {row}
    BY <1>1, <1>3
  <2>2. HandleInv'
    BY ExecHandle
  <2>3. (cursor \notin {Closed, {}})'
    BY <1>1, <2>1, <2>2 DEF Closed, HandleInv, WorkerInv, Rows, Reading
  <2>4. Found(w)' = \E r \in {row} : Read(r)
    BY <2>1, <2>3, Zenon DEF Found, Read, StrlenZero
  <2>5. (\E r \in {row} : Read(r)) = Read(row)
    BY DEF Read
  <2>6. Found(w)' = (row \in accounts /\ Read(row))
    BY <1>3, <2>4, <2>5, Zenon
  <2>7. Reply(w)' = (row \in accounts /\ Read(row))
    BY <1>1, <2>6, Zenon DEF Reply
  <2>8. QED
    BY <1>2, <2>7
<1>4. CASE row \notin accounts
  <2>1. cursor' = {}
    BY <1>1, <1>4
  <2>2. \A i \in Fields : ret'[w][i] = Blank
    BY <1>1 DEF HandleInv, WorkerInv, Buffers
  <2>3. Read(ret'[w]) = FALSE
    BY <2>2 DEF Read, StrlenZero, Fields
  <2>4. Found(w)' = Read(ret'[w])
    BY <2>1 DEF Found, Read, StrlenZero
  <2>5. (row \in accounts /\ Read(row)) = FALSE
    BY <1>4
  <2>6. Reply(w)' = (row \in accounts /\ Read(row))
    BY <1>1, <2>3, <2>4, <2>5, Zenon DEF Reply
  <2>7. QED
    BY <1>2, <2>6
<1>5. QED
  BY <1>3, <1>4

\* The statement is the moment the query takes effect.
LEMMA ExecMaps ==
  ASSUME HandleInv, NEW w \in Workers, Exec(w)
  PROVE  \/ Store!Login(w) \/ Store!SignUp(w) \/ Store!Refuse(w)
         \/ Store!LoginMixed(w) \/ Store!SignUpMixed(w)
<1>1. /\ UNCHANGED <<hstmt, call, ret, mixed>>
      /\ pc[w] = "exec" /\ call[w] \in Call /\ ok[w] = NoReply
  BY ExecOutcomes
<1>2. call[w] # NoCall /\ replyOf[w] = NoReply /\ mixed[w] \in BOOLEAN
  BY <1>1, WaitingMaps DEF Waiting, HandleInv, DbTypes, TypeOK
<1>3. call[w].type \in {"LOGIN", "SIGNUP"}
  BY <1>1 DEF Call
<1>4. ASSUME NEW result, Reply(w)' = result PROVE Store!Serve(w, result)
  <2>1. replyOf' = [replyOf EXCEPT ![w] = result]
    BY <1>4, ExecHandle, RepliesStep
  <2>2. QED
    BY <1>1, <1>2, <2>1 DEF Store!Serve
<1>5. CASE Failed(w)
  <2>1. ok'[w] = FALSE /\ ~Reading(w)' /\ accounts' = accounts
    BY <1>5 DEF Failed, Goto, Answer, Reading, HandleInv, DbTypes, TypeOK
  <2>2. Reply(w)' = FALSE
    BY <2>1, ReplyOutside
  <2>3. Store!Serve(w, FALSE)
    BY <1>4, <2>2
  <2>4. CASE hstmt # "open"
    BY <2>1, <2>3, <2>4 DEF Store!Refuse
  <2>5. CASE hstmt = "open"
    <3>1. cursor # Closed
      BY <1>5, <2>5 DEF Failed
    <3>2. mixed[w]
      BY <1>1, <1>2, <3>1, OwnStatement
    <3>3. QED
      BY <1>2, <1>3, <2>1, <2>3, <2>5, <3>2
      DEF Store!LoginMixed, Store!SignUpMixed, Store!Asks
  <2>6. QED
    BY <2>4, <2>5
<1>6. ASSUME NEW id \in Values(1), NEW pw \in Values(2), Selected(w, id, pw)
      PROVE  Store!Login(w) \/ Store!LoginMixed(w)
  <2>1. id \in Strings /\ pw \in Strings
    BY ValuesAreStrings DEF HandleInv, Fields
  <2>2. hstmt = "open" /\ accounts' = accounts /\ Store!Asks(w, "LOGIN")
    BY <1>2, <1>6 DEF Selected, Select, Store!Asks
  <2>3. /\ Reply(w)' = (<<id, pw>> \in accounts /\ Read(<<id, pw>>))
        /\ {id, pw} \cap ZeroLow = {} => Read(<<id, pw>>)
    BY <1>1, <1>6, <2>1, SelectReplies
  <2>4. PICK result \in BOOLEAN :
          result = (<<id, pw>> \in accounts /\ Read(<<id, pw>>))
    BY DEF Read
  <2>5. Store!Serve(w, result)
    BY <1>4, <2>3, <2>4
  <2>6. CASE mixed[w]
    BY <2>2, <2>5, <2>6 DEF Store!LoginMixed
  <2>7. CASE ~mixed[w]
    <3>1. id = call[w].id /\ pw = call[w].pw
      BY <1>1, <2>7, OwnStatement
    <3>2. \/ result = (<<call[w].id, call[w].pw>> \in accounts)
          \/ result = FALSE /\ {call[w].id, call[w].pw} \cap ZeroLow # {}
      <4>1. CASE Read(<<id, pw>>)
        <5>1. (<<id, pw>> \in accounts /\ Read(<<id, pw>>))
                = (<<id, pw>> \in accounts)
          BY <4>1
        <5>2. QED
          BY <2>4, <3>1, <5>1, Zenon
      <4>2. CASE ~Read(<<id, pw>>)
        <5>1. result = FALSE
          BY <2>4, <4>2, Zenon
        <5>2. QED
          BY <2>3, <3>1, <4>2, <5>1
      <4>3. QED
        BY <4>1, <4>2
    <3>3. QED
      BY <2>2, <2>5, <2>7, <3>2 DEF Store!Login
  <2>8. QED
    BY <2>6, <2>7
<1>7. ASSUME NEW id \in Values(1), NEW pw \in Values(2), Inserted(w, id, pw)
      PROVE  Store!SignUp(w) \/ Store!SignUpMixed(w)
  <2> DEFINE taken == \E account \in accounts : account[1] = id
  <2>1. id \in Strings /\ pw \in Strings
    BY ValuesAreStrings DEF HandleInv, Fields
  <2>2. hstmt = "open" /\ Store!Asks(w, "SIGNUP")
    BY <1>2, <1>7 DEF Inserted, Store!Asks
  <2>3. ok'[w] = ~taken
    BY <1>7, Zenon DEF Inserted, Insert, Answer, HandleInv, DbTypes, TypeOK
  <2>4. ~Reading(w)'
    BY <1>7 DEF Inserted, Insert, Goto, Reading, HandleInv, DbTypes, TypeOK
  <2>5. Reply(w)' = ~taken
    BY <2>3, <2>4, Zenon DEF Reply
  <2>6. Store!Serve(w, ~taken)
    BY <1>4, <2>5
  <2>7. Store!Add(w, id, pw)
    BY <1>7, <2>6 DEF Inserted, Insert, Store!Add, Store!Registered
  <2>8. CASE mixed[w]
    BY <2>1, <2>2, <2>7, <2>8
    DEF Store!SignUpMixed, Strings, Store!Strings
  <2>9. CASE ~mixed[w]
    <3>1. id = call[w].id /\ pw = call[w].pw
      BY <1>1, <2>9, OwnStatement
    <3>2. QED
      BY <2>2, <2>7, <2>9, <3>1 DEF Store!SignUp
  <2>10. QED
    BY <2>8, <2>9
<1>8. QED
  BY <1>5, <1>6, <1>7, ExecOutcomes

\* The end of a query is the end of the call.
LEMMA ReturnMaps ==
  ASSUME HandleInv, NEW w \in Workers, Return(w) PROVE Store!Return(w)
<1>1. pc[w] = "return" /\ ~Waiting(w)
  BY DEF Return, Goto, Waiting
<1>2. replyOf[w] # NoReply
  BY <1>1, WaitingMaps
<1>3. ok'[w] = NoReply /\ ~Reading(w)'
  BY DEF Return, Goto, Answer, Reading, HandleInv, DbTypes, TypeOK
<1>4. Reply(w)' = NoReply
  BY <1>3, ReplyOutside
<1>5. replyOf' = [replyOf EXCEPT ![w] = NoReply]
  BY <1>4, ReturnHandle, RepliesStep
<1>6. QED
  BY <1>2, <1>5 DEF Return, Store!Return

\* Closing the database takes the store down, and a stutter is one.
LEMMA CloseMaps ==
  ASSUME Close \/ UNCHANGED dbVars
  PROVE  Store!GoDown \/ UNCHANGED Store!storeVars
<1>1. UNCHANGED <<accounts, cursor, pc, call, ret, ok, mixed>>
  BY DEF Close, dbVars
<1>2. replyOf' = replyOf
  BY <1>1 DEF replyOf, Reply, Reading, Found, Read, StrlenZero, Closed
<1>3. QED
  BY <1>1, <1>2 DEF Close, dbVars, Store!GoDown, Store!storeVars

\* Every step maps to a step of the store or to a stutter.
LEMMA NextMaps ==
  HandleInv /\ [Next]_dbVars => [Store!Next]_(Store!storeVars)
<1>1. ASSUME HandleInv, NEW w \in Workers, Begin(w) \/ Step(w)
      PROVE  [Store!Next]_(Store!storeVars)
  BY <1>1, BeginMaps, BindMaps, FetchMaps, ExecMaps, ReturnMaps
  DEF Step, Store!Next
<1>2. QED
  BY <1>1, CloseMaps DEF Next, Store!Next

-----------------------------------------------------------------------------
(* The shutdown.  The accepter is the only thread that makes SocketInfos,  *)
(* it makes one at a time, and none once Winsock is closed.                *)

USE DEF threadVars, resourceVars, socketVars

Live == {n \in Clients : info[n] = "live"}

\* Those the loop of ShutdownServer will not, or did not, delete.
Spared == CASE main \in {"dialog", "cleanup", "critsec"} -> Live \ clientsSocketMap
            [] main = "delete"                           -> Live \ ahead
            [] OTHER                                     -> Live

\* The accepter has a SocketInfo in hand, and it may be spared.
InHand == accepter = "add" \/ (accepter = "post" /\ ~winsock)

SparedOne ==
  /\ \A m, n \in Spared : m = n
  /\ InHand => Spared \subseteq {accepted}
  /\ accepter = "accept" \/ winsock => (InHand \/ Spared = {})

Switches ==
  /\ bAccept => winsock
  /\ main \notin {"dialog", "crashed"} => ~bAccept
  /\ main \notin {"dialog", "cleanup", "crashed"} => ~winsock
  /\ accepter \in {"add", "post"} => accepted \in Clients

LifeInv == LifeTypeOK /\ Switches /\ (main # "crashed" => SparedOne)

\* Before any connection nothing is spared.
LEMMA InitLife == LifeInit => LifeInv
<1> SUFFICES ASSUME LifeInit PROVE LifeInv
  OBVIOUS
<1>1. LifeTypeOK
  BY DEF LifeInit, Starts, LifeTypeOK
<1>2. Switches
  BY DEF LifeInit, Starts, Switches
<1>3. Spared = {}
  BY DEF LifeInit, Spared, Live
<1>4. QED
  BY <1>1, <1>2, <1>3 DEF LifeInv, SparedOne

\* Fewer are spared, and the threads stay where they are.
LEMMA FewerSpared ==
  ASSUME SparedOne, Spared' \subseteq Spared,
         UNCHANGED <<accepter, accepted, winsock>>
  PROVE  SparedOne'
BY DEF SparedOne, InHand

\* A new connection is in the hand of the accepter, which had none.
LEMMA AcceptLife == ASSUME LifeInv, ~Over, Accept PROVE LifeInv'
<1>1. /\ winsock /\ accepter = "accept" /\ accepter' = "add"
      /\ accepted' \in Clients
      /\ info' = [info EXCEPT ![accepted'] = "live"]
      /\ UNCHANGED <<main, bAccept, winsock, critsecWork, clientsSocketMap,
                     ahead, posted>>
  BY DEF Accept, AccepterGoes
<1>2. LifeTypeOK' /\ Switches'
  BY <1>1 DEF LifeInv, LifeTypeOK, Switches
<1>3. main \in {"dialog", "cleanup"} /\ main' = main
  BY <1>1 DEF LifeInv, Switches, Over
<1>4. Spared = {}
  BY <1>1, <1>3 DEF LifeInv, SparedOne, InHand
<1>5. Spared' \subseteq Spared \cup {accepted'}
  BY <1>1, <1>3 DEF Spared, Live, LifeInv, LifeTypeOK
<1>6. SparedOne'
  BY <1>1, <1>4, <1>5 DEF SparedOne, InHand
<1>7. QED
  BY <1>2, <1>6 DEF LifeInv

\* The loop's test and a failing accept leave the accepter with nothing in hand,
\* as it was.
LEMMA IdleAccepterLife ==
  ASSUME LifeInv, ~Over, CheckAcceptable \/ AcceptFails
  PROVE  LifeInv'
<1>1. /\ UNCHANGED <<main, accepted, bAccept, winsock, critsecWork, info,
                     clientsSocketMap, ahead, posted>>
      /\ accepter \in {"loop", "accept"} /\ accepter' \in {"accept", "ended"}
      /\ accepter' = "accept" => bAccept
  BY DEF CheckAcceptable, AcceptFails, AccepterGoes
<1>2. LifeTypeOK' /\ Switches'
  BY <1>1 DEF LifeInv, LifeTypeOK, Switches
<1>3. Spared' = Spared
  BY <1>1 DEF Spared, Live
<1>4. accepter' = "accept" => Spared = {}
  BY <1>1 DEF LifeInv, Switches, SparedOne, InHand, Over
<1>5. SparedOne'
  BY <1>1, <1>3, <1>4 DEF LifeInv, SparedOne, InHand, Over
<1>6. QED
  BY <1>2, <1>5 DEF LifeInv

\* The new entry is met by the loop, or is the one that is spared.
LEMMA AddLife == ASSUME LifeInv, ~Over, AddSocketInfo PROVE LifeInv'
<1>1. /\ accepter = "add" /\ accepter' = "post"
      /\ clientsSocketMap' = clientsSocketMap \cup {accepted}
      /\ ahead \subseteq ahead' /\ ahead' \subseteq ahead \cup {accepted}
      /\ UNCHANGED <<main, accepted, bAccept, winsock, critsecWork, info,
                     posted>>
  BY DEF AddSocketInfo, AccepterGoes
<1>2. LifeTypeOK' /\ Switches'
  BY <1>1 DEF LifeInv, LifeTypeOK, Switches
<1>3. Spared' \subseteq Spared /\ Spared \subseteq {accepted}
  BY <1>1 DEF Spared, Live, LifeInv, SparedOne, InHand, Over
<1>4. winsock => Spared' = {}
  BY <1>1, <1>3 DEF Spared, Live, LifeInv, Switches, LifeTypeOK, Over
<1>5. SparedOne'
  BY <1>1, <1>3, <1>4 DEF SparedOne, InHand
<1>6. QED
  BY <1>2, <1>5 DEF LifeInv

\* The accepter lets go of it, and goes on only while Winsock runs.
LEMMA PostLife == ASSUME LifeInv, ~Over, PostFirstRecv PROVE LifeInv'
<1>1. /\ accepter = "post" /\ accepter' \in {"loop", "ended"}
      /\ accepted' = NoOne
      /\ posted' \subseteq posted \cup {accepted}
      /\ UNCHANGED <<main, bAccept, winsock, critsecWork, info,
                     clientsSocketMap, ahead>>
  BY DEF PostFirstRecv, AccepterGoes
<1>2. LifeTypeOK' /\ Switches'
  BY <1>1 DEF LifeInv, LifeTypeOK, Switches
<1>3. Spared' = Spared
  BY <1>1 DEF Spared, Live
<1>4. SparedOne'
  BY <1>1, <1>3 DEF LifeInv, SparedOne, InHand, Over
<1>5. QED
  BY <1>2, <1>4 DEF LifeInv

\* The shutdown begins and closes Winsock: nothing is spared yet.
LEMMA WinsockLife ==
  ASSUME LifeInv, ~Over, BeginShutdown \/ CleanupWinsock
  PROVE  LifeInv'
<1>1. /\ UNCHANGED <<accepter, accepted, critsecWork, info, clientsSocketMap,
                     ahead, posted>>
      /\ \/ main = "dialog" /\ main' = "cleanup" /\ ~bAccept' /\ winsock' = winsock
         \/ /\ main = "cleanup" /\ main' = "critsec"
            /\ bAccept' = bAccept /\ ~winsock'
      /\ bAccept' \in BOOLEAN /\ winsock' \in BOOLEAN
  BY DEF BeginShutdown, CleanupWinsock, MainDoes, FollowedBy, LifeInv,
         LifeTypeOK
<1>2. LifeTypeOK' /\ Switches'
  BY <1>1 DEF LifeInv, LifeTypeOK, Switches
<1>3. Spared' = Spared
  BY <1>1 DEF Spared, Live
<1>4. SparedOne'
  BY <1>1, <1>3 DEF LifeInv, SparedOne, InHand, Over, LifeTypeOK
<1>5. QED
  BY <1>2, <1>4 DEF LifeInv

\* The loop begins with all entries ahead, deletes them, and ends with none.
LEMMA DeleteLife ==
  ASSUME LifeInv, ~Over, DeleteSection \/ DeleteSocketInfo \/ ClearMap
  PROVE  LifeInv'
<1>1. UNCHANGED <<accepter, accepted, bAccept, winsock, posted>>
  BY DEF DeleteSection, DeleteSocketInfo, ClearMap
<1>2. CASE DeleteSection
  <2>1. /\ main = "critsec" /\ main' \in {"delete", "crashed"}
        /\ critsecWork' = FALSE /\ ahead' = clientsSocketMap
        /\ UNCHANGED <<info, clientsSocketMap>>
    BY <1>2 DEF DeleteSection, MainDoes, MayCrash, FollowedBy
  <2>2. LifeTypeOK' /\ Switches'
    BY <1>1, <2>1 DEF LifeInv, LifeTypeOK, Switches
  <2>3. main' = "delete" => Spared' = Spared
    BY <2>1 DEF Spared, Live
  <2>4. main' = "delete" => SparedOne'
    BY <1>1, <2>1, <2>3, FewerSpared DEF LifeInv
  <2>5. QED
    BY <2>1, <2>2, <2>4 DEF LifeInv
<1>3. CASE DeleteSocketInfo
  <2>1. PICK n \in ahead : /\ ahead' = ahead \ {n}
                           /\ info' = [info EXCEPT ![n] = "deleted"]
    BY <1>3 DEF DeleteSocketInfo
  <2>2. /\ main = "delete" /\ main' = main
        /\ UNCHANGED <<critsecWork, clientsSocketMap>>
    BY <1>3 DEF DeleteSocketInfo
  <2>3. LifeTypeOK' /\ Switches'
    BY <1>1, <2>1, <2>2 DEF LifeInv, LifeTypeOK, Switches
  <2>4. Spared' \subseteq Spared
    BY <2>1, <2>2 DEF Spared, Live, LifeInv, LifeTypeOK
  <2>5. QED
    BY <1>1, <2>2, <2>3, <2>4, FewerSpared DEF LifeInv
<1>4. CASE ClearMap
  <2>1. /\ main = "delete" /\ main' = "join" /\ ahead = {}
        /\ clientsSocketMap' = {} /\ UNCHANGED <<ahead, critsecWork, info>>
    BY <1>4 DEF ClearMap, MainDoes, FollowedBy
  <2>2. LifeTypeOK' /\ Switches'
    BY <1>1, <2>1 DEF LifeInv, LifeTypeOK, Switches
  <2>3. Spared' = Spared
    BY <2>1 DEF Spared, Live
  <2>4. QED
    BY <1>1, <2>1, <2>2, <2>3, FewerSpared DEF LifeInv
<1>5. QED
  BY <1>2, <1>3, <1>4

\* The rest of the shutdown touches no SocketInfo.
LEMMA EndLife ==
  ASSUME LifeInv, ~Over, Join \/ CloseDatabase
  PROVE  LifeInv'
<1>1. /\ UNCHANGED <<accepter, accepted, bAccept, winsock, critsecWork, info,
                     clientsSocketMap, ahead, posted>>
      /\ \/ main = "join" /\ main' \in {"close", "crashed"}
         \/ main = "close" /\ main' = "ended"
  BY DEF Join, CloseDatabase, MainDoes, MayCrash, FollowedBy
<1>2. LifeTypeOK' /\ Switches'
  BY <1>1 DEF LifeInv, LifeTypeOK, Switches
<1>3. main' # "crashed" => Spared' = Spared
  BY <1>1 DEF Spared, Live
<1>4. main' # "crashed" => SparedOne'
  BY <1>1, <1>3, FewerSpared DEF LifeInv, Over
<1>5. QED
  BY <1>2, <1>4 DEF LifeInv

\* A worker that removes a connection deletes its SocketInfo and its entry.
LEMMA RemovalLife ==
  ASSUME LifeInv, ~Over, NEW n \in Clients, RemoveDisconnectedClient(n)
  PROVE  LifeInv'
<1>1. /\ posted' = posted \ {n}
      /\ info' = [info EXCEPT ![n] = "deleted"]
      /\ clientsSocketMap' = clientsSocketMap \ {n} /\ ahead' = ahead \ {n}
      /\ main' \in {main, "crashed"}
      /\ UNCHANGED <<accepter, accepted, bAccept, winsock, critsecWork>>
  BY DEF RemoveDisconnectedClient
<1>2. LifeTypeOK'
  BY <1>1 DEF LifeInv, LifeTypeOK
<1>3. Switches'
  BY <1>1 DEF LifeInv, Switches
<1>4. main' = main => Spared' \subseteq Spared
  BY <1>1 DEF Spared, Live, LifeInv, LifeTypeOK
<1>5. QED
  BY <1>1, <1>2, <1>3, <1>4, FewerSpared DEF LifeInv, Over

\* The queries of the workers, and a stutter, are beside it.
LEMMA AsideLife == ASSUME LifeInv, UNCHANGED lifeVars PROVE LifeInv'
<1>1. Spared' = Spared /\ LifeTypeOK' /\ Switches'
  BY DEF lifeVars, LifeInv, LifeTypeOK, Switches, Spared, Live
<1>2. main' = main /\ UNCHANGED <<accepter, accepted, winsock>>
  BY DEF lifeVars
<1>3. QED
  BY <1>1, <1>2, FewerSpared DEF LifeInv

\* Every step of the process keeps the invariant.
LEMMA NextLife == LifeInv /\ [LifeNext]_vars => LifeInv'
<1> SUFFICES ASSUME LifeInv, [LifeNext]_vars PROVE LifeInv'
  OBVIOUS
<1>1. CASE ~Over /\ Accepter
  BY <1>1, AcceptLife, IdleAccepterLife, AddLife, PostLife DEF Accepter
<1>2. CASE ~Over /\ (BeginShutdown \/ ShutdownServer)
  BY <1>2, WinsockLife, DeleteLife, EndLife DEF ShutdownServer
<1>3. CASE ~Over /\ \E n \in Clients : RemoveDisconnectedClient(n)
  BY <1>3, RemovalLife
<1>4. CASE (\E w \in Workers : Ask(w) \/ Query(w)) \/ UNCHANGED vars
  BY <1>4, AsideLife DEF Ask, Query, vars
<1>5. QED
  BY <1>1, <1>2, <1>3, <1>4 DEF LifeNext

\* The invariant holds throughout, however the shutdown meets the threads.
THEOREM LifeInvariance == LifeSpec => []LifeInv
<1>1. QED
  BY InitLife, NextLife, PTL DEF LifeSpec

\* The threads and the main thread keep the types of what they share.
THEOREM LifeTypes == LifeSpec => []LifeTypeOK
<1>1. LifeInv => LifeTypeOK
  BY DEF LifeInv
<1>2. QED
  BY <1>1, LifeInvariance, PTL

\* ShutdownServer gives back every SocketInfo but at most one, although the
\* accepter and the workers run beside it.
THEOREM ShutdownReturns == LifeSpec => []SocketsReturned
<1>1. LifeInv => SocketsReturned
  <2> SUFFICES ASSUME LifeInv, main = "ended"
               PROVE  Cardinality(Live) <= 1
    BY DEF SocketsReturned, Live
  <2>1. \A m, n \in Live : m = n
    BY DEF LifeInv, SparedOne, Spared
  <2>2. CASE Live = {}
    BY <2>2, FS_EmptySet
  <2>3. CASE \E n : Live = {n}
    BY <2>3, FS_Singleton
  <2>4. QED
    BY <2>1, <2>2, <2>3
<1>2. QED
  BY <1>1, LifeInvariance, PTL

\* The threads of the server change the database by its own steps only.
LEMMA LifeIsDb == LifeInit /\ [][LifeNext]_vars => Init /\ [][Next]_dbVars
<1>1. LifeInit => Init
  BY DEF LifeInit
<1>2. ASSUME LifeNext PROVE Next \/ UNCHANGED dbVars
  <2>1. CASE Accepter \/ BeginShutdown
    BY <2>1 DEF Accepter, CheckAcceptable, Accept, AcceptFails, AddSocketInfo,
                PostFirstRecv, BeginShutdown
  <2>2. CASE ShutdownServer
    BY <2>2 DEF ShutdownServer, CleanupWinsock, DeleteSection,
                DeleteSocketInfo, ClearMap, Join, CloseDatabase, Next
  <2>3. CASE \E n \in Clients : RemoveDisconnectedClient(n)
    BY <2>3 DEF RemoveDisconnectedClient
  <2>4. CASE \E w \in Workers : Ask(w) \/ Query(w)
    BY <2>4 DEF Ask, Query, Next
  <2>5. QED
    BY <1>2, <2>1, <2>2, <2>3, <2>4 DEF LifeNext
<1>3. [LifeNext]_vars => [Next]_dbVars
  BY <1>2 DEF vars
<1>4. QED
  BY <1>1, <1>3, PTL

\* However the queries of the workers overlap on the one statement handle, and
\* however the server starts, runs and shuts down: a query by itself takes
\* effect at one moment of its call and answers what the table holds then, also
\* after some that overlapped, and every sign-up that says so has added a row
\* with a new id.
THEOREM LifeQueries == LifeSpec => IsAccountStore
<1>1. HandleInv /\ [Next]_dbVars => HandleInv'
  BY NextHandle
<1>2. QED
  BY <1>1, LifeIsDb, InitHandle, InitMaps, NextMaps, PTL
  DEF LifeSpec, IsAccountStore, Store!Spec
=============================================================================
