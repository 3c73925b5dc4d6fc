---------------------------- MODULE AccountStore ----------------------------
(***************************************************************************)
(* What the server's handlers can count on from Database::Login and        *)
(* Database::SignUp: every call takes effect at one moment between its     *)
(* beginning and its end, and is refused only when the database is down.   *)
(* A call during which no other one runs is answered by the table.  Calls  *)
(* that overlap share a statement and may be answered by anything, but the *)
(* table keeps its key, a sign-up says whether it has added a row, and the *)
(* next call that is by itself is answered right again.                    *)
(***************************************************************************)
CONSTANTS
  Workers, Ids, Passwords, NoCall, NoReply,
  Unreadable  \* strings that may keep a login from succeeding

VARIABLES
  down,      \* the database cannot be reached any more
  accounts,  \* the rows <<id, pw>> of dbo.AccountInfo
  call,      \* the call each worker is in
  reply,     \* its result, once it has taken effect
  mixed      \* it overlaps another one before it has taken effect

storeVars == <<down, accounts, call, reply, mixed>>

Strings == Ids \cup Passwords
Call == [type : {"LOGIN", "SIGNUP"}, id : Ids, pw : Passwords]
Registered(id) == \E account \in accounts : account[1] = id

Init == /\ down \in BOOLEAN
        /\ accounts = {}
        /\ call = [w \in Workers |-> NoCall]
        /\ reply = [w \in Workers |-> NoReply]
        /\ mixed = [w \in Workers |-> FALSE]

\* From now on w overlaps every call in progress, and those overlap it that
\* have not taken effect.
Mixing(w) ==
  mixed' = [v \in Workers |->
              IF v = w THEN \E u \in Workers \ {w} : call[u] # NoCall
              ELSE mixed[v] \/ (call[v] # NoCall /\ reply[v] = NoReply)]

Ask(w) == /\ call[w] = NoCall
          /\ \E c \in Call : call' = [call EXCEPT ![w] = c]
          /\ Mixing(w)
          /\ UNCHANGED <<down, accounts, reply>>

Asks(w, type) == call[w] # NoCall /\ call[w].type = type

Serve(w, ok) == /\ call[w] # NoCall /\ reply[w] = NoReply
                /\ reply' = [reply EXCEPT ![w] = ok]
                /\ UNCHANGED <<down, call, mixed>>

\* The table answers, or refuses a string it need not recognise.
Login(w) ==
  /\ ~down /\ ~mixed[w] /\ Asks(w, "LOGIN")
  /\ \/ Serve(w, <<call[w].id, call[w].pw>> \in accounts)
     \/ {call[w].id, call[w].pw} \cap Unreadable # {} /\ Serve(w, FALSE)
  /\ UNCHANGED accounts

Add(w, id, pw) == /\ Serve(w, ~Registered(id))
                  /\ accounts' = IF Registered(id) THEN accounts
                                 ELSE accounts \cup {<<id, pw>>}

SignUp(w) == /\ ~down /\ ~mixed[w] /\ Asks(w, "SIGNUP")
             /\ Add(w, call[w].id, call[w].pw)

LoginMixed(w) == /\ ~down /\ mixed[w] /\ Asks(w, "LOGIN")
                 /\ \E ok \in BOOLEAN : Serve(w, ok)
                 /\ UNCHANGED accounts

SignUpMixed(w) == /\ ~down /\ mixed[w] /\ Asks(w, "SIGNUP")
                  /\ \/ \E id, pw \in Strings : Add(w, id, pw)
                     \/ Serve(w, FALSE) /\ UNCHANGED accounts

Refuse(w) == /\ down
             /\ Serve(w, FALSE)
             /\ UNCHANGED accounts

Return(w) == /\ reply[w] # NoReply
             /\ call' = [call EXCEPT ![w] = NoCall]
             /\ reply' = [reply EXCEPT ![w] = NoReply]
             /\ mixed' = [mixed EXCEPT ![w] = FALSE]
             /\ UNCHANGED <<down, accounts>>

GoDown == /\ down' = TRUE
          /\ UNCHANGED <<accounts, call, reply, mixed>>

Next == \/ GoDown
        \/ \E w \in Workers : \/ Ask(w) \/ Login(w) \/ SignUp(w)
                               \/ LoginMixed(w) \/ SignUpMixed(w)
                               \/ Refuse(w) \/ Return(w)

Spec == Init /\ [][Next]_storeVars
=============================================================================
