------------------------ MODULE ProfileImagesProofs -------------------------
(***************************************************************************)
(* Proofs about the picture packets, for any number of users, pictures and *)
(* clicks.                                                                 *)
(*                                                                         *)
(* No step uses an id, an extension or a file that is not there            *)
(* (ImagesInv): whoever asks or sends is logged in, whoever sends a        *)
(* picture has had its extension handled, and a file found before the      *)
(* pause is there after it.                                                *)
(*                                                                         *)
(* When users take turns, a click opens the last picture.  One client at a *)
(* time is at setting a picture or asking for one, and the server at       *)
(* handling it (BaseInv); all that is on the way to the clients is about   *)
(* one account, names ahead of the bytes, and leaves every client with the *)
(* picture that account set last (FlowInv).                                *)
(***************************************************************************)
EXTENDS ProfileImages, SequenceTheorems, TLAPS

\* What goes to the server, what its loops send to all, and what a client gets.
UpPackets == {LoginInfo} \cup {ImageExt(ext) : ext \in Exts}
             \cup {Image(pic) : pic \in Pictures}
             \cup {ImageRequest(id) : id \in Ids}
Announced == {NamedExt(name) : name \in FileNames}
             \cup {Image(pic) : pic \in Pictures} \cup {Goodbye(id) : id \in Ids}
DownPackets == {LoginInfo} \cup {Requested(pic) : pic \in Pictures}
               \cup Announced

HasType(queue, type) == \E i \in 1 .. Len(queue) : queue[i].type = type

ServerTypes ==
  /\ clientsSocketMap \subseteq Clients
  /\ idMap \in [Clients -> Ids \cup {None}]
  /\ profileImageExtMap \in [Clients -> Exts \cup {None}]
  /\ saved \in [FileNames -> Pictures \cup {None}]

HandlerTypes ==
  /\ at \in [Clients -> {"recv", "ext", "pause", "image", "bye", "spin"}]
  /\ msg \in [Clients -> Announced \cup {NoMsg}]
  /\ todo \in [Clients -> SUBSET Clients]
  /\ pkt \in [Clients -> UpPackets \cup {NoMsg}]

QueueTypes ==
  /\ up \in [Clients -> Seq(UpPackets)]
  /\ down \in [Clients -> Seq(DownPackets)]

ProgramTypes ==
  /\ session \in [Clients -> {"off", "on", "in", "left"}]
  /\ myId \in [Clients -> Ids \cup {None}]
  /\ idExtMap \in [Clients -> [Ids -> Exts \cup {None}]]
  /\ lastImageName \in [Clients -> FileNames \cup {None}]
  /\ stored \in [Clients -> [Dirs \X Ids \X Exts -> Pictures \cup {None}]]

UserTypes ==
  /\ sending \in [Clients -> Pictures \cup {None}]
  /\ taken \in [Clients -> Nat]
  /\ \A c \in Clients : taken[c] <= MaxPictures[c]
  /\ clicks \in [Clients -> 0 .. MaxClicks]
  /\ popup \in [Clients -> [id : Ids, pic : Pictures \cup {None}] \cup {None}]
  /\ latest \in [Ids -> Pictures \cup {None}] /\ twice \subseteq Ids

Types == ServerTypes /\ HandlerTypes /\ QueueTypes /\ ProgramTypes /\ UserTypes

\* What only a user who is logged in sends.
UserPackets == {"IMAGE_EXT", "IMAGE", "IMAGE_REQUEST"}

\* Whoever is logged in, or has something on the way that takes a login, has an
\* entry in idMap: it goes only once the client has left and all it sent has
\* been handled.
SessionOf(c) ==
  /\ idMap[c] \in {None, IdOf[c]} /\ myId[c] \in {None, IdOf[c]}
  /\ session[c] = "left" => down[c] = <<>>
  /\ sending[c] # None => session[c] = "in"
  /\ at[c] = "bye" => session[c] = "left" /\ up[c] = <<>>
  /\ HasType(up[c], "LOGIN_INFO") => myId[c] = IdOf[c]
  /\ \/ session[c] = "in" \/ HasType(down[c], "LOGIN_INFO")
     \/ \E type \in UserPackets : HasType(up[c], type)
     => idMap[c] = IdOf[c] /\ myId[c] = IdOf[c]

\* Before the first extension of a client has been handled, each picture of it
\* has one ahead in the queue.
ExtsAhead(queue) ==
  \A i \in 1 .. Len(queue) : queue[i].type = "IMAGE" =>
    \E j \in 1 .. i - 1 : queue[j].type = "IMAGE_EXT"

AnnouncedBy(c) ==
  profileImageExtMap[c] = None =>
    /\ ExtsAhead(up[c])
    /\ sending[c] # None => HasType(up[c], "IMAGE_EXT")

\* In the pause of an answer the file is there.
FoundBy(c) ==
  /\ at[c] = "ext" => pkt[c].type = "IMAGE"
  /\ at[c] = "pause" /\ pkt[c].type = "IMAGE_REQUEST" =>
       msg[c].name \in FileNames /\ saved[msg[c].name] \in Pictures

Follows == \A c \in Clients : SessionOf(c) /\ AnnouncedBy(c) /\ FoundBy(c)

ImagesInv == Types /\ Follows

-----------------------------------------------------------------------------
(* Packets and queues of them.                                              *)

\* The type of a packet says what else is in it.
LEMMA UpPacket ==
  ASSUME NEW m \in UpPackets
  PROVE  /\ m.type \in {"LOGIN_INFO"} \cup UserPackets
         /\ m.type = "IMAGE_EXT" => m.ext \in Exts
         /\ m.type = "IMAGE" => m.pic \in Pictures /\ m = Image(m.pic)
         /\ m.type = "IMAGE_REQUEST" => m.id \in Ids
BY DEF UpPackets, UserPackets, LoginInfo, ImageExt, Image, ImageRequest

LEMMA DownPacket ==
  /\ \A m \in DownPackets :
       /\ m.type = "IMAGE_EXT" => m.name \in FileNames
       /\ m.type \in {"IMAGE", "IMAGE_REQUEST"} => m.pic \in Pictures
       /\ m.type = "DISCONNECTED_ID" => m.id \in Ids
  /\ \A m \in Announced : m \in DownPackets /\ m.type # "LOGIN_INFO"
BY DEF DownPackets, Announced, LoginInfo, NamedExt, Image, Requested, Goodbye

\* What the programs put together are packets.
LEMMA Packets ==
  /\ LoginInfo \in UpPackets /\ LoginInfo \in DownPackets
  /\ \A ext \in Exts : ImageExt(ext) \in UpPackets
  /\ \A pic \in Pictures : /\ Image(pic) \in UpPackets
                            /\ Image(pic) \in Announced
                            /\ Requested(pic) \in DownPackets
  /\ \A id \in Ids : ImageRequest(id) \in UpPackets /\ Goodbye(id) \in Announced
  /\ \A name \in FileNames : NamedExt(name) \in Announced
                             /\ NamedExt(name).name = name
  /\ NoMsg.type = "NONE"
BY DEF UpPackets, DownPackets, Announced, NamedExt, NoMsg

\* A packet more, at the end.
LEMMA Appended ==
  ASSUME NEW S, NEW queue \in Seq(S), NEW m \in S
  PROVE  /\ Append(queue, m) \in Seq(S) /\ Append(queue, m) # <<>>
         /\ \A type : HasType(Append(queue, m), type)
                        <=> HasType(queue, type) \/ m.type = type
<1> DEFINE longer == Append(queue, m)
<1>1. /\ longer \in Seq(S) /\ Len(longer) = Len(queue) + 1
      /\ \A i \in 1 .. Len(queue) : longer[i] = queue[i]
      /\ longer[Len(queue) + 1] = m /\ Len(queue) \in Nat
  BY AppendProperties
<1> HIDE DEF longer
<1>2. /\ \A i \in 1 .. Len(queue) : i \in 1 .. Len(longer)
      /\ Len(queue) + 1 \in 1 .. Len(longer) /\ longer # <<>>
      /\ \A i \in 1 .. Len(longer) : i \in 1 .. Len(queue) \/ i = Len(queue) + 1
  BY <1>1
<1>3. \A type : HasType(longer, type) <=> HasType(queue, type) \/ m.type = type
  BY <1>1, <1>2 DEF HasType
<1>4. QED
  BY <1>1, <1>2, <1>3 DEF longer

\* A packet less, at the front.
LEMMA Shortened ==
  ASSUME NEW S, NEW queue \in Seq(S), queue # <<>>
  PROVE  /\ Head(queue) \in S /\ Tail(queue) \in Seq(S)
         /\ HasType(queue, Head(queue).type)
         /\ \A type : HasType(Tail(queue), type) => HasType(queue, type)
         /\ \A type : HasType(queue, type)
                        => Head(queue).type = type \/ HasType(Tail(queue), type)
<1> DEFINE rest == Tail(queue)
<1>1. /\ Head(queue) = queue[1] /\ queue[1] \in S /\ 1 \in 1 .. Len(queue)
      /\ Len(queue) \in Nat
      /\ rest \in Seq(S) /\ Len(rest) = Len(queue) - 1
      /\ \A i \in 1 .. Len(rest) : rest[i] = queue[i + 1]
  BY HeadTailProperties
<1> HIDE DEF rest
<1>2. /\ \A i \in 1 .. Len(rest) : i + 1 \in 1 .. Len(queue)
      /\ \A i \in 1 .. Len(queue) :
           i = 1 \/ (i - 1 \in 1 .. Len(rest) /\ (i - 1) + 1 = i)
  BY <1>1
<1>3. \A type : HasType(rest, type) => HasType(queue, type)
  BY <1>1, <1>2 DEF HasType
<1>4. \A type : HasType(queue, type)
                  => Head(queue).type = type \/ HasType(rest, type)
  <2> SUFFICES ASSUME NEW type, NEW i \in 1 .. Len(queue), queue[i].type = type
               PROVE  Head(queue).type = type \/ HasType(rest, type)
    BY DEF HasType
  <2>1. CASE i = 1
    BY <1>1, <2>1
  <2>2. CASE i # 1
    <3>1. i - 1 \in 1 .. Len(rest) /\ rest[i - 1] = queue[i]
      BY <1>1, <1>2, <2>2
    <3>2. QED
      BY <3>1 DEF HasType
  <2>3. QED
    BY <2>1, <2>2
<1>5. QED
  BY <1>1, <1>3, <1>4 DEF HasType, rest

\* An extension is still ahead when a packet is added behind it, or one that is
\* none is taken off the front.
LEMMA AheadAppended ==
  ASSUME NEW S, NEW queue \in Seq(S), NEW m \in S, ExtsAhead(queue),
         m.type = "IMAGE" => HasType(queue, "IMAGE_EXT")
  PROVE  ExtsAhead(Append(queue, m))
<1> DEFINE longer == Append(queue, m)
<1>1. /\ longer \in Seq(S) /\ Len(longer) = Len(queue) + 1
      /\ \A i \in 1 .. Len(queue) : longer[i] = queue[i]
      /\ longer[Len(queue) + 1] = m /\ Len(queue) \in Nat
  BY AppendProperties
<1> HIDE DEF longer
<1> SUFFICES ASSUME NEW i \in 1 .. Len(longer), longer[i].type = "IMAGE"
             PROVE  \E j \in 1 .. i - 1 : longer[j].type = "IMAGE_EXT"
  BY DEF ExtsAhead, longer
<1>2. CASE i \in 1 .. Len(queue)
  <2>1. PICK j \in 1 .. i - 1 : queue[j].type = "IMAGE_EXT"
    BY <1>1, <1>2 DEF ExtsAhead
  <2>2. j \in 1 .. Len(queue)
    BY <1>1, <1>2
  <2>3. QED
    BY <1>1, <2>1, <2>2
<1>3. CASE i = Len(queue) + 1
  <2>1. PICK j \in 1 .. Len(queue) : queue[j].type = "IMAGE_EXT"
    BY <1>1, <1>3 DEF HasType
  <2>2. j \in 1 .. i - 1
    BY <1>1, <1>3
  <2>3. QED
    BY <1>1, <2>1, <2>2
<1>4. i \in 1 .. Len(queue) \/ i = Len(queue) + 1
  BY <1>1
<1>5. QED
  BY <1>2, <1>3, <1>4

LEMMA AheadShortened ==
  ASSUME NEW S, NEW queue \in Seq(S), queue # <<>>, ExtsAhead(queue),
         Head(queue).type # "IMAGE_EXT"
  PROVE  Head(queue).type # "IMAGE" /\ ExtsAhead(Tail(queue))
<1> DEFINE rest == Tail(queue)
<1>1. /\ Head(queue) = queue[1] /\ 1 \in 1 .. Len(queue)
      /\ Len(queue) \in Nat
      /\ rest \in Seq(S) /\ Len(rest) = Len(queue) - 1
      /\ \A i \in 1 .. Len(rest) : rest[i] = queue[i + 1]
  BY HeadTailProperties
<1>2. Head(queue).type # "IMAGE"
  BY <1>1 DEF ExtsAhead
<1> HIDE DEF rest
<1>3. ASSUME NEW i \in 1 .. Len(rest), rest[i].type = "IMAGE"
      PROVE  \E j \in 1 .. i - 1 : rest[j].type = "IMAGE_EXT"
  <2>1. i + 1 \in 1 .. Len(queue) /\ queue[i + 1].type = "IMAGE" /\ i \in Nat
    BY <1>1, <1>3
  <2>2. PICK j \in 1 .. (i + 1) - 1 : queue[j].type = "IMAGE_EXT"
    BY <2>1 DEF ExtsAhead
  <2>3. j # 1
    BY <1>1, <2>2
  <2>4. j - 1 \in 1 .. i - 1 /\ j - 1 \in 1 .. Len(rest) /\ (j - 1) + 1 = j
    BY <1>1, <2>1, <2>2, <2>3
  <2>5. rest[j - 1].type = "IMAGE_EXT"
    BY <1>1, <2>2, <2>4
  <2>6. QED
    BY <2>4, <2>5
<1>4. QED
  BY <1>2, <1>3 DEF ExtsAhead, rest

-----------------------------------------------------------------------------
(* What a step does to the queues.                                          *)

\* A program sends a packet to the server.
LEMMA SentUp ==
  ASSUME Types, NEW c \in Clients, NEW m \in UpPackets,
         up' = [up EXCEPT ![c] = Append(@, m)]
  PROVE  /\ up' \in [Clients -> Seq(UpPackets)] /\ up'[c] # <<>>
         /\ \A d \in Clients \ {c} : up'[d] = up[d]
         /\ \A type : HasType(up'[c], type)
                        <=> HasType(up[c], type) \/ m.type = type
         /\ /\ ExtsAhead(up[c])
            /\ m.type = "IMAGE" => HasType(up[c], "IMAGE_EXT")
            => ExtsAhead(up'[c])
<1>1. up[c] \in Seq(UpPackets) /\ up'[c] = Append(up[c], m)
  BY DEF Types, QueueTypes
<1>2. up'[c] \in Seq(UpPackets) /\ up'[c] # <<>>
  BY <1>1, Appended
<1>3. \A type : HasType(up'[c], type) <=> HasType(up[c], type) \/ m.type = type
  BY <1>1, Appended
<1>4. ASSUME ExtsAhead(up[c]), m.type = "IMAGE" => HasType(up[c], "IMAGE_EXT")
      PROVE  ExtsAhead(up'[c])
  BY <1>1, <1>4, AheadAppended
<1>5. QED
  BY <1>2, <1>3, <1>4 DEF Types, QueueTypes

\* A handler of the server takes a packet; the first of a client that comes
\* before any extension is not a picture.
LEMMA HandledUp ==
  ASSUME Types, NEW c \in Clients, NEW type, Handles(c, type)
  PROVE  /\ up' \in [Clients -> Seq(UpPackets)] /\ at[c] = "recv"
         /\ Head(up[c]) \in UpPackets /\ Head(up[c]).type = type
         /\ HasType(up[c], type)
         /\ \A d \in Clients \ {c} : up'[d] = up[d]
         /\ \A t : HasType(up'[c], t) => HasType(up[c], t)
         /\ \A t : HasType(up[c], t) => type = t \/ HasType(up'[c], t)
         /\ ExtsAhead(up[c]) /\ type # "IMAGE_EXT" =>
              type # "IMAGE" /\ ExtsAhead(up'[c])
<1>1. /\ up[c] \in Seq(UpPackets) /\ up[c] # <<>> /\ up'[c] = Tail(up[c])
      /\ Head(up[c]).type = type
  BY DEF Types, QueueTypes, Handles
<1>2. /\ Head(up[c]) \in UpPackets /\ up'[c] \in Seq(UpPackets)
      /\ HasType(up[c], type)
      /\ \A t : HasType(up'[c], t) => HasType(up[c], t)
      /\ \A t : HasType(up[c], t) => type = t \/ HasType(up'[c], t)
  BY <1>1, Shortened
<1>3. ASSUME ExtsAhead(up[c]), type # "IMAGE_EXT"
      PROVE  type # "IMAGE" /\ ExtsAhead(up'[c])
  BY <1>1, <1>3, AheadShortened
<1>4. QED
  BY <1>1, <1>2, <1>3 DEF Types, QueueTypes, Handles

\* The server sends a packet to a client: none that has left gets it.
LEMMA SentDown ==
  ASSUME Types, NEW c \in Clients, NEW m \in DownPackets,
         down' = Sent(down, c, m)
  PROVE  /\ down' \in [Clients -> Seq(DownPackets)]
         /\ \A d \in Clients :
              /\ session[d] = "left" => down'[d] = down[d]
              /\ HasType(down'[d], "LOGIN_INFO") =>
                   \/ HasType(down[d], "LOGIN_INFO")
                   \/ d = c /\ m.type = "LOGIN_INFO"
<1>1. CASE Connected(c)
  <2>1. down[c] \in Seq(DownPackets) /\ down'[c] = Append(down[c], m)
    BY <1>1 DEF Types, QueueTypes, Sent
  <2>2. down'[c] \in Seq(DownPackets)
    BY <2>1, Appended
  <2>3. \A type : HasType(down'[c], type)
                    <=> HasType(down[c], type) \/ m.type = type
    BY <2>1, Appended
  <2>4. \A d \in Clients \ {c} : down'[d] = down[d]
    BY <1>1 DEF Types, QueueTypes, Sent
  <2>5. session[c] # "left"
    BY <1>1 DEF Connected
  <2>6. QED
    BY <1>1, <2>2, <2>3, <2>4, <2>5 DEF Types, QueueTypes, Sent
<1>2. CASE ~Connected(c)
  BY <1>2 DEF Types, QueueTypes, Sent
<1>3. QED
  BY <1>1, <1>2

\* The receive thread takes a packet.
LEMMA ReceivedDown ==
  ASSUME Types, NEW c \in Clients, NEW type, Receives(c, type)
  PROVE  /\ down' \in [Clients -> Seq(DownPackets)]
         /\ Head(down[c]) \in DownPackets /\ Head(down[c]).type = type
         /\ HasType(down[c], type)
         /\ \A d \in Clients \ {c} : down'[d] = down[d]
         /\ \A t : HasType(down'[c], t) => HasType(down[c], t)
         /\ session[c] # "left"
<1>1. /\ down[c] \in Seq(DownPackets) /\ down[c] # <<>>
      /\ down'[c] = Tail(down[c]) /\ Head(down[c]).type = type
  BY DEF Types, QueueTypes, Receives
<1>2. /\ Head(down[c]) \in DownPackets /\ down'[c] \in Seq(DownPackets)
      /\ HasType(down[c], type)
      /\ \A t : HasType(down'[c], t) => HasType(down[c], t)
  BY <1>1, Shortened
<1>3. QED
  BY <1>1, <1>2 DEF Types, QueueTypes, Receives, Connected

\* An empty queue.
LEMMA NothingQueued ==
  ~(\E type : HasType(<<>>, type)) /\ ExtsAhead(<<>>)
BY DEF HasType, ExtsAhead

LEMMA InitImages == Init => ImagesInv
<1> SUFFICES ASSUME Init PROVE ImagesInv
  OBVIOUS
<1>1. ServerTypes /\ HandlerTypes /\ ProgramTypes
  BY DEF Init, ServerTypes, HandlerTypes, ProgramTypes, Dirs, FileNames
<1>2. QueueTypes
  BY EmptySeq DEF Init, QueueTypes
<1>3. UserTypes
  BY ImagesAssumption DEF Init, UserTypes
<1>4. Follows
  BY NothingQueued DEF Init, Follows, SessionOf, AnnouncedBy, FoundBy
<1>5. QED
  BY <1>1, <1>2, <1>3, <1>4 DEF ImagesInv, Types

-----------------------------------------------------------------------------
(* The users' steps.                                                        *)

\* A step on behalf of c: of the others only the queues of packets to them
\* change, which get no answers to logins, and no file goes.
OnlyOf(c) ==
  /\ \A d \in Clients \ {c} :
       /\ idMap'[d] = idMap[d] /\ profileImageExtMap'[d] = profileImageExtMap[d]
       /\ at'[d] = at[d] /\ msg'[d] = msg[d] /\ pkt'[d] = pkt[d]
       /\ up'[d] = up[d] /\ session'[d] = session[d] /\ myId'[d] = myId[d]
       /\ sending'[d] = sending[d]
       /\ session[d] = "left" => down'[d] = down[d]
       /\ HasType(down'[d], "LOGIN_INFO") => HasType(down[d], "LOGIN_INFO")
  /\ \A name : saved[name] \in Pictures => saved'[name] \in Pictures

\* What is left to show of a step on behalf of c.
LEMMA StepOf ==
  ASSUME ImagesInv, NEW c \in Clients, Types', OnlyOf(c),
         SessionOf(c)', AnnouncedBy(c)', FoundBy(c)'
  PROVE  ImagesInv'
<1>1. ASSUME NEW d \in Clients \ {c}
      PROVE  SessionOf(d)' /\ AnnouncedBy(d)' /\ FoundBy(d)'
  <2>1. SessionOf(d) /\ AnnouncedBy(d) /\ FoundBy(d)
    BY DEF ImagesInv, Follows
  <2>2. SessionOf(d)'
    BY <2>1 DEF OnlyOf, SessionOf
  <2>3. AnnouncedBy(d)' /\ FoundBy(d)'
    BY <2>1 DEF OnlyOf, AnnouncedBy, FoundBy
  <2>4. QED
    BY <2>2, <2>3
<1>2. QED
  BY <1>1 DEF ImagesInv, Follows

\* A new connection has sent nothing.
LEMMA ConnectImages ==
  ASSUME ImagesInv, NEW c \in Clients, Connect(c)
  PROVE  ImagesInv'
<1>a. SessionOf(c) /\ AnnouncedBy(c) /\ FoundBy(c)
  BY DEF ImagesInv, Follows
<1>1. Types'
  <2>1. ServerTypes'
    BY DEF ImagesInv, Types, ServerTypes, Connect
  <2>2. HandlerTypes'
    <3>1. PICK ahead \in SUBSET {d \in Clients : InLoop(d)} :
            todo' = [d \in Clients |-> IF d \in ahead THEN todo[d] \cup {c}
                                                      ELSE todo[d]]
      BY DEF Connect
    <3>2. todo' \in [Clients -> SUBSET Clients]
      BY <3>1 DEF ImagesInv, Types, HandlerTypes
    <3>3. QED
      BY <3>2 DEF ImagesInv, Types, HandlerTypes, Connect
  <2>3. (QueueTypes /\ ProgramTypes /\ UserTypes)'
    BY DEF ImagesInv, Types, QueueTypes, ProgramTypes, UserTypes, Connect,
           userVars
  <2>4. QED
    BY <2>1, <2>2, <2>3 DEF Types
<1>2. OnlyOf(c)
  BY DEF ImagesInv, Types, ProgramTypes, OnlyOf, Connect, userVars
<1>3. (SessionOf(c) /\ AnnouncedBy(c) /\ FoundBy(c))'
  BY <1>a DEF ImagesInv, Types, ProgramTypes, SessionOf, AnnouncedBy, FoundBy,
              Connect, userVars
<1>4. QED
  BY <1>1, <1>2, <1>3, StepOf

\* The request for a login is on its way only once Client has its id.
LEMMA ClickLoginImages ==
  ASSUME ImagesInv, NEW c \in Clients, ClickLogin(c)
  PROVE  ImagesInv'
<1>a. up' = [up EXCEPT ![c] = Append(@, LoginInfo)]
  BY DEF ClickLogin
<1>b. /\ up' \in [Clients -> Seq(UpPackets)]
      /\ \A d \in Clients \ {c} : up'[d] = up[d]
      /\ \A type : HasType(up'[c], type)
                     <=> HasType(up[c], type) \/ type = "LOGIN_INFO"
      /\ ExtsAhead(up[c]) => ExtsAhead(up'[c])
  <2>1. LoginInfo \in UpPackets /\ LoginInfo.type = "LOGIN_INFO" /\ Types
    BY Packets DEF ImagesInv, LoginInfo
  <2>2. LoginInfo.type # "IMAGE"
    BY <2>1
  <2> DEFINE m == LoginInfo
  <2>3. m \in UpPackets /\ up' = [up EXCEPT ![c] = Append(@, m)]
    BY <1>a, <2>1
  <2> HIDE DEF m
  <2>4. /\ up' \in [Clients -> Seq(UpPackets)]
        /\ \A d \in Clients \ {c} : up'[d] = up[d]
        /\ \A type : HasType(up'[c], type) <=> HasType(up[c], type) \/ m.type = type
        /\ /\ ExtsAhead(up[c])
           /\ m.type = "IMAGE" => HasType(up[c], "IMAGE_EXT")
           => ExtsAhead(up'[c])
    BY <2>1, <2>3, SentUp
  <2>5. QED
    BY <2>1, <2>2, <2>4 DEF m
<1>c. /\ session[c] = "on" /\ myId[c] = None
      /\ myId' = [myId EXCEPT ![c] = IdOf[c]] /\ IdOf[c] \in Ids
      /\ IdOf[c] # None
      /\ UNCHANGED <<serverVars, handlerVars, down, session, idExtMap,
                     lastImageName, stored, userVars>>
  BY ImagesAssumption DEF ClickLogin
<1>d. SessionOf(c) /\ AnnouncedBy(c) /\ FoundBy(c)
  BY DEF ImagesInv, Follows
<1>1. Types'
  BY <1>b, <1>c
  DEF ImagesInv, Types, ServerTypes, HandlerTypes, QueueTypes, ProgramTypes,
      UserTypes, serverVars, handlerVars, userVars
<1>2. OnlyOf(c)
  BY <1>b, <1>c DEF ImagesInv, Types, ProgramTypes, OnlyOf, serverVars,
                    handlerVars, userVars
<1>3. SessionOf(c)'
  BY <1>b, <1>c, <1>d
  DEF ImagesInv, Types, ProgramTypes, SessionOf, UserPackets, serverVars,
      handlerVars, userVars
<1>4. (AnnouncedBy(c) /\ FoundBy(c))'
  BY <1>b, <1>c, <1>d
  DEF AnnouncedBy, FoundBy, serverVars, handlerVars, userVars
<1>5. QED
  BY <1>1, <1>2, <1>3, <1>4, StepOf

\* Whoever may set a picture is logged in; its extension goes ahead.
LEMMA SetProfileImageImages ==
  ASSUME ImagesInv, NEW c \in Clients, SetProfileImage(c)
  PROVE  ImagesInv'
<1> DEFINE pic == [id |-> myId[c], by |-> c, no |-> taken[c] + 1]
<1>a. PICK ext \in ExtsOf[c] : up' = [up EXCEPT ![c] = Append(@, ImageExt(ext))]
  BY DEF SetProfileImage
<1> DEFINE m == ImageExt(ext)
<1>b. m \in UpPackets /\ m.type = "IMAGE_EXT"
  BY ImagesAssumption, Packets DEF ImageExt
<1> HIDE DEF m
<1>c. /\ up' \in [Clients -> Seq(UpPackets)]
      /\ \A d \in Clients \ {c} : up'[d] = up[d]
      /\ \A type : HasType(up'[c], type)
                     <=> HasType(up[c], type) \/ type = "IMAGE_EXT"
      /\ ExtsAhead(up[c]) => ExtsAhead(up'[c])
  <2>1. up' = [up EXCEPT ![c] = Append(@, m)]
    BY <1>a DEF m
  <2>2. Types
    BY DEF ImagesInv
  <2>3. /\ up' \in [Clients -> Seq(UpPackets)]
        /\ \A d \in Clients \ {c} : up'[d] = up[d]
        /\ \A type : HasType(up'[c], type)
                       <=> HasType(up[c], type) \/ m.type = type
        /\ /\ ExtsAhead(up[c])
           /\ m.type = "IMAGE" => HasType(up[c], "IMAGE_EXT")
           => ExtsAhead(up'[c])
    BY <1>b, <2>1, <2>2, SentUp
  <2>4. QED
    BY <1>b, <2>3
<1>d. SessionOf(c) /\ AnnouncedBy(c) /\ FoundBy(c)
  BY DEF ImagesInv, Follows
<1>e. /\ session[c] = "in" /\ idMap[c] = IdOf[c] /\ myId[c] = IdOf[c]
      /\ taken[c] \in Nat /\ taken[c] < MaxPictures[c] /\ MaxPictures[c] \in Nat
      /\ IdOf[c] \in Ids
  BY <1>d, ImagesAssumption
  DEF SetProfileImage, MayAct, ImagesInv, SessionOf, Types, UserTypes
<1>f. pic \in Pictures
  <2>1. pic \in [id : {IdOf[c]}, by : {c}, no : 1 .. MaxPictures[c]]
    BY <1>e
  <2>2. QED
    BY <2>1 DEF Pictures
<1>g. /\ taken' = [taken EXCEPT ![c] = @ + 1]
      /\ sending' = [sending EXCEPT ![c] = pic]
      /\ latest' = [latest EXCEPT ![myId[c]] = pic]
      /\ UNCHANGED <<serverVars, handlerVars, down, programVars, clicks, popup,
                     twice>>
  BY DEF SetProfileImage
<1> HIDE DEF pic
<1>1. Types'
  <2>1. (ServerTypes /\ HandlerTypes /\ ProgramTypes)'
    BY <1>g DEF ImagesInv, Types, ServerTypes, HandlerTypes, ProgramTypes,
                serverVars, handlerVars, programVars
  <2>2. QueueTypes'
    BY <1>c, <1>g DEF ImagesInv, Types, QueueTypes
  <2>3. UserTypes'
    BY <1>e, <1>f, <1>g DEF ImagesInv, Types, UserTypes
  <2>4. QED
    BY <2>1, <2>2, <2>3 DEF Types
<1>2. OnlyOf(c)
  BY <1>c, <1>g DEF ImagesInv, Types, UserTypes, OnlyOf, serverVars,
                    handlerVars, programVars
<1>3. SessionOf(c)'
  BY <1>c, <1>d, <1>e, <1>g DEF SessionOf, serverVars, handlerVars, programVars
<1>4. (AnnouncedBy(c) /\ FoundBy(c))'
  BY <1>c, <1>d, <1>g DEF AnnouncedBy, FoundBy, serverVars, handlerVars
<1>5. QED
  BY <1>1, <1>2, <1>3, <1>4, StepOf

\* The bytes go out behind the extension, if that has not been handled yet.
LEMMA SendBytesImages ==
  ASSUME ImagesInv, NEW c \in Clients, SendBytes(c)
  PROVE  ImagesInv'
<1> DEFINE m == Image(sending[c])
<1>a. SessionOf(c) /\ AnnouncedBy(c) /\ FoundBy(c) /\ Types
  BY DEF ImagesInv, Follows
<1>b. /\ sending[c] # None /\ sending[c] \in Pictures
      /\ sending' = [sending EXCEPT ![c] = None]
      /\ up' = [up EXCEPT ![c] = Append(@, m)]
      /\ UNCHANGED <<serverVars, handlerVars, down, programVars, taken, clicks,
                     popup, latest, twice>>
  BY <1>a DEF SendBytes, Types, UserTypes
<1>c. m \in UpPackets /\ m.type = "IMAGE"
  BY <1>b, Packets DEF Image
<1> HIDE DEF m
<1>d. /\ up' \in [Clients -> Seq(UpPackets)]
      /\ \A d \in Clients \ {c} : up'[d] = up[d]
      /\ \A type : HasType(up'[c], type)
                     <=> HasType(up[c], type) \/ m.type = type
      /\ /\ ExtsAhead(up[c])
         /\ m.type = "IMAGE" => HasType(up[c], "IMAGE_EXT")
         => ExtsAhead(up'[c])
  BY <1>a, <1>b, <1>c, SentUp
<1>1. Types'
  BY <1>a, <1>b, <1>d
  DEF Types, ServerTypes, HandlerTypes, QueueTypes, ProgramTypes, UserTypes,
      serverVars, handlerVars, programVars
<1>2. OnlyOf(c)
  BY <1>a, <1>b, <1>d DEF Types, UserTypes, OnlyOf, serverVars, handlerVars,
                          programVars
<1>3. SessionOf(c)'
  BY <1>a, <1>b, <1>c, <1>d
  DEF Types, UserTypes, SessionOf, serverVars, handlerVars, programVars
<1>4. (AnnouncedBy(c) /\ FoundBy(c))'
  BY <1>a, <1>b, <1>c, <1>d
  DEF Types, UserTypes, AnnouncedBy, FoundBy, serverVars, handlerVars
<1>5. QED
  BY <1>1, <1>2, <1>3, <1>4, StepOf

\* A click asks for a picture or opens a file; only who is logged in has ids
\* to click on.
LEMMA OnClickListClientsImages ==
  ASSUME ImagesInv, NEW c \in Clients, OnClickListClients(c)
  PROVE  ImagesInv'
<1>a. SessionOf(c) /\ AnnouncedBy(c) /\ FoundBy(c) /\ Types
  BY DEF ImagesInv, Follows
<1>b. /\ session[c] = "in" /\ sending[c] = None /\ clicks[c] < MaxClicks
      /\ clicks' = [clicks EXCEPT ![c] = @ + 1]
      /\ UNCHANGED <<serverVars, handlerVars, down, programVars, sending, taken,
                     latest, twice>>
  BY DEF OnClickListClients, MayAct
<1>c. clicks' \in [Clients -> 0 .. MaxClicks]
  BY <1>a, <1>b, ImagesAssumption DEF Types, UserTypes
<1>d. PICK id \in Ids :
        LET ext == idExtMap[c][id] IN
        IF ext = None
        THEN /\ up' = [up EXCEPT ![c] = Append(@, ImageRequest(id))]
             /\ UNCHANGED popup
        ELSE /\ popup' = [popup EXCEPT ![c] =
                  [id |-> id, pic |-> stored[c][<<myId[c], id, ext>>]]]
             /\ UNCHANGED up
  BY DEF OnClickListClients, Listed
<1>2. OnlyOf(c) /\ (SessionOf(c) /\ AnnouncedBy(c) /\ FoundBy(c))'
      /\ QueueTypes' /\ popup' \in [Clients -> [id : Ids, pic : Pictures \cup {None}]
                                                \cup {None}]
  <2>1. CASE idExtMap[c][id] = None
    <3> DEFINE m == ImageRequest(id)
    <3>1. m \in UpPackets /\ m.type = "IMAGE_REQUEST"
      BY Packets DEF ImageRequest
    <3>2. up' = [up EXCEPT ![c] = Append(@, m)] /\ popup' = popup
      BY <1>d, <2>1
    <3> HIDE DEF m
    <3>3. /\ up' \in [Clients -> Seq(UpPackets)]
          /\ \A d \in Clients \ {c} : up'[d] = up[d]
          /\ \A type : HasType(up'[c], type)
                         <=> HasType(up[c], type) \/ m.type = type
          /\ /\ ExtsAhead(up[c])
             /\ m.type = "IMAGE" => HasType(up[c], "IMAGE_EXT")
             => ExtsAhead(up'[c])
      BY <1>a, <3>1, <3>2, SentUp
    <3>4. QueueTypes' /\ popup' \in [Clients -> [id : Ids, pic : Pictures \cup {None}]
                                                \cup {None}]
      BY <1>a, <1>b, <3>2, <3>3 DEF Types, QueueTypes, UserTypes
    <3>5. OnlyOf(c) /\ (AnnouncedBy(c) /\ FoundBy(c))'
      BY <1>a, <1>b, <3>1, <3>3
      DEF OnlyOf, AnnouncedBy, FoundBy, serverVars, handlerVars, programVars
    <3>6. SessionOf(c)'
      BY <1>a, <1>b, <3>1, <3>3
      DEF SessionOf, serverVars, handlerVars, programVars
    <3>7. QED
      BY <3>4, <3>5, <3>6
  <2>2. CASE idExtMap[c][id] # None
    <3>1. /\ up' = up
          /\ popup' = [popup EXCEPT ![c] =
               [id |-> id, pic |-> stored[c][<<myId[c], id, idExtMap[c][id]>>]]]
      BY <1>d, <2>2
    <3>2. stored[c][<<myId[c], id, idExtMap[c][id]>>] \in Pictures \cup {None}
      <4>1. idExtMap[c][id] \in Exts /\ myId[c] \in Dirs
        BY <1>a, <2>2 DEF Types, ProgramTypes, Dirs
      <4>2. <<myId[c], id, idExtMap[c][id]>> \in Dirs \X Ids \X Exts
        BY <4>1
      <4>3. QED
        BY <1>a, <4>2 DEF Types, ProgramTypes
    <3>3. popup' \in [Clients -> [id : Ids, pic : Pictures \cup {None}]
                                  \cup {None}]
      BY <1>a, <3>1, <3>2 DEF Types, UserTypes
    <3>4. QueueTypes' /\ OnlyOf(c)
      BY <1>a, <1>b, <3>1
      DEF Types, QueueTypes, OnlyOf, serverVars, handlerVars, programVars
    <3>5. (SessionOf(c) /\ AnnouncedBy(c) /\ FoundBy(c))'
      BY <1>a, <1>b, <3>1 DEF SessionOf, AnnouncedBy, FoundBy, serverVars,
                              handlerVars, programVars
    <3>6. QED
      BY <3>3, <3>4, <3>5
  <2>3. QED
    BY <2>1, <2>2
<1>3. Types'
  BY <1>a, <1>b, <1>c, <1>2
  DEF Types, ServerTypes, HandlerTypes, ProgramTypes, UserTypes, serverVars,
      handlerVars, programVars
<1>4. QED
  BY <1>2, <1>3, StepOf

\* Who leaves takes nothing any more.
LEMMA LeaveImages ==
  ASSUME ImagesInv, NEW c \in Clients, Leave(c)
  PROVE  ImagesInv'
<1>a. SessionOf(c) /\ AnnouncedBy(c) /\ FoundBy(c) /\ Types
  BY DEF ImagesInv, Follows
<1>b. /\ session[c] \in {"on", "in"} /\ sending[c] = None
      /\ session' = [session EXCEPT ![c] = "left"]
      /\ down' = [down EXCEPT ![c] = <<>>] /\ down'[c] = <<>>
      /\ UNCHANGED <<serverVars, handlerVars, up, myId, idExtMap, lastImageName,
                     stored, userVars>>
  BY <1>a DEF Leave, Connected, Types, QueueTypes
<1>1. Types'
  <2>1. QueueTypes'
    BY <1>a, <1>b, EmptySeq DEF Types, QueueTypes
  <2>2. QED
    BY <1>a, <1>b, <2>1
    DEF Types, ServerTypes, HandlerTypes, ProgramTypes, UserTypes, serverVars,
        handlerVars, userVars
<1>2. OnlyOf(c)
  BY <1>a, <1>b DEF Types, QueueTypes, ProgramTypes, OnlyOf, serverVars,
                    handlerVars, userVars
<1>3. (SessionOf(c) /\ AnnouncedBy(c) /\ FoundBy(c))'
  BY <1>a, <1>b, NothingQueued
  DEF Types, ProgramTypes, SessionOf, AnnouncedBy, FoundBy, serverVars,
      handlerVars, userVars
<1>4. QED
  BY <1>1, <1>2, <1>3, StepOf

-----------------------------------------------------------------------------
(* The receive thread of a client.                                          *)

\* A packet less for the client: the server has not taken part, and only the
\* answer to a login changes the session.
LEMMA ReceivesImages ==
  ASSUME ImagesInv, NEW c \in Clients, NEW type, Receives(c, type),
         UNCHANGED <<serverVars, handlerVars, up, myId, userVars>>,
         ProgramTypes',
         \/ session' = session
         \/ type = "LOGIN_INFO" /\ session' = [session EXCEPT ![c] = "in"]
  PROVE  ImagesInv'
<1>a. SessionOf(c) /\ AnnouncedBy(c) /\ FoundBy(c) /\ Types
  BY DEF ImagesInv, Follows
<1>b. /\ down' \in [Clients -> Seq(DownPackets)]
      /\ HasType(down[c], type) /\ session[c] # "left"
      /\ \A d \in Clients \ {c} : down'[d] = down[d]
      /\ \A t : HasType(down'[c], t) => HasType(down[c], t)
  BY <1>a, ReceivedDown
<1>1. Types'
  BY <1>a, <1>b
  DEF Types, ServerTypes, HandlerTypes, QueueTypes, UserTypes, serverVars,
      handlerVars, userVars
<1>2. OnlyOf(c)
  BY <1>a, <1>b
  DEF Types, ProgramTypes, OnlyOf, serverVars, handlerVars, userVars
<1>3. /\ session'[c] # "left"
      /\ session'[c] = "in" => session[c] = "in" \/ HasType(down[c], "LOGIN_INFO")
      /\ session[c] = "in" => session'[c] = "in"
  BY <1>a, <1>b DEF Types, ProgramTypes
<1>4. SessionOf(c)'
  <2>1. /\ HasType(down'[c], "LOGIN_INFO") => HasType(down[c], "LOGIN_INFO")
        /\ session[c] # "left"
    BY <1>b
  <2>2. /\ idMap' = idMap /\ myId' = myId /\ sending' = sending /\ at' = at
        /\ up' = up
    BY DEF serverVars, handlerVars, userVars
  <2>3. QED
    BY <1>a, <1>3, <2>1, <2>2 DEF SessionOf
<1>5. (AnnouncedBy(c) /\ FoundBy(c))'
  BY <1>a DEF AnnouncedBy, FoundBy, serverVars, handlerVars, userVars
<1>6. QED
  BY <1>1, <1>2, <1>4, <1>5, StepOf

\* A picture is stored under the name that came last, or not at all.
LEMMA StoredType ==
  ASSUME Types, NEW c \in Clients, NEW pic \in Pictures
  PROVE  StoredImage(c, pic)
           \in [Clients -> [Dirs \X Ids \X Exts -> Pictures \cup {None}]]
<1>1. CASE lastImageName[c] = None
  BY <1>1 DEF Types, ProgramTypes, StoredImage
<1>2. CASE lastImageName[c] # None
  <2>1. lastImageName[c] \in Ids \X Exts /\ myId[c] \in Dirs
    BY <1>2 DEF Types, ProgramTypes, FileNames, Dirs
  <2>2. <<myId[c], lastImageName[c][1], lastImageName[c][2]>>
          \in Dirs \X Ids \X Exts
    BY <2>1
  <2>3. QED
    BY <1>2, <2>2 DEF Types, ProgramTypes, StoredImage
<1>3. QED
  BY <1>1, <1>2

\* The handlers of the five packets a client gets.
LEMMA ReceiveThreadImages ==
  ASSUME ImagesInv, NEW c \in Clients, ReceiveThread(c)
  PROVE  ImagesInv'
<1>a. Types
  BY DEF ImagesInv
<1>1. CASE LoginResult(c)
  <2>1. ProgramTypes'
    BY <1>1, <1>a DEF LoginResult, Types, ProgramTypes
  <2>2. QED
    BY <1>1, <2>1, ReceivesImages DEF LoginResult, userVars
<1>2. CASE SaveImageName(c)
  <2>1. Head(down[c]).name \in Ids \X Exts
    BY <1>2, <1>a, ReceivedDown, DownPacket DEF SaveImageName, FileNames
  <2>2. Head(down[c]).name[1] \in Ids /\ Head(down[c]).name[2] \in Exts
    BY <2>1
  <2>3. ProgramTypes'
    BY <1>2, <1>a, <2>1, <2>2
    DEF SaveImageName, Types, ProgramTypes, FileNames
  <2>4. QED
    BY <1>2, <2>3, ReceivesImages DEF SaveImageName
<1>3. CASE SaveImage(c)
  <2>1. Head(down[c]).pic \in Pictures
    BY <1>3, <1>a, ReceivedDown, DownPacket DEF SaveImage
  <2>2. ProgramTypes'
    BY <1>3, <1>a, <2>1, StoredType DEF SaveImage, Types, ProgramTypes
  <2>3. QED
    BY <1>3, <2>2, ReceivesImages DEF SaveImage, userVars
<1>4. CASE SendImageRequestMessage(c)
  <2>1. Head(down[c]).pic \in Pictures
    BY <1>4, <1>a, ReceivedDown, DownPacket DEF SendImageRequestMessage
  <2>2. ProgramTypes'
    BY <1>4, <1>a, <2>1, StoredType
    DEF SendImageRequestMessage, Types, ProgramTypes
  <2>3. QED
    BY <1>4, <2>2, ReceivesImages DEF SendImageRequestMessage, userVars
<1>5. CASE RemoveDisconnectedId(c)
  <2>1. Head(down[c]).id \in Ids
    BY <1>5, <1>a, ReceivedDown, DownPacket DEF RemoveDisconnectedId
  <2>2. ProgramTypes'
    BY <1>5, <1>a, <2>1 DEF RemoveDisconnectedId, Types, ProgramTypes
  <2>3. QED
    BY <1>5, <2>2, ReceivesImages DEF RemoveDisconnectedId, userVars
<1>6. QED
  BY <1>1, <1>2, <1>3, <1>4, <1>5 DEF ReceiveThread

-----------------------------------------------------------------------------
(* The server's handlers.                                                   *)

\* The request for a login is answered once idMap has the id.
LEMMA LoginImages ==
  ASSUME ImagesInv, NEW c \in Clients, Login(c)
  PROVE  ImagesInv'
<1>a. SessionOf(c) /\ AnnouncedBy(c) /\ FoundBy(c) /\ Types
  BY DEF ImagesInv, Follows
<1>b. /\ up' \in [Clients -> Seq(UpPackets)] /\ at[c] = "recv"
      /\ HasType(up[c], "LOGIN_INFO")
      /\ \A d \in Clients \ {c} : up'[d] = up[d]
      /\ \A t : HasType(up'[c], t) => HasType(up[c], t)
      /\ \A t : HasType(up[c], t) => "LOGIN_INFO" = t \/ HasType(up'[c], t)
      /\ ExtsAhead(up[c]) => ExtsAhead(up'[c])
  BY <1>a, HandledUp DEF Login
<1>c. /\ down' \in [Clients -> Seq(DownPackets)]
      /\ \A d \in Clients :
           /\ session[d] = "left" => down'[d] = down[d]
           /\ HasType(down'[d], "LOGIN_INFO") =>
                HasType(down[d], "LOGIN_INFO") \/ d = c
  BY <1>a, Packets, SentDown DEF Login
<1>d. /\ idMap' = [idMap EXCEPT ![c] = IdOf[c]] /\ IdOf[c] \in Ids
      /\ twice' \in {twice, twice \cup {IdOf[c]}}
      /\ UNCHANGED <<clientsSocketMap, profileImageExtMap, saved, handlerVars,
                     programVars, sending, taken, clicks, popup, latest>>
  BY ImagesAssumption DEF Login
<1>1. Types'
  BY <1>a, <1>b, <1>c, <1>d
  DEF Types, ServerTypes, HandlerTypes, QueueTypes, ProgramTypes, UserTypes,
      handlerVars, programVars, userVars
<1>2. OnlyOf(c)
  BY <1>a, <1>b, <1>c, <1>d
  DEF Types, ServerTypes, OnlyOf, handlerVars, programVars, userVars
<1>3. SessionOf(c)'
  BY <1>a, <1>b, <1>c, <1>d
  DEF Types, ServerTypes, SessionOf, handlerVars, programVars, userVars
<1>4. (AnnouncedBy(c) /\ FoundBy(c))'
  BY <1>a, <1>b, <1>d DEF AnnouncedBy, FoundBy, handlerVars, userVars
<1>5. QED
  BY <1>1, <1>2, <1>3, <1>4, StepOf

\* From here on the client has an extension.
LEMMA SaveImageExtImages ==
  ASSUME ImagesInv, NEW c \in Clients, SaveImageExt(c)
  PROVE  ImagesInv'
<1>a. SessionOf(c) /\ AnnouncedBy(c) /\ FoundBy(c) /\ Types
  BY DEF ImagesInv, Follows
<1>b. /\ up' \in [Clients -> Seq(UpPackets)] /\ at[c] = "recv"
      /\ Head(up[c]) \in UpPackets /\ Head(up[c]).type = "IMAGE_EXT"
      /\ \A d \in Clients \ {c} : up'[d] = up[d]
      /\ \A t : HasType(up'[c], t) => HasType(up[c], t)
  BY <1>a, HandledUp DEF SaveImageExt
<1>c. Head(up[c]).ext \in Exts /\ Head(up[c]).ext # None
  BY <1>b, UpPacket, ImagesAssumption
<1>d. /\ profileImageExtMap' = [profileImageExtMap EXCEPT ![c] = Head(up[c]).ext]
      /\ UNCHANGED <<clientsSocketMap, idMap, saved, handlerVars, down,
                     programVars, userVars>>
  BY DEF SaveImageExt
<1>1. Types'
  BY <1>a, <1>b, <1>c, <1>d
  DEF Types, ServerTypes, HandlerTypes, QueueTypes, ProgramTypes, UserTypes,
      handlerVars, programVars, userVars
<1>2. OnlyOf(c)
  BY <1>a, <1>b, <1>d
  DEF Types, ServerTypes, OnlyOf, handlerVars, programVars, userVars
<1>3. SessionOf(c)'
  BY <1>a, <1>b, <1>d DEF SessionOf, handlerVars, programVars, userVars
<1>4. (AnnouncedBy(c) /\ FoundBy(c))'
  BY <1>a, <1>c, <1>d
  DEF Types, ServerTypes, AnnouncedBy, FoundBy, handlerVars
<1>5. QED
  BY <1>1, <1>2, <1>3, <1>4, StepOf

\* A picture comes from who is logged in and has had its extension handled.
LEMMA ImageHasName ==
  ASSUME ImagesInv, NEW c \in Clients, Handles(c, "IMAGE")
  PROVE  /\ Head(up[c]).pic \in Pictures /\ Head(up[c]) \in UpPackets
         /\ Head(up[c]).type = "IMAGE"
         /\ Head(up[c]) = Image(Head(up[c]).pic)
         /\ ImageName(c) \in FileNames
<1>a. SessionOf(c) /\ AnnouncedBy(c) /\ Types
  BY DEF ImagesInv, Follows
<1>1. /\ Head(up[c]) \in UpPackets /\ Head(up[c]).type = "IMAGE"
      /\ HasType(up[c], "IMAGE") /\ ~ExtsAhead(up[c])
  BY <1>a, HandledUp
<1>2. idMap[c] = IdOf[c] /\ profileImageExtMap[c] # None
  BY <1>a, <1>1 DEF SessionOf, UserPackets, AnnouncedBy
<1>3. idMap[c] \in Ids /\ profileImageExtMap[c] \in Exts
  BY <1>a, <1>2, ImagesAssumption DEF Types, ServerTypes
<1>4. QED
  BY <1>1, <1>3, UpPacket DEF ImageName, FileNames

\* The picture is saved, and its name goes around.
LEMMA RecvImageImages ==
  ASSUME ImagesInv, NEW c \in Clients, RecvImage(c)
  PROVE  ImagesInv'
<1>a. SessionOf(c) /\ AnnouncedBy(c) /\ FoundBy(c) /\ Types
  BY DEF ImagesInv, Follows
<1> DEFINE packet == Head(up[c])
           name   == ImageName(c)
<1>b. /\ up' \in [Clients -> Seq(UpPackets)] /\ at[c] = "recv"
      /\ \A d \in Clients \ {c} : up'[d] = up[d]
      /\ \A t : HasType(up'[c], t) => HasType(up[c], t)
      /\ \A t : HasType(up[c], t) => "IMAGE" = t \/ HasType(up'[c], t)
      /\ ~ExtsAhead(up[c])
  BY <1>a, HandledUp DEF RecvImage
<1>c. /\ packet.pic \in Pictures /\ packet \in UpPackets
      /\ packet.type = "IMAGE" /\ name \in FileNames
      /\ NamedExt(name) \in Announced
  BY ImageHasName, Packets DEF RecvImage
<1>d. /\ saved' = [saved EXCEPT ![name] = packet.pic]
      /\ \/ UNCHANGED handlerVars
         \/ /\ at' = [at EXCEPT ![c] = "ext"]
            /\ msg' = [msg EXCEPT ![c] = NamedExt(name)]
            /\ todo' = [todo EXCEPT ![c] = clientsSocketMap \ {c}]
            /\ pkt' = [pkt EXCEPT ![c] = packet]
      /\ UNCHANGED <<clientsSocketMap, idMap, profileImageExtMap, down,
                     programVars, userVars>>
  BY DEF RecvImage, StartBroadcast
<1> HIDE DEF packet, name
<1>1. Types'
  <2>1. ServerTypes'
    BY <1>a, <1>c, <1>d DEF Types, ServerTypes
  <2>2. HandlerTypes'
    <3>1. CASE UNCHANGED handlerVars
      BY <1>a, <3>1 DEF Types, HandlerTypes, handlerVars
    <3>2. CASE ~UNCHANGED handlerVars
      BY <1>a, <1>c, <1>d, <3>2 DEF Types, ServerTypes, HandlerTypes
    <3>3. QED
      BY <3>1, <3>2
  <2>3. (QueueTypes /\ ProgramTypes /\ UserTypes)'
    BY <1>a, <1>b, <1>d
    DEF Types, QueueTypes, ProgramTypes, UserTypes, programVars, userVars
  <2>4. QED
    BY <2>1, <2>2, <2>3 DEF Types
<1>2. OnlyOf(c)
  <2>1. \A d \in Clients \ {c} :
          at'[d] = at[d] /\ msg'[d] = msg[d] /\ pkt'[d] = pkt[d]
    BY <1>a, <1>d DEF Types, HandlerTypes, handlerVars
  <2>2. \A n : saved[n] \in Pictures => saved'[n] \in Pictures
    BY <1>a, <1>c, <1>d DEF Types, ServerTypes
  <2>3. QED
    BY <1>b, <1>d, <2>1, <2>2 DEF OnlyOf, programVars, userVars
<1>e. at'[c] \in {"recv", "ext"} /\ (at'[c] = "ext" => pkt'[c] = packet)
  BY <1>a, <1>b, <1>d DEF Types, HandlerTypes, handlerVars
<1>3. SessionOf(c)'
  BY <1>a, <1>b, <1>d, <1>e DEF SessionOf, programVars, userVars
<1>4. (AnnouncedBy(c) /\ FoundBy(c))'
  BY <1>a, <1>b, <1>c, <1>d, <1>e DEF AnnouncedBy, FoundBy
<1>5. QED
  BY <1>1, <1>2, <1>3, <1>4, StepOf

\* What a packet that is no answer to a login does to the clients' queues.
NoAnswer ==
  /\ down' \in [Clients -> Seq(DownPackets)]
  /\ \A d \in Clients :
       /\ session[d] = "left" => down'[d] = down[d]
       /\ HasType(down'[d], "LOGIN_INFO") => HasType(down[d], "LOGIN_INFO")

LEMMA NoAnswerSent ==
  ASSUME Types, NEW c \in Clients, NEW m \in DownPackets, m.type # "LOGIN_INFO",
         down' = down \/ down' = Sent(down, c, m)
  PROVE  NoAnswer
<1>1. CASE down' = down
  BY <1>1 DEF Types, QueueTypes, NoAnswer
<1>2. CASE down' = Sent(down, c, m)
  BY <1>2, SentDown DEF NoAnswer
<1>3. QED
  BY <1>1, <1>2

\* The handler goes on to another place and may send a packet: what is left to
\* show is that it has what it needs there.
LEMMA HandlerImages ==
  ASSUME ImagesInv, NEW c \in Clients, HandlerTypes', NoAnswer,
         UNCHANGED <<serverVars, up, programVars, userVars>>,
         \A d \in Clients \ {c} :
           at'[d] = at[d] /\ msg'[d] = msg[d] /\ pkt'[d] = pkt[d],
         at'[c] = "bye" => session[c] = "left" /\ up[c] = <<>>,
         FoundBy(c)'
  PROVE  ImagesInv'
<1>a. SessionOf(c) /\ AnnouncedBy(c) /\ Types
  BY DEF ImagesInv, Follows
<1>1. Types'
  BY <1>a DEF Types, ServerTypes, QueueTypes, ProgramTypes, UserTypes, NoAnswer,
              serverVars, programVars, userVars
<1>2. OnlyOf(c)
  BY DEF OnlyOf, NoAnswer, serverVars, programVars, userVars
<1>3. (SessionOf(c) /\ AnnouncedBy(c))'
  BY <1>a DEF SessionOf, AnnouncedBy, NoAnswer, serverVars, programVars,
              userVars
<1>4. QED
  BY <1>1, <1>2, <1>3, StepOf

\* After the pause the bytes go around.
LEMMA BroadcastBytesImages ==
  ASSUME ImagesInv, NEW c \in Clients, BroadcastBytes(c)
  PROVE  ImagesInv'
<1>a. Types
  BY DEF ImagesInv
<1>1. pkt[c] \in Announced
  <2>1. pkt[c] \in UpPackets /\ pkt[c].type = "IMAGE"
    BY <1>a, Packets DEF BroadcastBytes, Types, HandlerTypes
  <2>2. QED
    BY <2>1, UpPacket, Packets
<1>2. /\ at' = [at EXCEPT ![c] = "image"] /\ msg' = [msg EXCEPT ![c] = pkt[c]]
      /\ todo' = [todo EXCEPT ![c] = clientsSocketMap \ {c}]
      /\ UNCHANGED <<serverVars, pkt, up, down, programVars, userVars>>
  BY DEF BroadcastBytes, StartBroadcast
<1>3. HandlerTypes'
  BY <1>a, <1>1, <1>2 DEF Types, ServerTypes, HandlerTypes
<1>4. at'[c] = "image" /\ \A d \in Clients \ {c} :
        at'[d] = at[d] /\ msg'[d] = msg[d] /\ pkt'[d] = pkt[d]
  BY <1>a, <1>2 DEF Types, HandlerTypes
<1>5. FoundBy(c)'
  BY <1>4 DEF FoundBy
<1>6. NoAnswer
  BY <1>a, <1>2 DEF NoAnswer, Types, QueueTypes
<1>7. QED
  BY <1>2, <1>3, <1>4, <1>5, <1>6, HandlerImages

\* The extension goes out only for a file that is there, and the handler keeps
\* its name for after the pause.
LEMMA FindImageAndSendImages ==
  ASSUME ImagesInv, NEW c \in Clients, FindImageAndSend(c)
  PROVE  ImagesInv'
<1>a. SessionOf(c) /\ AnnouncedBy(c) /\ FoundBy(c) /\ Types
  BY DEF ImagesInv, Follows
<1> DEFINE packet == Head(up[c])
<1>b. /\ up' \in [Clients -> Seq(UpPackets)] /\ at[c] = "recv"
      /\ packet \in UpPackets /\ packet.type = "IMAGE_REQUEST"
      /\ \A d \in Clients \ {c} : up'[d] = up[d]
      /\ \A t : HasType(up'[c], t) => HasType(up[c], t)
      /\ \A t : HasType(up[c], t) => "IMAGE_REQUEST" = t \/ HasType(up'[c], t)
      /\ ExtsAhead(up[c]) => ExtsAhead(up'[c])
  BY <1>a, HandledUp DEF FindImageAndSend
<1>c. packet.id \in Ids
  BY <1>b, UpPacket
<1>d. UNCHANGED <<serverVars, todo, programVars, userVars>>
  BY DEF FindImageAndSend
<1>e. PICK ext \in ExtsFound(packet.id) :
        \/ /\ ext # None /\ saved[<<packet.id, ext>>] # None
           /\ down' = Sent(down, c, NamedExt(<<packet.id, ext>>))
           /\ at' = [at EXCEPT ![c] = "pause"]
           /\ msg' = [msg EXCEPT ![c] = NamedExt(<<packet.id, ext>>)]
           /\ pkt' = [pkt EXCEPT ![c] = packet]
        \/ UNCHANGED <<down, at, msg, pkt>>
  BY DEF FindImageAndSend
<1> DEFINE name == <<packet.id, ext>>
           m    == NamedExt(name)
<1> HIDE DEF packet
<1>f. ext \in Exts \cup {None}
  BY <1>a, <1>e DEF ExtsFound, Types, ServerTypes
<1>g. \/ /\ name \in FileNames /\ saved[name] \in Pictures
         /\ down' = Sent(down, c, m) /\ at' = [at EXCEPT ![c] = "pause"]
         /\ msg' = [msg EXCEPT ![c] = m] /\ pkt' = [pkt EXCEPT ![c] = packet]
      \/ UNCHANGED <<down, at, msg, pkt>>
  BY <1>a, <1>c, <1>e, <1>f DEF FileNames, Types, ServerTypes
<1> HIDE DEF name
<1>h. name \in FileNames =>
        m \in Announced /\ m.name = name /\ m.type = "IMAGE_EXT"
  BY Packets DEF NamedExt
<1> HIDE DEF m
<1>i. NoAnswer
  <2>1. CASE name \in FileNames /\ down' = Sent(down, c, m)
    <3>1. m \in DownPackets /\ m.type # "LOGIN_INFO"
      BY <1>h, <2>1, DownPacket
    <3>2. QED
      BY <1>a, <2>1, <3>1, NoAnswerSent
  <2>2. CASE down' = down
    BY <1>a, <2>2 DEF NoAnswer, Types, QueueTypes
  <2>3. QED
    BY <1>g, <2>1, <2>2
<1>1. Types'
  <2>1. HandlerTypes'
    BY <1>a, <1>b, <1>d, <1>g, <1>h, ZenonT(40) DEF Types, HandlerTypes
  <2>2. (ServerTypes /\ QueueTypes /\ ProgramTypes /\ UserTypes)'
    BY <1>a, <1>b, <1>d, <1>i
    DEF Types, ServerTypes, QueueTypes, ProgramTypes, UserTypes, NoAnswer,
        serverVars, programVars, userVars
  <2>3. QED
    BY <2>1, <2>2 DEF Types
<1>2. OnlyOf(c)
  <2>1. \A d \in Clients \ {c} :
          at'[d] = at[d] /\ msg'[d] = msg[d] /\ pkt'[d] = pkt[d]
    BY <1>a, <1>g DEF Types, HandlerTypes
  <2>2. QED
    BY <1>b, <1>d, <1>i, <2>1
    DEF OnlyOf, NoAnswer, serverVars, programVars, userVars
<1>j. /\ at'[c] \in {"recv", "pause"}
      /\ at'[c] = "pause" =>
           msg'[c].name \in FileNames /\ saved[msg'[c].name] \in Pictures
  BY <1>a, <1>b, <1>g, <1>h DEF Types, HandlerTypes
<1>3. SessionOf(c)'
  BY <1>a, <1>b, <1>d, <1>i, <1>j
  DEF SessionOf, NoAnswer, serverVars, programVars, userVars
<1>4. (AnnouncedBy(c) /\ FoundBy(c))'
  BY <1>a, <1>b, <1>d, <1>j DEF AnnouncedBy, FoundBy, serverVars, userVars
<1>5. QED
  BY <1>1, <1>2, <1>3, <1>4, StepOf

\* The file that was found is there after the pause.
LEMMA SendFoundImageImages ==
  ASSUME ImagesInv, NEW c \in Clients, SendFoundImage(c)
  PROVE  ImagesInv'
<1>a. FoundBy(c) /\ Types
  BY DEF ImagesInv, Follows
<1> DEFINE m == Requested(saved[msg[c].name])
<1>1. m \in DownPackets /\ m.type # "LOGIN_INFO"
  BY <1>a, Packets DEF SendFoundImage, FoundBy, Requested
<1>2. /\ down' = Sent(down, c, m)
      /\ \E step \in {"recv", "spin"} : at' = [at EXCEPT ![c] = step]
      /\ msg' = [msg EXCEPT ![c] = NoMsg] /\ pkt' = [pkt EXCEPT ![c] = NoMsg]
      /\ UNCHANGED <<serverVars, todo, up, programVars, userVars>>
  BY DEF SendFoundImage
<1> HIDE DEF m
<1>3. NoAnswer
  BY <1>a, <1>1, <1>2, NoAnswerSent
<1>4. HandlerTypes'
  BY <1>a, <1>2 DEF Types, HandlerTypes
<1>5. at'[c] \in {"recv", "spin"} /\ \A d \in Clients \ {c} :
        at'[d] = at[d] /\ msg'[d] = msg[d] /\ pkt'[d] = pkt[d]
  BY <1>a, <1>2 DEF Types, HandlerTypes
<1>6. FoundBy(c)'
  BY <1>5 DEF FoundBy
<1>7. QED
  BY <1>2, <1>3, <1>4, <1>5, <1>6, HandlerImages

\* The loop sends on; it stays where it is, or is caught in Send.
LEMMA SendToTargetImages ==
  ASSUME ImagesInv, NEW c \in Clients, SendToTarget(c)
  PROVE  ImagesInv'
<1>a. SessionOf(c) /\ FoundBy(c) /\ Types
  BY DEF ImagesInv, Follows
<1>1. PICK d \in todo[c] :
        /\ down' = Sent(down, d, msg[c])
        /\ todo' = [todo EXCEPT ![c] = @ \ {d}]
        /\ at' = at \/ at' = [at EXCEPT ![c] = "spin"]
  BY DEF SendToTarget
<1>2. UNCHANGED <<serverVars, msg, pkt, up, programVars, userVars>>
  BY DEF SendToTarget
<1>3. d \in Clients /\ msg[c] \in Announced
  BY <1>a DEF Types, HandlerTypes, SendToTarget, InLoop
<1>4. NoAnswer
  <2>1. msg[c] \in DownPackets /\ msg[c].type # "LOGIN_INFO"
    BY <1>3, DownPacket
  <2>2. QED
    BY <1>a, <1>1, <1>3, <2>1, NoAnswerSent
<1>5. HandlerTypes'
  BY <1>a, <1>1, <1>2 DEF Types, HandlerTypes
<1>6. at'[c] \in {at[c], "spin"} /\ \A e \in Clients \ {c} :
        at'[e] = at[e] /\ msg'[e] = msg[e] /\ pkt'[e] = pkt[e]
  BY <1>a, <1>1, <1>2 DEF Types, HandlerTypes
<1>7. FoundBy(c)' /\ (at'[c] = "bye" => session[c] = "left" /\ up[c] = <<>>)
  BY <1>a, <1>2, <1>6 DEF FoundBy, SessionOf, serverVars
<1>8. QED
  BY <1>2, <1>4, <1>5, <1>6, <1>7, HandlerImages

\* After the name comes the pause, after the bytes the next packet.
LEMMA BroadcastDoneImages ==
  ASSUME ImagesInv, NEW c \in Clients, BroadcastDone(c)
  PROVE  ImagesInv'
<1>a. FoundBy(c) /\ Types
  BY DEF ImagesInv, Follows
<1>1. /\ at[c] \in {"ext", "image"}
      /\ at' = [at EXCEPT ![c] = IF @ = "ext" THEN "pause" ELSE "recv"]
      /\ msg' = [msg EXCEPT ![c] = NoMsg]
      /\ pkt' = IF at[c] = "ext" THEN pkt ELSE [pkt EXCEPT ![c] = NoMsg]
      /\ UNCHANGED <<serverVars, todo, up, down, programVars, userVars>>
  BY DEF BroadcastDone
<1>2. NoAnswer
  BY <1>a, <1>1 DEF NoAnswer, Types, QueueTypes
<1>3. HandlerTypes'
  BY <1>a, <1>1 DEF Types, HandlerTypes
<1>4. /\ at'[c] \in {"pause", "recv"}
      /\ at'[c] = "pause" => at[c] = "ext" /\ pkt'[c] = pkt[c]
      /\ \A d \in Clients \ {c} :
           at'[d] = at[d] /\ msg'[d] = msg[d] /\ pkt'[d] = pkt[d]
  BY <1>a, <1>1 DEF Types, HandlerTypes
<1>5. FoundBy(c)'
  BY <1>a, <1>4 DEF FoundBy
<1>6. QED
  BY <1>1, <1>2, <1>3, <1>4, <1>5, HandlerImages

\* A removal starts once all that the client sent has been handled.
LEMMA StartRemovalImages ==
  ASSUME ImagesInv, NEW c \in Clients, StartRemoval(c)
  PROVE  ImagesInv'
<1>a. Types
  BY DEF ImagesInv
<1>1. /\ session[c] = "left" /\ up[c] = <<>>
      /\ at' = [at EXCEPT ![c] = "bye"]
      /\ UNCHANGED <<serverVars, pkt, up, down, programVars, userVars>>
  BY DEF StartRemoval, StartBroadcast
<1>2. NoAnswer
  BY <1>a, <1>1 DEF NoAnswer, Types, QueueTypes
<1>3. HandlerTypes' /\ \A d \in Clients \ {c} : msg'[d] = msg[d]
  <2>1. CASE idMap[c] = None
    BY <1>a, <1>1, <2>1 DEF StartRemoval, Types, HandlerTypes
  <2>2. CASE idMap[c] # None
    <3>1. idMap[c] \in Ids
      BY <1>a, <2>2 DEF Types, ServerTypes
    <3>2. /\ msg' = [msg EXCEPT ![c] = Goodbye(idMap[c])]
          /\ todo' = [todo EXCEPT ![c] = clientsSocketMap \ {c}]
      BY <2>2 DEF StartRemoval, StartBroadcast
    <3>3. Goodbye(idMap[c]) \in Announced
      BY <3>1, Packets
    <3>4. QED
      BY <1>a, <1>1, <3>2, <3>3 DEF Types, ServerTypes, HandlerTypes
  <2>3. QED
    BY <2>1, <2>2
<1>4. at'[c] = "bye" /\ \A d \in Clients \ {c} :
        at'[d] = at[d] /\ pkt'[d] = pkt[d]
  BY <1>a, <1>1 DEF Types, HandlerTypes
<1>5. FoundBy(c)'
  BY <1>4 DEF FoundBy
<1>6. QED
  BY <1>1, <1>2, <1>3, <1>4, <1>5, HandlerImages

\* The entry goes, and nothing is left that needs it.
LEMMA RemoveImages ==
  ASSUME ImagesInv, NEW c \in Clients, Remove(c)
  PROVE  ImagesInv'
<1>a. SessionOf(c) /\ AnnouncedBy(c) /\ FoundBy(c) /\ Types
  BY DEF ImagesInv, Follows
<1>1. Types'
  <2>1. ServerTypes'
    BY <1>a DEF Types, ServerTypes, Remove
  <2>2. HandlerTypes'
    BY <1>a DEF Types, HandlerTypes, Remove
  <2>3. (QueueTypes /\ ProgramTypes /\ UserTypes)'
    BY <1>a DEF Types, QueueTypes, ProgramTypes, UserTypes, Remove, programVars,
                userVars
  <2>4. QED
    BY <2>1, <2>2, <2>3 DEF Types
<1>2. OnlyOf(c)
  BY <1>a
  DEF Types, ServerTypes, HandlerTypes, OnlyOf, Remove, programVars, userVars
<1>3. /\ session[c] = "left" /\ up[c] = <<>> /\ down[c] = <<>>
      /\ idMap'[c] = None /\ at'[c] = "recv"
      /\ UNCHANGED <<profileImageExtMap, saved, pkt, up, down, programVars,
                     userVars>>
  BY <1>a DEF SessionOf, Remove, Types, ServerTypes, HandlerTypes
<1>4. SessionOf(c)'
  BY <1>a, <1>3, NothingQueued DEF SessionOf, programVars, userVars
<1>5. (AnnouncedBy(c) /\ FoundBy(c))'
  BY <1>a, <1>3 DEF AnnouncedBy, FoundBy, userVars
<1>6. QED
  BY <1>1, <1>2, <1>4, <1>5, StepOf

-----------------------------------------------------------------------------
\* Every step keeps the invariant.
LEMMA NextImages == ImagesInv /\ [Next]_imageVars => ImagesInv'
<1> SUFFICES ASSUME ImagesInv, [Next]_imageVars PROVE ImagesInv'
  OBVIOUS
<1>1. CASE UNCHANGED imageVars
  <2>1. Types'
    BY <1>1
    DEF ImagesInv, Types, ServerTypes, HandlerTypes, QueueTypes, ProgramTypes,
        UserTypes, imageVars, serverVars, handlerVars, programVars, userVars
  <2>2. Follows'
    BY <1>1
    DEF ImagesInv, Follows, SessionOf, AnnouncedBy, FoundBy, imageVars,
        serverVars, handlerVars, programVars, userVars
  <2>3. QED
    BY <2>1, <2>2 DEF ImagesInv
<1>2. CASE Next
  <2>1. PICK c \in Clients : \/ User(c) \/ SendBytes(c) \/ ReceiveThread(c)
                             \/ Handler(c) \/ StartRemoval(c)
    BY <1>2 DEF Next
  <2>2. CASE User(c)
    BY <2>2, ConnectImages, ClickLoginImages, SetProfileImageImages,
       OnClickListClientsImages, LeaveImages
    DEF User
  <2>3. CASE Handler(c)
    BY <2>3, LoginImages, SaveImageExtImages, RecvImageImages,
       BroadcastBytesImages, FindImageAndSendImages, SendFoundImageImages,
       SendToTargetImages, BroadcastDoneImages, RemoveImages
    DEF Handler
  <2>4. QED
    BY <2>1, <2>2, <2>3, SendBytesImages, ReceiveThreadImages,
       StartRemovalImages
<1>3. QED
  BY <1>1, <1>2

\* The packets of the proof are the messages of the model.
LEMMA TypesOfImages == ImagesInv => TypeOK
<1> SUFFICES ASSUME ImagesInv PROVE TypeOK
  OBVIOUS
<1>1. \A m \in UpPackets \cup DownPackets \cup {NoMsg} : m \in Messages
  BY DEF UpPackets, DownPackets, Announced, Messages, LoginInfo, ImageExt, Image,
         ImageRequest, NamedExt, Requested, Goodbye, NoMsg
<1>2. Announced \subseteq DownPackets
  BY DEF DownPackets
<1>3. \A c \in Clients : /\ \A i \in DOMAIN up[c] : up[c][i] \in Messages
                         /\ \A i \in DOMAIN down[c] : down[c][i] \in Messages
  <2>1. \A c \in Clients : up[c] \in Seq(UpPackets) /\ down[c] \in Seq(DownPackets)
    BY DEF ImagesInv, Types, QueueTypes
  <2>2. QED
    BY <1>1, <2>1, ElementOfSeq
<1>4. \A c \in Clients : taken[c] \in 0 .. MaxPictures[c]
  BY ImagesAssumption DEF ImagesInv, Types, UserTypes
<1>5. msg \in [Clients -> Messages] /\ pkt \in [Clients -> Messages]
  BY <1>1, <1>2 DEF ImagesInv, Types, HandlerTypes
<1>6. QED
  BY <1>3, <1>4, <1>5
  DEF TypeOK, ImagesInv, Types, ServerTypes, HandlerTypes, ProgramTypes,
      UserTypes

\* For any users, pictures and clicks, no packet, file or window ever has an
\* id, an extension or a picture that is not there: the server reads idMap and
\* profileImageExtMap with [] (Server.cpp:480, 493), which puts an empty string
\* in where a connection has no entry.
THEOREM PacketsHaveNames == Spec => []TypeOK
<1>1. Init => ImagesInv
  BY InitImages
<1>2. ImagesInv /\ [Next]_imageVars => ImagesInv'
  BY NextImages
<1>3. ImagesInv => TypeOK
  BY TypesOfImages
<1>4. QED
  BY <1>1, <1>2, <1>3, PTL DEF Spec

-----------------------------------------------------------------------------
(* What a click shows, when users take turns.  At most one picture is under *)
(* way, or one question for a picture; all that travels because of it is    *)
(* about one account.                                                       *)

\* The packets a picture comes in.
Name(m)    == m.type = "IMAGE_EXT"
Picture(m) == m.type \in {"IMAGE", "IMAGE_REQUEST"}

NameIn(q) == HasType(q, "IMAGE_EXT")
PicIn(q)  == HasType(q, "IMAGE") \/ HasType(q, "IMAGE_REQUEST")

\* A queue to a client: all names are of T and come before the pictures, which
\* are among P.
Queued(q, T, P) ==
  /\ \A i \in 1 .. Len(q) : Name(q[i]) => q[i].name[1] = T
  /\ \A i \in 1 .. Len(q) : Picture(q[i]) => q[i].pic \in P
  /\ \A i, j \in 1 .. Len(q) : i < j /\ Picture(q[i]) => ~Name(q[j])

\* A packet more.
LEMMA QueueAppend ==
  ASSUME NEW q \in Seq(DownPackets), NEW m \in DownPackets, NEW T, NEW P
  PROVE  /\ NameIn(Append(q, m)) <=> NameIn(q) \/ Name(m)
         /\ PicIn(Append(q, m)) <=> PicIn(q) \/ Picture(m)
         /\ /\ Queued(q, T, P)
            /\ Name(m) => m.name[1] = T /\ ~PicIn(q)
            /\ Picture(m) => m.pic \in P
            => Queued(Append(q, m), T, P)
<1> DEFINE longer == Append(q, m)
<1>1. /\ Len(longer) = Len(q) + 1
      /\ \A i \in 1 .. Len(q) : longer[i] = q[i]
      /\ longer[Len(q) + 1] = m /\ Len(q) \in Nat
  BY AppendProperties
<1>2. \A type : HasType(longer, type) <=> HasType(q, type) \/ m.type = type
  BY Appended
<1> HIDE DEF longer
<1>3. \A i \in 1 .. Len(longer) : i \in 1 .. Len(q) \/ i = Len(q) + 1
  BY <1>1
<1>4. /\ NameIn(longer) <=> NameIn(q) \/ Name(m)
      /\ PicIn(longer) <=> PicIn(q) \/ Picture(m)
  BY <1>2 DEF NameIn, PicIn, Name, Picture
<1>5. ASSUME Queued(q, T, P), Name(m) => m.name[1] = T /\ ~PicIn(q),
             Picture(m) => m.pic \in P
      PROVE  Queued(longer, T, P)
  <2>1. ASSUME NEW i \in 1 .. Len(longer)
        PROVE  /\ Name(longer[i]) => longer[i].name[1] = T
               /\ Picture(longer[i]) => longer[i].pic \in P
    BY <1>1, <1>3, <1>5, <2>1 DEF Queued
  <2>2. ASSUME NEW i \in 1 .. Len(longer), NEW j \in 1 .. Len(longer), i < j,
               Picture(longer[i]), Name(longer[j])
        PROVE  FALSE
    <3>1. i \in 1 .. Len(q) /\ Picture(q[i])
      BY <1>1, <1>3, <2>2
    <3>2. PicIn(q)
      BY <3>1 DEF PicIn, HasType, Picture
    <3>3. CASE j \in 1 .. Len(q)
      BY <1>1, <1>5, <2>2, <3>1, <3>3 DEF Queued
    <3>4. CASE j = Len(q) + 1
      BY <1>1, <1>5, <2>2, <3>2, <3>4
    <3>5. QED
      BY <1>3, <3>3, <3>4
  <2>3. QED
    BY <2>1, <2>2 DEF Queued
<1>6. QED
  BY <1>4, <1>5 DEF longer

\* A packet less.
LEMMA QueueTail ==
  ASSUME NEW q \in Seq(DownPackets), q # <<>>, NEW T, NEW P, Queued(q, T, P)
  PROVE  /\ Queued(Tail(q), T, P)
         /\ NameIn(Tail(q)) => NameIn(q)
         /\ PicIn(Tail(q)) => PicIn(q)
         /\ Name(Head(q)) \/ (NameIn(q) => NameIn(Tail(q)))
         /\ Picture(Head(q)) \/ (PicIn(q) => PicIn(Tail(q)))
         /\ Name(Head(q)) => Head(q).name[1] = T /\ NameIn(q)
         /\ Picture(Head(q)) =>
              Head(q).pic \in P /\ ~NameIn(Tail(q)) /\ PicIn(q)
<1> DEFINE rest == Tail(q)
<1>1. /\ Head(q) = q[1] /\ 1 \in 1 .. Len(q)
      /\ Len(q) \in Nat /\ Len(rest) = Len(q) - 1
      /\ \A i \in 1 .. Len(rest) : rest[i] = q[i + 1]
  BY HeadTailProperties
<1>2. /\ HasType(q, Head(q).type)
      /\ \A type : HasType(rest, type) => HasType(q, type)
      /\ \A type : HasType(q, type) => Head(q).type = type \/ HasType(rest, type)
  BY Shortened
<1> HIDE DEF rest
<1>3. \A i \in 1 .. Len(rest) : i + 1 \in 1 .. Len(q) /\ 1 < i + 1
  BY <1>1
<1>4. Queued(rest, T, P)
  <2>1. ASSUME NEW i \in 1 .. Len(rest)
        PROVE  /\ Name(rest[i]) => rest[i].name[1] = T
               /\ Picture(rest[i]) => rest[i].pic \in P
    BY <1>1, <1>3 DEF Queued
  <2>2. ASSUME NEW i \in 1 .. Len(rest), NEW j \in 1 .. Len(rest), i < j,
               Picture(rest[i])
        PROVE  ~Name(rest[j])
    <3>1. i + 1 < j + 1
      BY <2>2
    <3>2. QED
      BY <1>1, <1>3, <2>2, <3>1 DEF Queued
  <2>3. QED
    BY <2>1, <2>2 DEF Queued
<1>5. Picture(Head(q)) => ~NameIn(rest)
  BY <1>1, <1>3 DEF Queued, NameIn, HasType, Name
<1>6. /\ Name(Head(q)) => Head(q).name[1] = T
      /\ Picture(Head(q)) => Head(q).pic \in P
  BY <1>1 DEF Queued
<1>7. QED
  BY <1>2, <1>4, <1>5, <1>6 DEF NameIn, PicIn, Name, Picture, rest

\* Nothing is in an empty queue.
LEMMA QueueEmpty ==
  ~NameIn(<<>>) /\ ~PicIn(<<>>) /\ (\A T, P : Queued(<<>>, T, P))
BY NothingQueued DEF NameIn, PicIn, Queued

-----------------------------------------------------------------------------
(* What one client has on its way to the server.                            *)

\* Queues of one and two packets.
LEMMA AppendSecond ==
  ASSUME NEW a, NEW b
  PROVE  Append(<<a>>, b) = <<a, b>>
<1>1. <<a>> \in Seq({a, b}) /\ <<a, b>> \in Seq({a, b})
  OBVIOUS
<1>2. Len(<<a>>) = 1 /\ Len(<<a, b>>) = 2
  OBVIOUS
<1>3. /\ Append(<<a>>, b) \in Seq({a, b}) /\ Len(Append(<<a>>, b)) = 2
      /\ Append(<<a>>, b)[1] = a /\ Append(<<a>>, b)[2] = b
  BY <1>1, <1>2, AppendProperties
<1>4. <<a, b>>[1] = a /\ <<a, b>>[2] = b
  OBVIOUS
<1>5. ASSUME NEW q \in Seq({a, b}), Len(q) = 2, q[1] = a, q[2] = b
      PROVE  q = <<a, b>>
  BY <1>1, <1>2, <1>4, <1>5
<1>6. QED
  BY <1>3, <1>5

\* Queues of one packet and of two: what is first, and what is in them.
LEMMA ShortQueues ==
  /\ \A a : /\ <<a>> # <<>> /\ Head(<<a>>) = a /\ Tail(<<a>>) = <<>>
            /\ Append(<<>>, a) = <<a>>
            /\ \A type : HasType(<<a>>, type) <=> a.type = type
  /\ \A a, b :
       /\ <<a, b>> # <<>> /\ Head(<<a, b>>) = a /\ Tail(<<a, b>>) = <<b>>
       /\ Append(<<a>>, b) = <<a, b>>
       /\ \A type : HasType(<<a, b>>, type) <=> a.type = type \/ b.type = type
  /\ \A a, b : <<a>> = <<b>> => a = b
  /\ \A a, b, c, d : <<a, b>> = <<c, d>> => a = c /\ b = d
  /\ \A a, b, c : <<a, b>> # <<c>>
<1>1. \A a : /\ <<a>> # <<>> /\ Head(<<a>>) = a /\ Tail(<<a>>) = <<>>
             /\ Append(<<>>, a) = <<a>>
  OBVIOUS
<1>2. \A a, b : /\ <<a, b>> # <<>> /\ Head(<<a, b>>) = a
                /\ Tail(<<a, b>>) = <<b>>
  OBVIOUS
<1>3. /\ \A a, type : HasType(<<a>>, type) <=> a.type = type
      /\ \A a, b, type : HasType(<<a, b>>, type) <=> a.type = type \/ b.type = type
  BY DEF HasType
<1>4. /\ \A a, b : <<a>> = <<b>> => a = b
      /\ \A a, b, c, d : <<a, b>> = <<c, d>> => a = c /\ b = d
      /\ \A a, b, c : <<a, b>> # <<c>>
  OBVIOUS
<1>5. QED
  BY <1>1, <1>2, <1>3, <1>4, AppendSecond

\* The picture the user of c set last.
Own(c) == latest[IdOf[c]]

\* Nothing, the request for a login, a question for the picture of another, or
\* the picture set last and, unless it has been handled, its extension ahead.
UpShape(c) ==
  \/ /\ sending[c] = None
     /\ \/ up[c] \in {<<>>, <<LoginInfo>>, <<Image(Own(c))>>}
        \/ \E id \in Ids \ {IdOf[c]} : up[c] = <<ImageRequest(id)>>
        \/ \E ext \in Exts : up[c] = <<ImageExt(ext), Image(Own(c))>>
  \/ /\ sending[c] # None /\ sending[c] = Own(c)
     /\ up[c] = <<>> \/ \E ext \in Exts : up[c] = <<ImageExt(ext)>>

\* c is setting a picture, or asks for one.
Setting(c) == sending[c] # None \/ HasType(up[c], "IMAGE")
Asking(c)  == HasType(up[c], "IMAGE_REQUEST")

\* What the shape says of each packet.
LEMMA ShapeFacts ==
  ASSUME NEW c \in Clients, UpShape(c)
  PROVE  /\ HasType(up[c], "IMAGE_EXT") => Setting(c)
         /\ HasType(up[c], "LOGIN_INFO") => up[c] = <<LoginInfo>>
         /\ Asking(c) => /\ sending[c] = None /\ ~Setting(c)
                         /\ \E id \in Ids \ {IdOf[c]} : up[c] = <<ImageRequest(id)>>
         /\ \A id : up[c] = <<ImageRequest(id)>> => Asking(c)
         /\ Setting(c) \/ Asking(c) \/ up[c] \in {<<>>, <<LoginInfo>>}
         /\ up[c] \in {<<>>, <<LoginInfo>>} => ~Asking(c)
         /\ up[c] \in {<<>>, <<LoginInfo>>} /\ sending[c] = None => ~Setting(c)
<1>1. CASE up[c] = <<>>
  BY <1>1, NothingQueued, ShortQueues DEF UpShape, Setting, Asking
<1>2. CASE up[c] = <<LoginInfo>>
  BY <1>2, ShortQueues DEF UpShape, Setting, Asking, LoginInfo, ImageRequest
<1>3. CASE up[c] = <<Image(Own(c))>> /\ sending[c] = None
  BY <1>3, ShortQueues DEF Setting, Asking, Image, LoginInfo, ImageRequest
<1>4. CASE sending[c] = None /\ \E id \in Ids \ {IdOf[c]} : up[c] = <<ImageRequest(id)>>
  BY <1>4, ShortQueues DEF Setting, Asking, ImageRequest, LoginInfo
<1>5. CASE \E ext \in Exts : up[c] = <<ImageExt(ext), Image(Own(c))>>
  BY <1>5, ShortQueues DEF Setting, Asking, ImageExt, Image, LoginInfo
<1>6. CASE sending[c] # None /\ \E ext \in Exts : up[c] = <<ImageExt(ext)>>
  BY <1>6, ShortQueues DEF Setting, Asking, ImageExt, LoginInfo, ImageRequest
<1>7. QED
  BY <1>1, <1>2, <1>3, <1>4, <1>5, <1>6 DEF UpShape

\* The server takes the first packet.
LEMMA ShapeHandled ==
  ASSUME Types, NEW c \in Clients, UpShape(c), NEW type, Handles(c, type),
         sending' = sending, latest' = latest
  PROVE  /\ UpShape(c)' /\ at[c] = "recv"
         /\ type = "LOGIN_INFO" =>
              up[c] = <<LoginInfo>> /\ up'[c] = <<>> /\ sending[c] = None
         /\ type = "IMAGE_EXT" => Setting(c) /\ Setting(c)' /\ ~Asking(c)'
         /\ type = "IMAGE" =>
              /\ Setting(c) /\ up'[c] = <<>> /\ sending[c] = None
              /\ Head(up[c]) = Image(Own(c))
         /\ type = "IMAGE_REQUEST" =>
              /\ Asking(c) /\ up'[c] = <<>> /\ sending[c] = None
              /\ \E id \in Ids \ {IdOf[c]} : /\ up[c] = <<ImageRequest(id)>>
                                             /\ Head(up[c]) = ImageRequest(id)
<1>1. /\ at[c] = "recv" /\ up[c] # <<>> /\ Head(up[c]).type = type
      /\ up'[c] = Tail(up[c])
  BY DEF Handles, Types, QueueTypes
<1>2. Own(c)' = Own(c) /\ sending'[c] = sending[c]
  BY DEF Own
<1>3. CASE up[c] = <<LoginInfo>> /\ sending[c] = None
  <2>1. up'[c] = <<>> /\ type = "LOGIN_INFO"
    BY <1>1, <1>3, ShortQueues DEF LoginInfo
  <2>2. QED
    BY <1>1, <1>2, <1>3, <2>1 DEF UpShape
<1>4. CASE up[c] = <<Image(Own(c))>> /\ sending[c] = None
  <2>1. up'[c] = <<>> /\ type = "IMAGE" /\ Head(up[c]) = Image(Own(c))
    BY <1>1, <1>4, ShortQueues DEF Image
  <2>2. Setting(c)
    BY <1>4, ShortQueues DEF Setting, Image
  <2>3. QED
    BY <1>1, <1>2, <1>4, <2>1, <2>2 DEF UpShape
<1>5. ASSUME NEW id \in Ids \ {IdOf[c]}, up[c] = <<ImageRequest(id)>>,
             sending[c] = None
      PROVE  /\ up'[c] = <<>> /\ type = "IMAGE_REQUEST" /\ Asking(c)
             /\ Head(up[c]) = ImageRequest(id) /\ UpShape(c)'
  <2>1. /\ up'[c] = <<>> /\ type = "IMAGE_REQUEST"
        /\ Head(up[c]) = ImageRequest(id)
    BY <1>1, <1>5, ShortQueues DEF ImageRequest
  <2>2. Asking(c)
    BY <1>5, ShortQueues DEF Asking, ImageRequest
  <2>3. QED
    BY <1>2, <1>5, <2>1, <2>2 DEF UpShape
<1>6. ASSUME NEW ext \in Exts, up[c] = <<ImageExt(ext), Image(Own(c))>>,
             sending[c] = None
      PROVE  /\ type = "IMAGE_EXT" /\ Setting(c) /\ Setting(c)' /\ ~Asking(c)'
             /\ UpShape(c)'
  <2>1. up'[c] = <<Image(Own(c))>> /\ type = "IMAGE_EXT"
    BY <1>1, <1>6, ShortQueues DEF ImageExt
  <2>2. Setting(c)
    BY <1>6, ShortQueues DEF Setting, Image
  <2>3. UpShape(c)'
    BY <1>2, <1>6, <2>1 DEF UpShape
  <2>4. Setting(c)' /\ ~Asking(c)'
    BY <2>1, ShortQueues DEF Setting, Asking, Image
  <2>5. QED
    BY <2>1, <2>2, <2>3, <2>4
<1>7. ASSUME NEW ext \in Exts, up[c] = <<ImageExt(ext)>>,
             sending[c] # None, sending[c] = Own(c)
      PROVE  /\ type = "IMAGE_EXT" /\ Setting(c) /\ Setting(c)' /\ ~Asking(c)'
             /\ UpShape(c)'
  <2>1. up'[c] = <<>> /\ type = "IMAGE_EXT"
    BY <1>1, <1>7, ShortQueues DEF ImageExt
  <2>2. UpShape(c)' /\ Setting(c) /\ Setting(c)' /\ ~Asking(c)'
    BY <1>2, <1>7, <2>1, NothingQueued DEF UpShape, Setting, Asking
  <2>3. QED
    BY <2>1, <2>2
<1>8. QED
  BY <1>1, <1>3, <1>4, <1>5, <1>6, <1>7 DEF UpShape

\* A step on behalf of c: each disjunct of Next.
Act(c) == User(c) \/ SendBytes(c) \/ ReceiveThread(c) \/ Handler(c) \/ StartRemoval(c)

\* A step on behalf of c leaves the others as they are, but for what is sent to
\* them; what an account set last changes when one of its users sets a picture.
LEMMA StepAlone ==
  ASSUME Types, NEW c \in Clients, Act(c)
  PROVE  /\ \A d \in Clients \ {c} :
              /\ up'[d] = up[d] /\ sending'[d] = sending[d] /\ at'[d] = at[d]
              /\ msg'[d] = msg[d] /\ pkt'[d] = pkt[d] /\ idMap'[d] = idMap[d]
              /\ profileImageExtMap'[d] = profileImageExtMap[d]
              /\ myId'[d] = myId[d] /\ session'[d] = session[d]
              /\ idExtMap'[d] = idExtMap[d] /\ stored'[d] = stored[d]
              /\ lastImageName'[d] = lastImageName[d]
         /\ latest' = latest \/ SetProfileImage(c)
         /\ saved' = saved \/ RecvImage(c)
         /\ twice \subseteq twice'
<1> DEFINE Others ==
      \A d \in Clients \ {c} :
        /\ up'[d] = up[d] /\ sending'[d] = sending[d] /\ at'[d] = at[d]
        /\ msg'[d] = msg[d] /\ pkt'[d] = pkt[d] /\ idMap'[d] = idMap[d]
        /\ profileImageExtMap'[d] = profileImageExtMap[d]
        /\ myId'[d] = myId[d] /\ session'[d] = session[d]
        /\ idExtMap'[d] = idExtMap[d] /\ stored'[d] = stored[d]
        /\ lastImageName'[d] = lastImageName[d]
<1> USE DEF Types, ServerTypes, HandlerTypes, QueueTypes, ProgramTypes,
            UserTypes, serverVars, handlerVars, programVars, userVars
<1>1. CASE Connect(c) \/ ClickLogin(c) \/ Leave(c)
  BY <1>1 DEF Connect, ClickLogin, Leave
<1>2. CASE SetProfileImage(c)
  BY <1>2 DEF SetProfileImage
<1>3. CASE OnClickListClients(c)
  <2>1. \/ UNCHANGED up
        \/ \E id \in Ids : up' = [up EXCEPT ![c] = Append(@, ImageRequest(id))]
    BY <1>3 DEF OnClickListClients, Listed
  <2>2. QED
    BY <1>3, <2>1 DEF OnClickListClients
<1>4. CASE SendBytes(c)
  BY <1>4 DEF SendBytes
<1>5. CASE ReceiveThread(c)
  <2>1. CASE LoginResult(c) \/ SaveImageName(c) \/ RemoveDisconnectedId(c)
    BY <2>1 DEF LoginResult, SaveImageName, RemoveDisconnectedId
  <2>2. CASE SaveImage(c) \/ SendImageRequestMessage(c)
    <3>1. \A pic : \A d \in Clients \ {c} : StoredImage(c, pic)[d] = stored[d]
      BY DEF StoredImage
    <3>2. QED
      BY <2>2, <3>1 DEF SaveImage, SendImageRequestMessage
  <2>3. QED
    BY <1>5, <2>1, <2>2 DEF ReceiveThread
<1>6. CASE Login(c) \/ SaveImageExt(c)
  BY <1>6 DEF Login, SaveImageExt, Handles
<1>7. CASE RecvImage(c)
  BY <1>7 DEF RecvImage, Handles, StartBroadcast
<1>8. CASE FindImageAndSend(c)
  <2>1. \/ UNCHANGED <<at, msg, pkt>>
        \/ \E m, p : /\ at' = [at EXCEPT ![c] = "pause"]
                     /\ msg' = [msg EXCEPT ![c] = m]
                     /\ pkt' = [pkt EXCEPT ![c] = p]
    BY <1>8 DEF FindImageAndSend
  <2>2. QED
    BY <1>8, <2>1 DEF FindImageAndSend, Handles
<1>9. CASE BroadcastBytes(c) \/ BroadcastDone(c) \/ Remove(c) \/ StartRemoval(c)
  BY <1>9 DEF BroadcastBytes, BroadcastDone, Remove, StartRemoval, StartBroadcast
<1>10. CASE SendFoundImage(c) \/ SendToTarget(c)
  <2>1. at' = at \/ \E step : at' = [at EXCEPT ![c] = step]
    BY <1>10 DEF SendFoundImage, SendToTarget
  <2>2. QED
    BY <1>10, <2>1 DEF SendFoundImage, SendToTarget
<1>11. QED
  BY <1>1, <1>2, <1>3, <1>4, <1>5, <1>6, <1>7, <1>8, <1>9, <1>10
  DEF Act, User, Handler

\* Every queue to the server is in shape.
Shapes == \A c \in Clients : UpShape(c)

\* The server handles a picture of c, or a question of c.
Serving(c) == at[c] \in {"ext", "pause", "image"}

\* Before a user acts nothing is under way.
LEMMA MyTurn ==
  ASSUME Turns, ImagesInv, Shapes, NEW c \in Clients, MayAct(c)
  PROVE  /\ session[c] = "in" /\ myId[c] = IdOf[c] /\ idMap[c] = IdOf[c]
         /\ \A d \in Clients :
              /\ sending[d] = None /\ up[d] = <<>> /\ down[d] = <<>>
              /\ ~Setting(d) /\ ~Asking(d) /\ ~Serving(d)
<1>1. session[c] = "in" /\ Quiet
  BY DEF MayAct
<1>2. SessionOf(c)
  BY DEF ImagesInv, Follows
<1>3. ASSUME NEW d \in Clients
      PROVE  /\ sending[d] = None /\ up[d] = <<>> /\ down[d] = <<>>
             /\ ~Serving(d) /\ UpShape(d)
  BY <1>1 DEF Quiet, Serving, Shapes
<1>4. \A d \in Clients : ~Setting(d) /\ ~Asking(d)
  BY <1>3, ShapeFacts
<1>5. QED
  BY <1>1, <1>2, <1>3, <1>4 DEF SessionOf

\* What the queues to the server look like after a step.
ShapesOf(c) ==
  /\ Shapes'
  /\ \A d \in Clients \ {c} :
       (Setting(d)' <=> Setting(d)) /\ (Asking(d)' <=> Asking(d))

\* The queue of the others stands if what they sent is still the last picture.
LEMMA ShapesStep ==
  ASSUME Types, Shapes, NEW c \in Clients, UpShape(c)',
         \A d \in Clients \ {c} :
           /\ up'[d] = up[d] /\ sending'[d] = sending[d]
           /\ latest' = latest \/ (up[d] = <<>> /\ sending[d] = None)
  PROVE  ShapesOf(c)
<1>1. ASSUME NEW d \in Clients \ {c}
      PROVE  /\ UpShape(d)'
             /\ (Setting(d)' <=> Setting(d)) /\ (Asking(d)' <=> Asking(d))
  <2>1. UpShape(d) /\ up'[d] = up[d] /\ sending'[d] = sending[d]
    BY DEF Shapes
  <2>2. UpShape(d)'
    <3>1. CASE latest' = latest
      BY <2>1, <3>1 DEF UpShape, Own
    <3>2. CASE up[d] = <<>> /\ sending[d] = None
      BY <2>1, <3>2 DEF UpShape
    <3>3. QED
      BY <3>1, <3>2
  <2>3. QED
    BY <2>1, <2>2 DEF Setting, Asking
<1>2. QED
  BY <1>1 DEF ShapesOf, Shapes

\* The user of c sets a picture (OnMenuSetProfileImage).
LEMMA SetProfileShapes ==
  ASSUME Turns, ImagesInv, Shapes, NEW c \in Clients, SetProfileImage(c)
  PROVE  /\ ShapesOf(c) /\ Setting(c)' /\ ~Asking(c)'
         /\ Own(c)' = [id |-> IdOf[c], by |-> c, no |-> taken[c] + 1]
         /\ \A id \in Ids \ {IdOf[c]} : latest'[id] = latest[id]
<1>a. Types
  BY DEF ImagesInv
<1>b. /\ myId[c] = IdOf[c] /\ up[c] = <<>> /\ IdOf[c] \in Ids
      /\ \A d \in Clients : sending[d] = None /\ up[d] = <<>>
  BY MyTurn, ImagesAssumption DEF SetProfileImage
<1> DEFINE pic == [id |-> IdOf[c], by |-> c, no |-> taken[c] + 1]
<1>1. sending'[c] = pic /\ Own(c)' = pic
      /\ \A id \in Ids \ {IdOf[c]} : latest'[id] = latest[id]
  BY <1>a, <1>b DEF SetProfileImage, Types, UserTypes, Own
<1>2. pic # None
  <2>1. taken[c] + 1 \in 1 .. MaxPictures[c]
    BY <1>a, ImagesAssumption DEF SetProfileImage, Types, UserTypes
  <2>2. pic \in [id : {IdOf[c]}, by : {c}, no : 1 .. MaxPictures[c]]
    BY <2>1
  <2>3. pic \in Pictures
    BY <2>2 DEF Pictures
  <2>4. QED
    BY <2>3, NoneAssumption
<1>3. PICK ext \in Exts : up'[c] = <<ImageExt(ext)>>
  BY <1>a, <1>b, ShortQueues, ImagesAssumption
  DEF SetProfileImage, Types, QueueTypes
<1> HIDE DEF pic
<1>4. UpShape(c)' /\ Setting(c)' /\ ~Asking(c)'
  BY <1>1, <1>2, <1>3, ShortQueues DEF UpShape, Setting, Asking, ImageExt
<1>5. \A d \in Clients \ {c} : up'[d] = up[d] /\ sending'[d] = sending[d]
  BY <1>a, StepAlone DEF Act, User
<1>6. ShapesOf(c)
  BY <1>a, <1>b, <1>4, <1>5, ShapesStep
<1>7. QED
  BY <1>1, <1>4, <1>6 DEF pic

\* The bytes follow the extension, or come when it has been handled.
LEMMA SendBytesShapes ==
  ASSUME ImagesInv, Shapes, NEW c \in Clients, SendBytes(c)
  PROVE  /\ ShapesOf(c) /\ Setting(c) /\ Setting(c)'
         /\ ~Asking(c) /\ ~Asking(c)'
<1>a. Types /\ UpShape(c)
  BY DEF ImagesInv, Shapes
<1>b. /\ sending[c] # None /\ latest' = latest /\ sending'[c] = None
      /\ up'[c] = Append(up[c], Image(sending[c]))
  BY <1>a DEF SendBytes, Types, UserTypes, QueueTypes
<1>1. \/ up'[c] = <<Image(Own(c))>> /\ up[c] = <<>>
      \/ \E ext \in Exts : /\ up[c] = <<ImageExt(ext)>>
                           /\ up'[c] = <<ImageExt(ext), Image(Own(c))>>
  <2>1. sending[c] = Own(c) /\ (up[c] = <<>> \/ \E ext \in Exts : up[c] = <<ImageExt(ext)>>)
    BY <1>a, <1>b DEF UpShape
  <2> DEFINE bytes == Image(Own(c))
  <2>2. up'[c] = Append(up[c], bytes)
    BY <1>b, <2>1
  <2> HIDE DEF bytes
  <2>3. CASE up[c] = <<>>
    BY <2>2, <2>3, ShortQueues DEF bytes
  <2>4. ASSUME NEW ext \in Exts, up[c] = <<ImageExt(ext)>>
        PROVE  up'[c] = <<ImageExt(ext), bytes>>
    BY <2>2, <2>4, AppendSecond
  <2>5. QED
    BY <2>1, <2>3, <2>4 DEF bytes
<1>2. Own(c)' = Own(c)
  BY <1>b DEF Own
<1>3. UpShape(c)'
  BY <1>1, <1>b, <1>2 DEF UpShape
<1>4. Setting(c) /\ Setting(c)' /\ ~Asking(c) /\ ~Asking(c)'
  <2>1. CASE up'[c] = <<Image(Own(c))>> /\ up[c] = <<>>
    BY <1>b, <2>1, ShortQueues, NothingQueued DEF Setting, Asking, Image
  <2>2. ASSUME NEW ext \in Exts, up[c] = <<ImageExt(ext)>>,
               up'[c] = <<ImageExt(ext), Image(Own(c))>>
        PROVE  Setting(c) /\ Setting(c)' /\ ~Asking(c) /\ ~Asking(c)'
    <3>1. /\ HasType(up'[c], "IMAGE") /\ ~HasType(up'[c], "IMAGE_REQUEST")
          /\ ~HasType(up[c], "IMAGE_REQUEST")
      BY <2>2, ShortQueues DEF Image, ImageExt
    <3>2. QED
      BY <1>b, <3>1 DEF Setting, Asking
  <2>3. QED
    BY <1>1, <2>1, <2>2
<1>5. ShapesOf(c)
  <2>1. \A d \in Clients \ {c} : up'[d] = up[d] /\ sending'[d] = sending[d]
    BY <1>a, StepAlone DEF Act
  <2>2. QED
    BY <1>a, <1>b, <1>3, <2>1, ShapesStep
<1>6. QED
  BY <1>4, <1>5

\* A login is the first a client sends.
LEMMA ClickLoginShapes ==
  ASSUME ImagesInv, Shapes, NEW c \in Clients, ClickLogin(c)
  PROVE  /\ ShapesOf(c) /\ up'[c] = <<LoginInfo>>
         /\ ~Setting(c) /\ ~Asking(c) /\ ~Setting(c)' /\ ~Asking(c)'
<1>a. Types /\ UpShape(c) /\ SessionOf(c)
  BY DEF ImagesInv, Shapes, Follows
<1>b. /\ myId[c] = None /\ latest' = latest /\ sending' = sending
      /\ up'[c] = Append(up[c], LoginInfo) /\ IdOf[c] # None
  BY <1>a, ImagesAssumption
  DEF ClickLogin, Types, UserTypes, QueueTypes, userVars
<1>1. /\ sending[c] = None /\ ~HasType(up[c], "LOGIN_INFO")
      /\ \A type \in UserPackets : ~HasType(up[c], type)
  BY <1>a, <1>b DEF SessionOf
<1>2. ~HasType(up[c], "IMAGE") /\ ~HasType(up[c], "IMAGE_REQUEST")
  BY <1>1 DEF UserPackets
<1>3. ~Setting(c) /\ ~Asking(c)
  BY <1>1, <1>2 DEF Setting, Asking
<1>4. up[c] = <<>>
  <2>1. up[c] \in {<<>>, <<LoginInfo>>}
    BY <1>a, <1>3, ShapeFacts
  <2>2. up[c] # <<LoginInfo>>
    BY <1>1, ShortQueues DEF LoginInfo
  <2>3. QED
    BY <2>1, <2>2
<1>5. up'[c] = <<LoginInfo>> /\ sending'[c] = None
  BY <1>b, <1>1, <1>4, ShortQueues
<1>6. UpShape(c)' /\ ~Setting(c)' /\ ~Asking(c)'
  BY <1>5, ShortQueues DEF UpShape, Setting, Asking, LoginInfo
<1>7. ShapesOf(c)
  <2>1. \A d \in Clients \ {c} : up'[d] = up[d] /\ sending'[d] = sending[d]
    BY <1>a, StepAlone DEF Act, User
  <2>2. QED
    BY <1>a, <1>b, <1>6, <2>1, ShapesStep
<1>8. QED
  BY <1>3, <1>5, <1>6, <1>7

\* A click opens a window or asks for the picture of another.
LEMMA ClickShapes ==
  ASSUME Turns, ImagesInv, Shapes, NEW c \in Clients, OnClickListClients(c)
  PROVE  /\ ShapesOf(c) /\ ~Setting(c)' /\ latest' = latest
         /\ \/ up' = up
            \/ /\ Asking(c)' /\ popup' = popup
               /\ \E id \in Ids \ {IdOf[c]} : up'[c] = <<ImageRequest(id)>>
<1>a. Types
  BY DEF ImagesInv
<1>b. /\ up[c] = <<>> /\ sending[c] = None /\ myId[c] = IdOf[c] /\ ~Setting(c)
      /\ latest' = latest /\ sending' = sending
  BY MyTurn DEF OnClickListClients
<1>1. PICK id \in Ids \ {IdOf[c]} :
        \/ up' = up
        \/ up' = [up EXCEPT ![c] = Append(@, ImageRequest(id))] /\ popup' = popup
  BY <1>b DEF OnClickListClients, Listed
<1>2. \A d \in Clients \ {c} : up'[d] = up[d] /\ sending'[d] = sending[d]
  BY <1>a, StepAlone DEF Act, User
<1>3. CASE up' = up
  <2>1. UpShape(c)' /\ ~Setting(c)'
    BY <1>b, <1>3 DEF UpShape, Setting
  <2>2. QED
    BY <1>a, <1>b, <1>2, <1>3, <2>1, ShapesStep
<1>4. CASE up' # up
  <2>1. up'[c] = <<ImageRequest(id)>> /\ sending'[c] = None /\ popup' = popup
    BY <1>a, <1>b, <1>1, <1>4, ShortQueues DEF Types, QueueTypes
  <2>2. UpShape(c)'
    BY <2>1 DEF UpShape
  <2>3. ~Setting(c)' /\ Asking(c)'
    BY <2>1, ShortQueues DEF Setting, Asking, ImageRequest
  <2>4. ShapesOf(c)
    BY <1>a, <1>b, <1>2, <2>2, ShapesStep
  <2>5. QED
    BY <1>b, <2>1, <2>3, <2>4
<1>5. QED
  BY <1>3, <1>4

\* The handlers that take a packet.
LEMMA TakesShapes ==
  ASSUME ImagesInv, Shapes, NEW c \in Clients, Act(c),
         NEW type, Handles(c, type), sending' = sending, latest' = latest
  PROVE  ShapesOf(c)
<1>a. Types /\ UpShape(c)
  BY DEF ImagesInv, Shapes
<1>1. UpShape(c)'
  BY <1>a, ShapeHandled
<1>2. \A d \in Clients \ {c} : up'[d] = up[d] /\ sending'[d] = sending[d]
  BY <1>a, StepAlone
<1>3. QED
  BY <1>a, <1>1, <1>2, ShapesStep

\* Every step leaves the queues in shape.
LEMMA NextShapes ==
  ASSUME Turns, ImagesInv, Shapes, NEW c \in Clients, Act(c)
  PROVE  ShapesOf(c)
<1>1. CASE SetProfileImage(c) \/ SendBytes(c) \/ ClickLogin(c) \/ OnClickListClients(c)
  BY <1>1, SetProfileShapes, SendBytesShapes, ClickLoginShapes, ClickShapes
<1>2. CASE Login(c) \/ SaveImageExt(c) \/ RecvImage(c) \/ FindImageAndSend(c)
  <2>1. sending' = sending /\ latest' = latest
    BY <1>2 DEF Login, SaveImageExt, RecvImage, FindImageAndSend, userVars
  <2>2. \E type : Handles(c, type)
    BY <1>2 DEF Login, SaveImageExt, RecvImage, FindImageAndSend
  <2>3. QED
    BY <2>1, <2>2, TakesShapes
<1>3. CASE UNCHANGED <<up, sending, latest>>
  BY <1>3 DEF Shapes, ShapesOf, UpShape, Own, Setting, Asking
<1>4. \/ SetProfileImage(c) \/ SendBytes(c) \/ ClickLogin(c)
      \/ OnClickListClients(c) \/ Login(c) \/ SaveImageExt(c) \/ RecvImage(c)
      \/ FindImageAndSend(c) \/ UNCHANGED <<up, sending, latest>>
  BY DEF Act, User, ReceiveThread, Handler, Connect, Leave, LoginResult,
         SaveImageName, SaveImage, SendImageRequestMessage,
         RemoveDisconnectedId, BroadcastBytes, SendFoundImage, SendToTarget,
         BroadcastDone, Remove, StartRemoval, userVars
<1>5. QED
  BY <1>1, <1>2, <1>3, <1>4

-----------------------------------------------------------------------------
(* What the server is at.                                                   *)

\* c is the one whose picture, or question, is under way.
Active(c) == Setting(c) \/ Asking(c) \/ Serving(c)

OneActive == \A c, d \in Clients : Active(c) /\ Active(d) => c = d

\* The pause between the name and the picture that was asked for.
Answering(c) == at[c] = "pause" /\ pkt[c].type = "IMAGE_REQUEST"

\* A handler serves the last picture of its client, or answers with the last of
\* another.
ServeShape(c) ==
  /\ Serving(c) => ~Setting(c) /\ ~Asking(c)
  /\ at[c] = "recv" => msg[c] = NoMsg
  /\ at[c] = "bye" => msg[c].type \in {"NONE", "DISCONNECTED_ID"}
  /\ Serving(c) /\ ~Answering(c) => pkt[c] = Image(Own(c))
  /\ at[c] = "ext" => msg[c].type = "IMAGE_EXT" /\ msg[c].name[1] = IdOf[c]
  /\ at[c] = "image" => msg[c] = pkt[c]
  /\ Answering(c) =>
       /\ pkt[c].id # IdOf[c] /\ msg[c].name[1] = pkt[c].id
       /\ saved[msg[c].name] = latest[pkt[c].id] \/ pkt[c].id \in twice

\* The file of the extension a session announced last has the last picture of
\* its account, unless one is still on its way.
LastSaved ==
  \A c \in Clients :
    idMap[c] # None /\ idMap[c] \notin twice /\ profileImageExtMap[c] # None =>
      \/ saved[<<idMap[c], profileImageExtMap[c]>>] = latest[idMap[c]]
      \/ \E s \in Clients : Setting(s) /\ IdOf[s] = idMap[c]

\* What the server is at, of one client at a time.
Serves == (\A c \in Clients : ServeShape(c)) /\ OneActive

\* What the server is at for c after a step, when the rest is as it was.
ServesOf(c) == ServeShape(c)' /\ (Active(c)' => Active(c))

\* A step at which at, msg and pkt stay.
LEMMA SameServes ==
  ASSUME NEW c \in Clients, ServeShape(c), UNCHANGED <<at, msg, pkt>>,
         latest' = latest, twice \subseteq twice',
         saved' = saved \/ ~Serving(c),
         Setting(c)' \/ Asking(c)' => Active(c) /\ ~Serving(c)
  PROVE  ServesOf(c)
<1>1. (Serving(c)' <=> Serving(c)) /\ (Answering(c)' <=> Answering(c))
      /\ Own(c)' = Own(c)
  BY DEF Serving, Answering, Own
<1>2. Answering(c) => Serving(c)
  BY DEF Answering, Serving
<1>3. at[c] = "ext" => Serving(c)
  BY DEF Serving
<1>4. QED
  BY <1>1, <1>2, <1>3 DEF ServesOf, ServeShape, Active

\* The others: what they serve stands, for it is the only one.
LEMMA OthersServe ==
  ASSUME Turns, ImagesInv, Shapes, Serves, NEW c \in Clients, Act(c),
         NEW d \in Clients \ {c}
  PROVE  ServeShape(d)' /\ (Active(d)' <=> Active(d))
<1>a. Types /\ ServeShape(d)
  BY DEF ImagesInv, Serves
<1>b. /\ at'[d] = at[d] /\ msg'[d] = msg[d] /\ pkt'[d] = pkt[d]
      /\ twice \subseteq twice'
      /\ latest' = latest \/ SetProfileImage(c)
      /\ saved' = saved \/ RecvImage(c)
  BY <1>a, StepAlone
<1>c. (Setting(d)' <=> Setting(d)) /\ (Asking(d)' <=> Asking(d))
  BY NextShapes DEF ShapesOf
<1>1. Serving(d) => latest' = latest /\ saved' = saved
  <2>1. SetProfileImage(c) => ~Serving(d)
    BY MyTurn DEF SetProfileImage
  <2>2. RecvImage(c) => Setting(c)
    BY <1>a, ShapeHandled DEF RecvImage, userVars, Shapes
  <2>3. ~(Setting(c) /\ Serving(d))
    BY DEF Serves, OneActive, Active
  <2>4. QED
    BY <1>b, <2>1, <2>2, <2>3
<1>2. (Serving(d)' <=> Serving(d)) /\ (Answering(d)' <=> Answering(d))
  BY <1>b DEF Serving, Answering
<1>3. Answering(d) => Serving(d)
  BY DEF Answering, Serving
<1>4. ServeShape(d)'
  <2>1. CASE Serving(d)
    BY <1>a, <1>b, <1>c, <1>1, <1>2, <2>1 DEF ServeShape, Own
  <2>2. CASE ~Serving(d)
    BY <1>a, <1>b, <1>2, <1>3, <2>2 DEF ServeShape, Serving
  <2>3. QED
    BY <2>1, <2>2
<1>5. QED
  BY <1>c, <1>2, <1>4 DEF Active

\* Users and receive threads leave the handlers alone.
LEMMA UserServes ==
  ASSUME Turns, ImagesInv, Shapes, Serves, NEW c \in Clients,
         User(c) \/ SendBytes(c) \/ ReceiveThread(c)
  PROVE  ServeShape(c)' /\ (Active(c)' => Active(c) \/ \A d \in Clients : ~Active(d))
<1>a. Types /\ ServeShape(c) /\ twice \subseteq twice'
  BY StepAlone DEF ImagesInv, Serves, Act
<1>b. UNCHANGED <<at, msg, pkt, saved>>
  BY DEF User, ReceiveThread, Connect, ClickLogin, SetProfileImage,
         OnClickListClients, Leave, SendBytes, LoginResult, SaveImageName,
         SaveImage, SendImageRequestMessage, RemoveDisconnectedId, handlerVars,
         serverVars
<1>1. CASE SetProfileImage(c) \/ OnClickListClients(c)
  <2>1. \A d \in Clients : ~Active(d)
    BY <1>1, MyTurn DEF SetProfileImage, OnClickListClients, Active
  <2>2. ~Serving(c) /\ ~Serving(c)' /\ ~Answering(c)'
    BY <1>b, <2>1 DEF Active, Serving, Answering
  <2>3. ServeShape(c)'
    BY <1>a, <1>b, <2>2 DEF ServeShape, Serving
  <2>4. QED
    BY <2>1, <2>3
<1>2. CASE SendBytes(c)
  <2>1. latest' = latest
    BY <1>2 DEF SendBytes
  <2>2. Setting(c) /\ ~Serving(c)
    BY <1>a, <1>2, SendBytesShapes DEF ServeShape
  <2>3. QED
    BY <1>a, <1>b, <2>1, <2>2, SameServes DEF ServesOf, Active
<1>3. CASE ClickLogin(c)
  <2>1. latest' = latest
    BY <1>3 DEF ClickLogin, userVars
  <2>2. QED
    BY <1>a, <1>b, <1>3, <2>1, ClickLoginShapes, SameServes DEF ServesOf
<1>4. CASE Connect(c) \/ Leave(c) \/ ReceiveThread(c)
  <2>1. UNCHANGED <<up, sending, latest>>
    BY <1>4 DEF Connect, Leave, ReceiveThread, LoginResult, SaveImageName,
       SaveImage, SendImageRequestMessage, RemoveDisconnectedId, userVars
  <2>2. (Setting(c)' <=> Setting(c)) /\ (Asking(c)' <=> Asking(c))
    BY <2>1 DEF Setting, Asking
  <2>3. QED
    BY <1>a, <1>b, <2>1, <2>2, SameServes DEF ServesOf, Active, ServeShape
<1>5. QED
  BY <1>1, <1>2, <1>3, <1>4 DEF User

\* What a packet at the server says of its client: it is the only one active.
LEMMA RecvServes ==
  ASSUME Turns, ImagesInv, Shapes, Serves, NEW c \in Clients,
         Login(c) \/ SaveImageExt(c) \/ RecvImage(c)
  PROVE  ServesOf(c)
<1>a. /\ Types /\ ServeShape(c) /\ UpShape(c) /\ Own(c)' = Own(c)
      /\ twice \subseteq twice' /\ latest' = latest /\ sending' = sending
  <2>1. twice \subseteq twice'
    BY StepAlone DEF ImagesInv, Act, Handler
  <2>2. latest' = latest /\ sending' = sending
    BY DEF Login, SaveImageExt, RecvImage, userVars
  <2>3. QED
    BY <2>1, <2>2 DEF ImagesInv, Serves, Shapes, Own
<1>1. CASE Login(c)
  <2>1. /\ ~Setting(c) /\ ~Asking(c) /\ ~Setting(c)' /\ ~Asking(c)'
        /\ UNCHANGED <<at, msg, pkt, saved>>
    <3>1. up[c] = <<LoginInfo>> /\ up'[c] = <<>> /\ sending[c] = None
      BY <1>1, <1>a, ShapeHandled DEF Login
    <3>2. UNCHANGED <<at, msg, pkt, saved>>
      BY <1>1 DEF Login, handlerVars
    <3>3. QED
      BY <1>a, <3>1, <3>2, ShapeFacts, NothingQueued DEF Setting, Asking
  <2>2. QED
    BY <1>a, <2>1, SameServes
<1>2. CASE SaveImageExt(c)
  <2>1. /\ Setting(c) /\ at[c] = "recv" /\ UNCHANGED <<at, msg, pkt, saved>>
    BY <1>2, <1>a, ShapeHandled DEF SaveImageExt, handlerVars
  <2>2. QED
    BY <1>a, <2>1, SameServes DEF Active, Serving
<1>3. CASE RecvImage(c)
  <2>1. /\ Setting(c) /\ up'[c] = <<>> /\ sending'[c] = None /\ at[c] = "recv"
        /\ Head(up[c]) = Image(Own(c))
    BY <1>3, <1>a, ShapeHandled DEF RecvImage
  <2>2. ~Setting(c)' /\ ~Asking(c)'
    BY <2>1, NothingQueued DEF Setting, Asking
  <2>3. CASE UNCHANGED handlerVars
    BY <1>a, <2>1, <2>2, <2>3, SameServes DEF handlerVars, Serving
  <2>4. CASE ~UNCHANGED handlerVars
    <3>1. /\ at'[c] = "ext" /\ msg'[c] = NamedExt(ImageName(c))
          /\ pkt'[c] = Image(Own(c))
      BY <1>3, <1>a, <2>1, <2>4
      DEF RecvImage, StartBroadcast, Types, HandlerTypes
    <3>2. ImageName(c)[1] = IdOf[c]
      <4>1. HasType(up[c], "IMAGE") /\ SessionOf(c)
        BY <1>3, <1>a, HandledUp DEF RecvImage, ImagesInv, Follows
      <4>2. QED
        BY <4>1 DEF SessionOf, UserPackets, ImageName
    <3>3. /\ Serving(c)' /\ ~Answering(c)' /\ msg'[c].type = "IMAGE_EXT"
          /\ msg'[c].name[1] = IdOf[c]
      BY <3>1, <3>2 DEF Serving, Answering, NamedExt
    <3>4. ServeShape(c)'
      BY <1>a, <2>2, <3>1, <3>3 DEF ServeShape
    <3>5. QED
      BY <2>1, <3>4 DEF ServesOf, Active
  <2>5. QED
    BY <2>3, <2>4
<1>4. QED
  BY <1>1, <1>2, <1>3

\* What is found for a question is the last picture.
LEMMA FindServes ==
  ASSUME Turns, ImagesInv, Shapes, Serves, LastSaved, NEW c \in Clients,
         FindImageAndSend(c)
  PROVE  /\ ServesOf(c) /\ Asking(c) /\ up'[c] = <<>> /\ ~Setting(c)'
         /\ ~Asking(c)'
         /\ \/ UNCHANGED <<down, at, msg, pkt>>
            \/ \E id \in Ids, ext \in Exts :
                 /\ up[c] = <<ImageRequest(id)>> /\ pkt'[c].id = id
                 /\ Answering(c)'
                 /\ down' = Sent(down, c, NamedExt(<<id, ext>>))
<1>a. /\ Types /\ ServeShape(c) /\ UpShape(c)
      /\ UNCHANGED <<latest, sending, saved, twice, idMap, profileImageExtMap>>
  BY DEF ImagesInv, Serves, Shapes, FindImageAndSend, userVars, serverVars
<1>b. PICK id \in Ids \ {IdOf[c]} :
        up[c] = <<ImageRequest(id)>> /\ Head(up[c]) = ImageRequest(id)
  BY <1>a, ShapeHandled DEF FindImageAndSend
<1>c. /\ Asking(c) /\ ~Setting(c) /\ up'[c] = <<>> /\ sending'[c] = None
      /\ at[c] = "recv"
  BY <1>a, ShapeHandled, ShapeFacts DEF FindImageAndSend
<1>d. ~Setting(c)' /\ ~Asking(c)'
  BY <1>c, NothingQueued DEF Setting, Asking
<1>e. Head(up[c]).id = id /\ ImageRequest(id).type = "IMAGE_REQUEST"
  BY <1>b DEF ImageRequest
<1>f. PICK ext \in ExtsFound(id) :
        \/ /\ ext # None
           /\ down' = Sent(down, c, NamedExt(<<id, ext>>))
           /\ at' = [at EXCEPT ![c] = "pause"]
           /\ msg' = [msg EXCEPT ![c] = NamedExt(<<id, ext>>)]
           /\ pkt' = [pkt EXCEPT ![c] = ImageRequest(id)]
        \/ UNCHANGED <<down, at, msg, pkt>>
  BY <1>b, <1>e DEF FindImageAndSend
<1>1. CASE UNCHANGED <<down, at, msg, pkt>>
  BY <1>1, <1>a, <1>c, <1>d, SameServes
<1>2. CASE ~UNCHANGED <<down, at, msg, pkt>>
  <2>1. /\ ext # None /\ at'[c] = "pause" /\ msg'[c] = NamedExt(<<id, ext>>)
        /\ pkt'[c] = ImageRequest(id) /\ down' = Sent(down, c, NamedExt(<<id, ext>>))
    BY <1>2, <1>a, <1>f DEF Types, HandlerTypes
  <2>2. PICK d \in Clients : idMap[d] = id /\ profileImageExtMap[d] = ext
    BY <2>1 DEF ExtsFound
  <2>3. ext \in Exts /\ id # None
    BY <1>a, <2>1, <2>2, ImagesAssumption DEF Types, ServerTypes
  <2>4. saved[<<id, ext>>] = latest[id] \/ id \in twice
    <3>1. \A s \in Clients : Setting(s) => s = c
      BY <1>c DEF Serves, OneActive, Active
    <3>2. QED
      BY <1>c, <2>1, <2>2, <2>3, <3>1 DEF LastSaved
  <2>5. /\ Serving(c)' /\ Answering(c)' /\ pkt'[c].id = id
        /\ msg'[c].name = <<id, ext>> /\ msg'[c].name[1] = id
    BY <2>1, <1>e DEF Serving, Answering, NamedExt, ImageRequest
  <2>6. ServeShape(c)'
    BY <1>a, <1>d, <2>1, <2>4, <2>5 DEF ServeShape
  <2>7. QED
    BY <1>b, <1>c, <1>d, <2>1, <2>3, <2>5, <2>6 DEF ServesOf, Active
<1>3. QED
  BY <1>1, <1>2

\* The loops, the pause and the removal.
LEMMA LoopServes ==
  ASSUME Turns, ImagesInv, Shapes, Serves, NEW c \in Clients,
         \/ BroadcastBytes(c) \/ SendFoundImage(c) \/ SendToTarget(c)
         \/ BroadcastDone(c) \/ StartRemoval(c) \/ Remove(c)
  PROVE  ServesOf(c)
<1>a. Types /\ ServeShape(c) /\ UNCHANGED <<latest, sending, saved, twice, up>>
  BY DEF ImagesInv, Serves, BroadcastBytes, SendFoundImage, SendToTarget,
         BroadcastDone, StartRemoval, Remove, userVars, serverVars
<1>b. /\ (Setting(c)' <=> Setting(c)) /\ (Asking(c)' <=> Asking(c))
      /\ Own(c)' = Own(c)
  BY <1>a DEF Setting, Asking, Own
<1>1. CASE BroadcastBytes(c)
  <2>1. /\ at[c] = "pause" /\ ~Answering(c) /\ at'[c] = "image"
        /\ msg'[c] = pkt[c] /\ pkt'[c] = pkt[c]
    BY <1>1, <1>a DEF BroadcastBytes, StartBroadcast, Types, HandlerTypes,
                      Answering
  <2>2. Serving(c) /\ Serving(c)' /\ ~Answering(c)'
    BY <2>1 DEF Serving, Answering
  <2>3. QED
    BY <1>a, <1>b, <2>1, <2>2 DEF ServesOf, ServeShape, Active
<1>2. CASE SendFoundImage(c) \/ StartRemoval(c) \/ Remove(c)
  <2>1. /\ at'[c] \in {"recv", "spin", "bye"} /\ (at'[c] = "recv" => msg'[c] = NoMsg)
        /\ at'[c] = "bye" => msg'[c].type \in {"NONE", "DISCONNECTED_ID"}
    <3>1. CASE SendFoundImage(c)
      BY <3>1, <1>a DEF SendFoundImage, Types, HandlerTypes
    <3>2. CASE StartRemoval(c)
      BY <3>2, <1>a DEF StartRemoval, StartBroadcast, Types, HandlerTypes,
                        ServeShape, Goodbye, NoMsg
    <3>3. CASE Remove(c)
      BY <3>3, <1>a DEF Remove, Types, HandlerTypes
    <3>4. QED
      BY <1>2, <3>1, <3>2, <3>3
  <2>2. ~Serving(c)' /\ ~Answering(c)'
    BY <2>1 DEF Serving, Answering
  <2>3. QED
    BY <1>b, <2>1, <2>2 DEF ServesOf, ServeShape, Active
<1>3. CASE SendToTarget(c)
  <2>1. msg' = msg /\ pkt' = pkt /\ at'[c] \in {at[c], "spin"}
    BY <1>3, <1>a DEF SendToTarget, Types, HandlerTypes
  <2>2. (Serving(c)' => Serving(c) /\ at'[c] = at[c])
        /\ (Answering(c)' => Answering(c) /\ at'[c] = at[c])
        /\ (at'[c] = at[c] => (Answering(c)' <=> Answering(c)))
    BY <2>1 DEF Serving, Answering
  <2>3. QED
    BY <1>a, <1>b, <2>1, <2>2 DEF ServesOf, ServeShape, Active
<1>4. CASE BroadcastDone(c)
  <2>1. \/ at[c] = "ext" /\ at'[c] = "pause" /\ pkt'[c] = pkt[c]
        \/ at[c] = "image" /\ at'[c] = "recv" /\ msg'[c] = NoMsg
    BY <1>4, <1>a DEF BroadcastDone, Types, HandlerTypes
  <2>2. CASE at[c] = "ext" /\ at'[c] = "pause" /\ pkt'[c] = pkt[c]
    <3>1. Serving(c) /\ ~Answering(c) /\ pkt[c] = Image(Own(c))
      BY <1>a, <2>2 DEF Serving, Answering, ServeShape
    <3>2. Serving(c)' /\ ~Answering(c)'
      BY <2>2, <3>1 DEF Serving, Answering, Image
    <3>3. QED
      BY <1>a, <1>b, <2>2, <3>1, <3>2 DEF ServesOf, ServeShape, Active
  <2>3. CASE at[c] = "image" /\ at'[c] = "recv" /\ msg'[c] = NoMsg
    BY <1>a, <1>b, <2>3 DEF ServesOf, ServeShape, Active, Serving, Answering
  <2>4. QED
    BY <2>1, <2>2, <2>3
<1>5. QED
  BY <1>1, <1>2, <1>3, <1>4

\* Every step keeps what is served in shape, and one active at most.
LEMMA NextServes ==
  ASSUME Turns, ImagesInv, Shapes, Serves, LastSaved, NEW c \in Clients, Act(c)
  PROVE  Serves'
<1>1. \A d \in Clients \ {c} : ServeShape(d)' /\ (Active(d)' <=> Active(d))
  BY OthersServe
<1>2. /\ ServeShape(c)'
      /\ Active(c)' => Active(c) \/ \A d \in Clients : ~Active(d)
  BY UserServes, RecvServes, FindServes, LoopServes
  DEF Act, Handler, ServesOf
<1>3. OneActive'
  BY <1>1, <1>2 DEF Serves, OneActive
<1>4. QED
  BY <1>1, <1>2, <1>3 DEF Serves

-----------------------------------------------------------------------------
(* What the server has saved, and what a client knows.                      *)

\* Pictures are kept under their owners.
OwnPictures ==
  /\ \A id \in Ids : latest[id] # None => latest[id].id = id
  /\ \A id \in Ids, ext \in Exts :
       saved[<<id, ext>>] # None => saved[<<id, ext>>].id = id

\* Two connections with one id have been noted in twice.
OneSession ==
  \A c, d \in Clients : c # d /\ idMap[c] = idMap[d] /\ idMap[c] # None
                          => idMap[c] \in twice

\* A client that is connected is in the map; it announces nothing before its
\* login, and knows the extension in the name that came last, unless a goodbye
\* has come since.
Joined(c) ==
  /\ Connected(c) => c \in clientsSocketMap
  /\ session[c] = "off" =>
       myId[c] = None /\ lastImageName[c] = None /\ down[c] = <<>>
  /\ myId[c] = None => profileImageExtMap[c] = None
  /\ up[c] = <<LoginInfo>> => profileImageExtMap[c] = None
  /\ lastImageName[c] = None => \A id \in Ids : idExtMap[c][id] = None
  /\ lastImageName[c] # None =>
       idExtMap[c][lastImageName[c][1]] \in {None, lastImageName[c][2]}

\* The invariant but for what is on the way to the clients.
BaseInv == /\ Shapes /\ Serves /\ OwnPictures /\ OneSession /\ LastSaved
           /\ \A c \in Clients : Joined(c)

\* What RecvImage saves.
LEMMA RecvSaves ==
  ASSUME ImagesInv, Shapes, NEW c \in Clients, RecvImage(c)
  PROVE  /\ idMap[c] = IdOf[c] /\ profileImageExtMap[c] \in Exts /\ IdOf[c] \in Ids
         /\ saved' = [saved EXCEPT ![<<IdOf[c], profileImageExtMap[c]>>] =
                                     latest[IdOf[c]]]
         /\ UNCHANGED <<latest, twice, idMap, profileImageExtMap>>
<1>1. idMap[c] = IdOf[c]
  <2>1. HasType(up[c], "IMAGE") /\ SessionOf(c)
    BY HandledUp DEF RecvImage, ImagesInv, Follows
  <2>2. QED
    BY <2>1 DEF SessionOf, UserPackets
<1>2. Head(up[c]).pic = latest[IdOf[c]]
  <2>1. Head(up[c]) = Image(Own(c))
    BY ShapeHandled DEF RecvImage, ImagesInv, Shapes, userVars
  <2>2. QED
    BY <2>1 DEF Image, Own
<1>3. ImageName(c) \in FileNames
  BY ImageHasName DEF RecvImage
<1>4. profileImageExtMap[c] \in Exts
  BY <1>3 DEF ImageName, FileNames
<1>5. QED
  BY <1>1, <1>2, <1>4, ImagesAssumption DEF RecvImage, ImageName, userVars

\* Only a login gives a connection an id, and only a removal takes it.
LEMMA IdsStep ==
  ASSUME Types, NEW c \in Clients, Act(c)
  PROVE  \/ Login(c)
         \/ idMap' = idMap /\ twice' = twice
         \/ Remove(c) /\ idMap' = [idMap EXCEPT ![c] = None] /\ twice' = twice
BY DEF Act, User, ReceiveThread, Handler, Connect, ClickLogin, SetProfileImage,
       OnClickListClients, Leave, SendBytes, LoginResult, SaveImageName,
       SaveImage, SendImageRequestMessage, RemoveDisconnectedId, SaveImageExt,
       RecvImage, BroadcastBytes, FindImageAndSend, SendFoundImage,
       SendToTarget, BroadcastDone, StartRemoval, Remove, serverVars, userVars

\* A second session of an account is noted when it logs in.
LEMMA NextOneSession ==
  ASSUME Types, OneSession, NEW c \in Clients, Act(c)
  PROVE  OneSession'
<1>1. CASE Login(c)
  BY <1>1 DEF Login, OneSession, Types, ServerTypes
<1>2. CASE ~Login(c)
  BY <1>2, IdsStep DEF OneSession, Types, ServerTypes
<1>3. QED
  BY <1>1, <1>2

\* No step puts a picture under another id.
LEMMA NextOwnPictures ==
  ASSUME Turns, ImagesInv, Shapes, OwnPictures, NEW c \in Clients, Act(c)
  PROVE  OwnPictures'
<1>a. Types /\ IdOf[c] \in Ids
  BY ImagesAssumption DEF ImagesInv
<1>1. \A id \in Ids : latest'[id] # None => latest'[id].id = id
  <2>1. CASE SetProfileImage(c)
    <3>1. /\ Own(c)' = [id |-> IdOf[c], by |-> c, no |-> taken[c] + 1]
          /\ \A id \in Ids \ {IdOf[c]} : latest'[id] = latest[id]
      BY <2>1, SetProfileShapes
    <3>2. latest'[IdOf[c]].id = IdOf[c]
      BY <3>1 DEF Own
    <3>3. QED
      BY <3>1, <3>2 DEF OwnPictures
  <2>2. CASE ~SetProfileImage(c)
    BY <1>a, <2>2, StepAlone DEF OwnPictures
  <2>3. QED
    BY <2>1, <2>2
<1>2. \A id \in Ids, ext \in Exts :
        saved'[<<id, ext>>] # None => saved'[<<id, ext>>].id = id
  <2>1. CASE RecvImage(c)
    <3>1. ASSUME NEW id \in Ids, NEW ext \in Exts
          PROVE  saved'[<<id, ext>>] \in
                   {saved[<<id, ext>>], IF id = IdOf[c] THEN latest[id]
                                                       ELSE saved[<<id, ext>>]}
      <4>1. saved' = [saved EXCEPT ![<<IdOf[c], profileImageExtMap[c]>>] =
                                       latest[IdOf[c]]]
        BY <2>1, RecvSaves DEF ImagesInv
      <4>2. saved \in [FileNames -> Pictures \cup {None}]
        BY <1>a DEF Types, ServerTypes
      <4>3. <<id, ext>> \in FileNames
        BY DEF FileNames
      <4>4. QED
        BY <4>1, <4>2, <4>3
    <3>2. QED
      BY <3>1 DEF OwnPictures
  <2>2. CASE ~RecvImage(c)
    BY <1>a, <2>2, StepAlone DEF OwnPictures
  <2>3. QED
    BY <2>1, <2>2
<1>3. QED
  BY <1>1, <1>2 DEF OwnPictures

\* What a setting in progress leaves behind.
LEMMA NextLastSaved ==
  ASSUME Turns, ImagesInv, BaseInv, NEW c \in Clients, Act(c)
  PROVE  LastSaved'
<1>a. /\ Types /\ IdOf[c] \in Ids /\ Shapes /\ LastSaved /\ OneSession
      /\ \A d \in Clients : /\ SessionOf(d) /\ Joined(d) /\ UpShape(d)
                            /\ idMap[d] \in {None, IdOf[d]}
  BY ImagesAssumption DEF ImagesInv, BaseInv, Follows, SessionOf, Shapes
<1>b. \A d \in Clients \ {c} : (Setting(d)' <=> Setting(d))
  BY NextShapes DEF ShapesOf, BaseInv
<1> SUFFICES ASSUME NEW d \in Clients, idMap'[d] # None, idMap'[d] \notin twice',
                    profileImageExtMap'[d] # None
             PROVE  \/ saved'[<<idMap'[d], profileImageExtMap'[d]>>] =
                         latest'[idMap'[d]]
                    \/ \E s \in Clients : Setting(s)' /\ IdOf[s] = idMap'[d]
  BY DEF LastSaved
<1>1. CASE SetProfileImage(c)
  <2>1. /\ Setting(c)' /\ \A id \in Ids \ {IdOf[c]} : latest'[id] = latest[id]
    BY <1>1, SetProfileShapes DEF BaseInv
  <2>2. UNCHANGED <<idMap, profileImageExtMap, saved, twice>>
    BY <1>1 DEF SetProfileImage, serverVars
  <2>3. idMap[d] \in Ids
    BY <1>a, <2>2, ImagesAssumption
  <2>4. CASE idMap[d] = IdOf[c]
    BY <2>1, <2>2, <2>4
  <2>5. CASE idMap[d] # IdOf[c]
    <3>1. ~\E s \in Clients : Setting(s)
      BY <1>1, MyTurn DEF SetProfileImage, BaseInv
    <3>2. QED
      BY <1>a, <2>1, <2>2, <2>3, <2>5, <3>1 DEF LastSaved
  <2>6. QED
    BY <2>4, <2>5
<1>2. CASE SaveImageExt(c)
  <2>1. Setting(c) /\ Setting(c)'
    BY <1>2, <1>a, ShapeHandled DEF SaveImageExt, userVars
  <2>2. /\ UNCHANGED <<idMap, saved, twice, latest>>
        /\ d # c => profileImageExtMap'[d] = profileImageExtMap[d]
    BY <1>2, <1>a DEF SaveImageExt, userVars, Types, ServerTypes
  <2>3. CASE d = c
    BY <1>a, <2>1, <2>2, <2>3
  <2>4. CASE d # c
    BY <1>a, <1>b, <2>1, <2>2, <2>4 DEF LastSaved
  <2>5. QED
    BY <2>3, <2>4
<1>3. CASE RecvImage(c)
  <2>1. /\ idMap[c] = IdOf[c] /\ profileImageExtMap[c] \in Exts
        /\ saved' = [saved EXCEPT ![<<IdOf[c], profileImageExtMap[c]>>] =
                                    latest[IdOf[c]]]
        /\ UNCHANGED <<latest, twice, idMap, profileImageExtMap>>
    BY <1>3, <1>a, RecvSaves
  <2>2. /\ saved \in [FileNames -> Pictures \cup {None}]
        /\ <<IdOf[c], profileImageExtMap[c]>> \in FileNames
        /\ \A id \in Ids, ext \in Exts : <<id, ext>> \in FileNames
    BY <1>a, <2>1 DEF Types, ServerTypes, FileNames
  <2>3. CASE d = c
    BY <2>1, <2>2, <2>3
  <2>4. CASE d # c
    <3>1. idMap[d] # IdOf[c]
      BY <1>a, <2>1, <2>4 DEF OneSession
    <3>2. idMap[d] \in Ids /\ profileImageExtMap[d] \in Exts
      BY <1>a, <2>1, ImagesAssumption DEF Types, ServerTypes
    <3>3. <<idMap[d], profileImageExtMap[d]>> # <<IdOf[c], profileImageExtMap[c]>>
      BY <3>1
    <3>4. saved'[<<idMap[d], profileImageExtMap[d]>>] =
            saved[<<idMap[d], profileImageExtMap[d]>>]
      BY <2>1, <2>2, <3>2, <3>3
    <3>5. \/ saved[<<idMap[d], profileImageExtMap[d]>>] = latest[idMap[d]]
          \/ \E s \in Clients : Setting(s) /\ IdOf[s] = idMap[d]
      BY <1>a, <2>1 DEF LastSaved
    <3>6. ASSUME NEW s \in Clients, Setting(s), IdOf[s] = idMap[d]
          PROVE  Setting(s)'
      BY <1>b, <3>1, <3>6
    <3>7. QED
      BY <2>1, <3>4, <3>5, <3>6
  <2>5. QED
    BY <2>3, <2>4
<1>4. CASE Login(c)
  <2>1. /\ up[c] = <<LoginInfo>> /\ sending[c] = None
        /\ UNCHANGED <<saved, latest, profileImageExtMap>> /\ twice \subseteq twice'
        /\ d # c => idMap'[d] = idMap[d]
    BY <1>4, <1>a, ShapeHandled DEF Login, Types, ServerTypes
  <2>2. d # c /\ ~Setting(c)
    BY <1>a, <2>1, ShapeFacts DEF Joined
  <2>3. QED
    BY <1>a, <1>b, <2>1, <2>2 DEF LastSaved
<1>5. CASE SendBytes(c)
  <2>1. Setting(c)' /\ UNCHANGED <<idMap, profileImageExtMap, saved, twice, latest>>
    BY <1>5, <1>a, SendBytesShapes DEF SendBytes, serverVars
  <2>2. QED
    BY <1>a, <1>b, <2>1 DEF LastSaved
<1>6. CASE ~(SetProfileImage(c) \/ SaveImageExt(c) \/ RecvImage(c) \/ Login(c)
             \/ SendBytes(c))
  <2>1. /\ profileImageExtMap' = profileImageExtMap /\ saved' = saved
        /\ latest' = latest /\ twice' = twice
        /\ idMap'[d] = idMap[d]
        /\ up' = up \/ ClickLogin(c) \/ OnClickListClients(c) \/ FindImageAndSend(c)
        /\ sending' = sending
    <3>1. idMap'[d] = idMap[d] /\ twice' = twice
      BY <1>6, <1>a, IdsStep DEF Types, ServerTypes
    <3>2. QED
      BY <1>6, <1>a, <3>1
      DEF Act, User, ReceiveThread, Handler, Connect, ClickLogin,
         OnClickListClients, Leave, LoginResult, SaveImageName,
         SaveImage, SendImageRequestMessage, RemoveDisconnectedId,
         BroadcastBytes, FindImageAndSend, SendFoundImage,
         SendToTarget, BroadcastDone, StartRemoval, Remove, serverVars, userVars
  <2>2. Setting(c) => Setting(c)'
    <3>1. CASE up' = up
      BY <2>1, <3>1 DEF Setting
    <3>2. CASE ClickLogin(c)
      BY <1>a, <3>2, ClickLoginShapes
    <3>3. CASE OnClickListClients(c)
      BY <3>3, MyTurn DEF OnClickListClients, BaseInv
    <3>4. CASE FindImageAndSend(c)
      BY <1>a, <2>1, <3>4, ShapeHandled, ShapeFacts DEF FindImageAndSend
    <3>5. QED
      BY <2>1, <3>1, <3>2, <3>3, <3>4
  <2>3. QED
    BY <1>a, <1>b, <2>1, <2>2 DEF LastSaved
<1>7. QED
  BY <1>1, <1>2, <1>3, <1>4, <1>5, <1>6

\* Nothing but what the actions named change touches what a client knows.
LEMMA KnownStep ==
  ASSUME Types, NEW c \in Clients, Act(c)
  PROVE  /\ clientsSocketMap' = clientsSocketMap \/ Connect(c) \/ Remove(c)
         /\ session' = session \/ Connect(c) \/ Leave(c) \/ LoginResult(c)
         /\ myId' = myId \/ ClickLogin(c)
         /\ profileImageExtMap' = profileImageExtMap \/ SaveImageExt(c)
         /\ lastImageName' = lastImageName \/ SaveImageName(c)
         /\ idExtMap' = idExtMap \/ SaveImageName(c) \/ RemoveDisconnectedId(c)
         /\ stored' = stored \/ SaveImage(c) \/ SendImageRequestMessage(c)
         /\ popup' = popup \/ OnClickListClients(c)
         /\ idMap' = idMap \/ Login(c) \/ Remove(c)
BY DEF Act, User, ReceiveThread, Handler, Connect, ClickLogin, SetProfileImage,
       OnClickListClients, Leave, SendBytes, LoginResult, SaveImageName,
       SaveImage, SendImageRequestMessage, RemoveDisconnectedId, Login,
       SaveImageExt, RecvImage, BroadcastBytes, FindImageAndSend,
       SendFoundImage, SendToTarget, BroadcastDone, StartRemoval, Remove,
       serverVars, programVars, userVars

\* Only a login is in the queue of LOGIN_INFO alone.
LEMMA LoginQueue ==
  ASSUME Turns, ImagesInv, Shapes, NEW c \in Clients, Act(c),
         up'[c] = <<LoginInfo>>
  PROVE  up[c] = <<LoginInfo>> \/ ClickLogin(c)
<1>a. Types /\ UpShape(c)
  BY DEF ImagesInv, Shapes
<1>0. HasType(up'[c], "LOGIN_INFO") /\ ~HasType(up'[c], "IMAGE")
  BY ShortQueues DEF LoginInfo
<1>1. CASE SetProfileImage(c)
  <2>1. up[c] = <<>>
    BY <1>1, MyTurn DEF SetProfileImage
  <2>2. PICK ext : up' = [up EXCEPT ![c] = Append(@, ImageExt(ext))]
    BY <1>1 DEF SetProfileImage
  <2>3. up'[c] = Append(<<>>, ImageExt(ext))
    BY <1>a, <2>1, <2>2 DEF Types, QueueTypes
  <2>4. up'[c] = <<ImageExt(ext)>>
    BY <2>3, ShortQueues
  <2>5. ~HasType(up'[c], "LOGIN_INFO")
    BY <2>4, ShortQueues DEF ImageExt
  <2>6. QED
    BY <1>0, <2>5
<1>2. CASE OnClickListClients(c)
  <2>1. up' = up \/ Asking(c)'
    BY <1>2, ClickShapes
  <2>2. ~Asking(c)'
    BY ShortQueues DEF Asking, LoginInfo
  <2>3. QED
    BY <2>1, <2>2
<1>3. CASE SendBytes(c)
  <2>1. Setting(c)' /\ sending'[c] = None
    BY <1>a, <1>3, SendBytesShapes DEF SendBytes, Types, UserTypes
  <2>2. QED
    BY <1>0, <2>1 DEF Setting
<1>4. ASSUME NEW type, Handles(c, type)
      PROVE  up[c] = <<LoginInfo>>
  BY <1>0, <1>a, <1>4, HandledUp, ShapeFacts
<1>5. CASE up' = up
  BY <1>5
<1>6. \/ SetProfileImage(c) \/ OnClickListClients(c) \/ SendBytes(c)
      \/ ClickLogin(c) \/ up' = up \/ \E type : Handles(c, type)
  BY DEF Act, User, ReceiveThread, Handler, Connect, Leave, LoginResult,
         SaveImageName, SaveImage, SendImageRequestMessage,
         RemoveDisconnectedId, Login, SaveImageExt, RecvImage, BroadcastBytes,
         FindImageAndSend, SendFoundImage, SendToTarget, BroadcastDone,
         StartRemoval, Remove
<1>7. QED
  BY <1>1, <1>2, <1>3, <1>4, <1>5, <1>6

\* What a client knows of pictures after a step of its receive thread.
LEMMA NamesStep ==
  ASSUME Types, NEW c \in Clients, Act(c)
  PROVE  /\ SaveImageName(c) =>
              /\ Head(down[c]) \in DownPackets /\ Head(down[c]).name \in FileNames
              /\ lastImageName'[c] = Head(down[c]).name
              /\ lastImageName'[c] # None
              /\ idExtMap'[c] = [idExtMap[c] EXCEPT ![Head(down[c]).name[1]] =
                                                      Head(down[c]).name[2]]
         /\ RemoveDisconnectedId(c) =>
              /\ Head(down[c]).id \in Ids
              /\ idExtMap'[c] = [idExtMap[c] EXCEPT ![Head(down[c]).id] = None]
         /\ idExtMap[c] \in [Ids -> Exts \cup {None}]
         /\ \A name \in FileNames : /\ name # None /\ name[1] \in Ids
                                    /\ name[2] \in Exts /\ name = <<name[1], name[2]>>
<1>1. \A name \in FileNames : /\ name # None /\ name[1] \in Ids
                              /\ name[2] \in Exts /\ name = <<name[1], name[2]>>
  BY NoneAssumption DEF FileNames
<1>2. CASE SaveImageName(c)
  <2>1. Head(down[c]) \in DownPackets /\ Head(down[c]).type = "IMAGE_EXT"
    BY <1>2, Shortened DEF SaveImageName, Receives, Types, QueueTypes
  <2>2. Head(down[c]).name \in FileNames
    BY <2>1, DownPacket
  <2>3. ~RemoveDisconnectedId(c)
    BY <2>1 DEF RemoveDisconnectedId, Receives
  <2>4. QED
    BY <1>1, <1>2, <2>1, <2>2, <2>3 DEF SaveImageName, Types, ProgramTypes
<1>3. CASE RemoveDisconnectedId(c)
  <2>1. Head(down[c]) \in DownPackets /\ Head(down[c]).type = "DISCONNECTED_ID"
    BY <1>3, Shortened DEF RemoveDisconnectedId, Receives, Types, QueueTypes
  <2>2. Head(down[c]).id \in Ids
    BY <2>1, DownPacket
  <2>3. ~SaveImageName(c)
    BY <2>1 DEF SaveImageName, Receives
  <2>4. QED
    BY <1>1, <1>3, <2>1, <2>2, <2>3 DEF RemoveDisconnectedId, Types, ProgramTypes
<1>4. QED
  BY <1>1, <1>2, <1>3 DEF Types, ProgramTypes

\* What goes to the clients at a step: nothing, one packet, or c takes one.
LEMMA DownStep ==
  ASSUME ImagesInv, NEW c \in Clients, Act(c)
  PROVE  \/ down' = down
         \/ Leave(c) /\ down' = [down EXCEPT ![c] = <<>>]
         \/ ReceiveThread(c) /\ Connected(c) /\ down' = [down EXCEPT ![c] = Tail(@)]
         \/ \E d \in Clients : \E m : down' = Sent(down, d, m)
<1>1. CASE SendToTarget(c)
  <2>1. todo[c] \subseteq Clients
    BY DEF ImagesInv, Types, HandlerTypes
  <2>2. QED
    BY <1>1, <2>1 DEF SendToTarget
<1>2. CASE FindImageAndSend(c)
  BY <1>2 DEF FindImageAndSend
<1>3. CASE ~SendToTarget(c) /\ ~FindImageAndSend(c)
  BY <1>3 DEF Act, User, ReceiveThread, Handler, Connect, ClickLogin,
       SetProfileImage, OnClickListClients, Leave, SendBytes, LoginResult,
       SaveImageName, SaveImage, SendImageRequestMessage, RemoveDisconnectedId,
       Login, SaveImageExt, RecvImage, BroadcastBytes, SendFoundImage,
       BroadcastDone, StartRemoval, Remove, Receives
<1>4. QED
  BY <1>1, <1>2, <1>3

\* Every step keeps what a client is and knows together.
LEMMA NextJoined ==
  ASSUME Turns, ImagesInv, BaseInv, NEW c \in Clients, Act(c), NEW d \in Clients
  PROVE  Joined(d)'
<1>a. /\ Types /\ IdOf[c] \in Ids /\ Shapes /\ Joined(d) /\ SessionOf(c)
      /\ UpShape(c) /\ IdOf[c] # None
  BY ImagesAssumption DEF ImagesInv, BaseInv, Follows, Shapes
<1>1. Connected(d)' => d \in clientsSocketMap'
  <2>1. Connected(d)' => Connected(d) \/ (Connect(c) /\ d = c)
    <3>1. session' = session \/ Connect(c) \/ Leave(c) \/ LoginResult(c)
      BY <1>a, KnownStep
    <3>2. QED
      BY <1>a, <3>1 DEF Connect, Leave, LoginResult, Receives, Connected, Types,
                        ProgramTypes
  <2>2. clientsSocketMap' = clientsSocketMap \/ Connect(c) \/ Remove(c)
    BY <1>a, KnownStep
  <2>3. Remove(c) => /\ session[c] = "left" /\ session' = session
                     /\ clientsSocketMap' = clientsSocketMap \ {c}
    BY <1>a DEF Remove, SessionOf, programVars
  <2>4. Connect(c) => clientsSocketMap' = clientsSocketMap \cup {c}
    BY DEF Connect
  <2>5. QED
    BY <1>a, <2>1, <2>2, <2>3, <2>4 DEF Joined, Connected
<1>0. session'[d] = "off" => down'[d] = <<>>
  <2>1. session'[d] = "off" => session[d] = "off"
    BY <1>a, KnownStep DEF Connect, Leave, LoginResult, Types, ProgramTypes
  <2>2. session[d] = "off" => ~Connected(d)
    BY DEF Connected
  <2>3. ~Connected(d) => down'[d] = down[d] \/ down'[d] = <<>>
    BY <1>a, DownStep DEF Sent, Types, QueueTypes
  <2>4. QED
    BY <1>a, <2>1, <2>2, <2>3 DEF Joined
<1>2. CASE d # c
  <2>1. /\ up'[d] = up[d] /\ profileImageExtMap'[d] = profileImageExtMap[d]
        /\ myId'[d] = myId[d] /\ session'[d] = session[d]
        /\ idExtMap'[d] = idExtMap[d] /\ lastImageName'[d] = lastImageName[d]
    BY <1>a, <1>2, StepAlone
  <2>2. QED
    BY <1>a, <1>0, <1>1, <2>1 DEF Joined
<1>3. CASE d = c
  <2>1. session'[c] = "off" => myId'[c] = None /\ lastImageName'[c] = None
    <3>1. session'[c] = "off" => session[c] = "off"
      BY <1>a, KnownStep
      DEF Connect, Leave, LoginResult, Types, ProgramTypes
    <3>2. session[c] = "off" => ~ClickLogin(c) /\ ~SaveImageName(c)
      BY DEF ClickLogin, SaveImageName, Receives, Connected
    <3>3. QED
      BY <1>a, <1>3, <3>1, <3>2, KnownStep DEF Joined
  <2>2. /\ myId'[c] = None => profileImageExtMap'[c] = None
        /\ up'[c] = <<LoginInfo>> => profileImageExtMap'[c] = None
    <3>1. CASE SaveImageExt(c)
      <4>1. HasType(up[c], "IMAGE_EXT") /\ myId' = myId
        BY <1>a, <3>1, HandledUp DEF SaveImageExt, programVars
      <4>2. myId[c] = IdOf[c]
        BY <1>a, <4>1 DEF SessionOf, UserPackets
      <4>3. up[c] # <<LoginInfo>> /\ ~ClickLogin(c)
        <5>1. ~HasType(<<LoginInfo>>, "IMAGE_EXT")
          BY ShortQueues DEF LoginInfo
        <5>2. QED
          BY <1>a, <4>1, <4>2, <5>1 DEF ClickLogin
      <4>4. up'[c] # <<LoginInfo>>
        BY <1>a, <4>3, LoginQueue
      <4>5. QED
        BY <1>a, <4>1, <4>2, <4>4
    <3>2. CASE ~SaveImageExt(c)
      <4>1. profileImageExtMap' = profileImageExtMap
        BY <1>a, <3>2, KnownStep
      <4>2. myId'[c] = None => myId[c] = None
        BY <1>a, KnownStep DEF ClickLogin, Types, ProgramTypes
      <4>3. ClickLogin(c) => myId[c] = None
        BY DEF ClickLogin
      <4>4. QED
        BY <1>a, <1>3, <4>1, <4>2, <4>3, LoginQueue DEF Joined
    <3>3. QED
      BY <3>1, <3>2
  <2>3. /\ lastImageName'[c] = None => \A id \in Ids : idExtMap'[c][id] = None
        /\ lastImageName'[c] # None =>
             idExtMap'[c][lastImageName'[c][1]] \in {None, lastImageName'[c][2]}
    <3>1. CASE SaveImageName(c)
      <4> DEFINE name == Head(down[c]).name
      <4>1. /\ name \in FileNames /\ lastImageName'[c] = name
            /\ lastImageName'[c] # None
            /\ idExtMap'[c] = [idExtMap[c] EXCEPT ![name[1]] = name[2]]
            /\ idExtMap[c] \in [Ids -> Exts \cup {None}] /\ name[1] \in Ids
        BY <1>a, <3>1, NamesStep
      <4> HIDE DEF name
      <4>2. idExtMap'[c][name[1]] = name[2]
        BY <4>1
      <4>3. QED
        BY <4>1, <4>2
    <3>2. CASE RemoveDisconnectedId(c)
      <4>1. lastImageName' = lastImageName
        BY <3>2 DEF RemoveDisconnectedId
      <4>2. \A id \in Ids : idExtMap'[c][id] \in {None, idExtMap[c][id]}
        <5> DEFINE gone == Head(down[c]).id
        <5>1. /\ idExtMap'[c] = [idExtMap[c] EXCEPT ![gone] = None]
              /\ idExtMap[c] \in [Ids -> Exts \cup {None}]
          BY <1>a, <3>2, NamesStep
        <5> HIDE DEF gone
        <5>2. QED
          BY <5>1
      <4>3. lastImageName[c] # None => lastImageName[c][1] \in Ids
        BY <1>a DEF Types, ProgramTypes, FileNames
      <4>4. QED
        BY <1>a, <1>3, <4>1, <4>2, <4>3 DEF Joined
    <3>3. CASE ~SaveImageName(c) /\ ~RemoveDisconnectedId(c)
      BY <1>a, <1>3, <3>3, KnownStep DEF Joined
    <3>4. QED
      BY <3>1, <3>2, <3>3
  <2>4. QED
    BY <1>0, <1>1, <1>3, <2>1, <2>2, <2>3 DEF Joined
<1>4. QED
  BY <1>2, <1>3

\* Nobody has done anything yet.
LEMMA InitBase == Init => BaseInv
<1> SUFFICES ASSUME Init
             PROVE  BaseInv
  OBVIOUS
<1>1. \A c \in Clients :
        /\ up[c] = <<>> /\ sending[c] = None /\ at[c] = "recv" /\ msg[c] = NoMsg
        /\ idMap[c] = None /\ profileImageExtMap[c] = None /\ session[c] = "off"
        /\ myId[c] = None /\ lastImageName[c] = None /\ down[c] = <<>>
        /\ \A id \in Ids : idExtMap[c][id] = None
  BY DEF Init
<1>2. \A c \in Clients : UpShape(c) /\ ~Serving(c) /\ ~Answering(c)
  BY <1>1 DEF UpShape, Serving, Answering
<1>3. \A c \in Clients : ~Active(c)
  BY <1>1, <1>2, NothingQueued DEF Active, Setting, Asking
<1>4. \A c \in Clients : ServeShape(c)
  BY <1>1, <1>2 DEF ServeShape, Serving
<1>5. \A c \in Clients : Joined(c)
  <2>1. \A c \in Clients : ~Connected(c) /\ up[c] # <<LoginInfo>>
    BY <1>1, ShortQueues DEF Connected
  <2>2. QED
    BY <1>1, <2>1 DEF Joined
<1>6. OwnPictures
  BY DEF Init, OwnPictures, FileNames
<1>7. OneSession /\ LastSaved
  BY <1>1 DEF OneSession, LastSaved
<1>8. QED
  BY <1>2, <1>3, <1>4, <1>5, <1>6, <1>7 DEF BaseInv, Shapes, Serves, OneActive

\* Every step keeps all of it.
LEMMA NextBase ==
  ASSUME Turns, ImagesInv, BaseInv, NEW c \in Clients, Act(c)
  PROVE  BaseInv'
<1>1. Types /\ Shapes /\ Serves /\ OwnPictures /\ OneSession /\ LastSaved
  BY DEF ImagesInv, BaseInv
<1>2. Shapes' /\ Serves'
  BY <1>1, NextShapes, NextServes DEF ShapesOf
<1>3. OwnPictures' /\ OneSession' /\ LastSaved'
  BY <1>1, NextOwnPictures, NextOneSession, NextLastSaved
<1>4. \A d \in Clients : Joined(d)'
  BY NextJoined
<1>5. QED
  BY <1>2, <1>3, <1>4 DEF BaseInv

-----------------------------------------------------------------------------
(* What the picture under way is about.                                     *)

\* The pictures of T that may be under way.
Pics(T) == {pic \in Pictures : pic.id = T /\ (pic = latest[T] \/ T \in twice)}

\* Who sends, asks, serves or answers does so about T.
TopicOf(c, T) ==
  /\ Setting(c) => IdOf[c] = T
  /\ \A id \in Ids : up[c] = <<ImageRequest(id)>> => id = T
  /\ Serving(c) /\ ~Answering(c) => IdOf[c] = T
  /\ Answering(c) => pkt[c].id = T

\* A client has, or gets first, the name of what it will get.
Known(c, T)  == lastImageName[c] = None \/ lastImageName[c][1] = T
Primed(c, T) == Known(c, T) \/ NameIn(down[c]) \/ ~Connected(c)

\* The queue to c is of T, and c will have the name when a picture comes.
QueueOf(c, T) == /\ Queued(down[c], T, Pics(T))
                 /\ PicIn(down[c]) => Primed(c, T)

\* A handler sends bytes to those who have the name, or get it first.
PrimedBy(s, T) ==
  /\ at[s] = "ext" =>
       \A c \in clientsSocketMap \ {s} : c \in todo[s] \/ Primed(c, T)
  /\ at[s] = "pause" /\ ~Answering(s) =>
       \A c \in clientsSocketMap \ {s} : Primed(c, T)
  /\ at[s] = "image" => \A c \in todo[s] : Primed(c, T)
  /\ Answering(s) => Primed(s, T)

\* Until the bytes are sent there are none.
Early(s) == Setting(s) \/ Asking(s) \/ at[s] \in {"ext", "pause"}

\* What c would show of id is the last picture, unless that came before the
\* login.
Right(c, id) ==
  \/ idExtMap[c][id] = None
  \/ stored[c][<<myId[c], id, idExtMap[c][id]>>] = latest[id]
  \/ CameBeforeLogin(c, id)

\* What the property excepts, and whom no click of c concerns.
Exempt(c, id) == id = IdOf[c] \/ ~Connected(c) \/ id \in twice \/ Spinning(id)

\* The last picture is on its way to c.
Brings(s, c) ==
  \/ Setting(s) \/ at[s] = "ext" \/ (at[s] = "pause" /\ ~Answering(s))
  \/ at[s] = "image" /\ c \in todo[s]
Coming(c) == PicIn(down[c]) \/ Answering(c) \/ \E s \in Clients : Brings(s, c)

\* c has the last picture, and no name of T is still to come.
Settled(c, id, T) == Right(c, id) /\ (id = T => ~NameIn(down[c]))

\* c has the last picture of id or will get it.
Fresh(c, id, T) == \/ Exempt(c, id) \/ Settled(c, id, T)
                   \/ id = T /\ Coming(c)

\* All that is under way is about T, and leaves everyone with the last picture.
Flow(T) ==
  /\ \A c \in Clients : TopicOf(c, T) /\ PrimedBy(c, T) /\ QueueOf(c, T)
  /\ \A s, c \in Clients : Early(s) => ~PicIn(down[c])
  /\ \A c \in Clients, id \in Ids : Fresh(c, id, T)

FlowInv == \E T \in Ids \cup {None} : Flow(T)

\* The steps at which no picture comes nearer.
LEMMA FlowKept ==
  ASSUME NEW T, Flow(T),
         \A s \in Clients :
           /\ Setting(s)' <=> Setting(s)
           /\ Asking(s)' => Asking(s)
           /\ \A id \in Ids :
                up'[s] = <<ImageRequest(id)>> => up[s] = <<ImageRequest(id)>>
           /\ at'[s] = at[s] \/ {at[s], at'[s]} \subseteq {"recv", "bye"}
           /\ pkt'[s] = pkt[s],
         \A d \in Clients :
           /\ QueueOf(d, T)' /\ (PicIn(down'[d]) => PicIn(down[d]))
           /\ Primed(d, T) => Primed(d, T)'
           /\ d \in clientsSocketMap' => d \in clientsSocketMap \/ Primed(d, T)',
         \A s, d \in Clients : at[s] \in {"ext", "image"} =>
           /\ d \in todo'[s] => d \in todo[s] \/ Primed(d, T)'
           /\ d \in todo[s] => d \in todo'[s] \/ ~Connected(d)',
         \A d \in Clients, id \in Ids :
           \/ Exempt(d, id)' \/ Settled(d, id, T)'
           \/ /\ ~Exempt(d, id) /\ ~Settled(d, id, T)
              /\ PicIn(down[d]) => PicIn(down'[d]),
         clientsSocketMap' \subseteq Clients, \A s \in Clients : todo'[s] \subseteq Clients
  PROVE  Flow(T)'
<1>1. ASSUME NEW s \in Clients
      PROVE  /\ Serving(s)' <=> Serving(s)
             /\ Answering(s)' <=> Answering(s)
             /\ Serving(s) => at'[s] = at[s]
             /\ at'[s] \in {"ext", "pause", "image"} => at[s] = at'[s]
             /\ pkt'[s] = pkt[s] /\ (Setting(s)' <=> Setting(s))
  BY <1>1 DEF Serving, Answering
<1>2. ASSUME NEW s \in Clients
      PROVE  TopicOf(s, T)'
  BY <1>1 DEF Flow, TopicOf
<1>3. ASSUME NEW s \in Clients
      PROVE  PrimedBy(s, T)'
  <2>1. PrimedBy(s, T)
    BY DEF Flow
  <2>2. ASSUME at'[s] = "ext", NEW c \in clientsSocketMap' \ {s}
        PROVE  c \in todo'[s] \/ Primed(c, T)'
    <3>1. at[s] = "ext" /\ c \in Clients
      BY <1>1, <2>2
    <3>2. CASE c \in clientsSocketMap
      <4>1. c \in todo[s] \/ Primed(c, T)
        BY <2>1, <2>2, <3>1, <3>2 DEF PrimedBy
      <4>2. ~Connected(c)' => Primed(c, T)'
        BY DEF Primed
      <4>3. QED
        BY <3>1, <4>1, <4>2
    <3>3. QED
      BY <2>2, <3>1, <3>2
  <2>3. ASSUME at'[s] = "pause", ~Answering(s)',
               NEW c \in clientsSocketMap' \ {s}
        PROVE  Primed(c, T)'
    BY <1>1, <2>1, <2>3 DEF PrimedBy
  <2>4. ASSUME at'[s] = "image", NEW c \in todo'[s]
        PROVE  Primed(c, T)'
    BY <1>1, <2>1, <2>4 DEF PrimedBy
  <2>5. Answering(s)' => Primed(s, T)'
    BY <1>1, <2>1 DEF PrimedBy
  <2>6. QED
    BY <2>2, <2>3, <2>4, <2>5 DEF PrimedBy
<1>4. ASSUME NEW s \in Clients, NEW c \in Clients, Early(s)'
      PROVE  ~PicIn(down'[c])
  <2>1. Early(s)
    BY <1>1, <1>4 DEF Early
  <2>2. QED
    BY <2>1 DEF Flow
<1>5. ASSUME NEW c \in Clients, NEW id \in Ids
      PROVE  Fresh(c, id, T)'
  <2>1. CASE Exempt(c, id)' \/ Settled(c, id, T)'
    BY <2>1 DEF Fresh
  <2>2. CASE /\ ~Exempt(c, id) /\ ~Settled(c, id, T)
             /\ PicIn(down[c]) => PicIn(down'[c])
    <3>1. id = T /\ Coming(c)
      BY <2>2 DEF Flow, Fresh
    <3>2. Coming(c)' \/ ~Connected(c)'
      <4>1. CASE PicIn(down[c]) \/ Answering(c)
        BY <1>1, <2>2, <4>1 DEF Coming
      <4>2. ASSUME NEW s \in Clients, Brings(s, c)
            PROVE  Brings(s, c)' \/ ~Connected(c)'
        <5>1. CASE at[s] = "image" /\ c \in todo[s]
          BY <1>1, <5>1 DEF Brings, Serving
        <5>2. CASE ~(at[s] = "image" /\ c \in todo[s])
          BY <1>1, <4>2, <5>2 DEF Brings, Serving
        <5>3. QED
          BY <5>1, <5>2
      <4>3. QED
        BY <3>1, <4>1, <4>2 DEF Coming
    <3>3. QED
      BY <3>1, <3>2 DEF Fresh, Exempt
  <2>3. QED
    BY <2>1, <2>2
<1>6. QED
  BY <1>2, <1>3, <1>4, <1>5 DEF Flow

\* A user acts: nothing is under way, what everyone has is settled, and all
\* that follows is about the id the user acts on.
LEMMA NewTurn ==
  ASSUME Turns, ImagesInv, BaseInv, NEW T0, Flow(T0), NEW c \in Clients,
         MayAct(c), NEW T \in Ids,
         UNCHANGED <<at, pkt, down, programVars, twice>>,
         \A s \in Clients \ {c} : up'[s] = up[s] /\ sending'[s] = sending[s],
         TopicOf(c, T)', Setting(c)' \/ latest' = latest,
         \A id \in Ids \ {T} : latest'[id] = latest[id]
  PROVE  Flow(T)'
<1>1. ASSUME NEW s \in Clients
      PROVE  /\ sending[s] = None /\ up[s] = <<>> /\ down[s] = <<>>
             /\ ~Setting(s) /\ ~Serving(s) /\ ~Answering(s)
             /\ at[s] \notin {"ext", "pause", "image"}
  BY MyTurn DEF BaseInv, Serving, Answering
<1>2. ASSUME NEW s \in Clients
      PROVE  /\ down'[s] = <<>> /\ ~Serving(s)' /\ ~Answering(s)'
             /\ at'[s] \notin {"ext", "pause", "image"}
  BY <1>1 DEF Serving, Answering
<1>3. ASSUME NEW s \in Clients
      PROVE  TopicOf(s, T)' /\ PrimedBy(s, T)' /\ QueueOf(s, T)'
  <2>1. TopicOf(s, T)'
    <3>1. CASE s = c
      BY <3>1
    <3>2. CASE s # c
      <4>1. up'[s] = <<>> /\ sending'[s] = None
        BY <1>1, <3>2
      <4>2. ~Setting(s)' /\ \A id \in Ids : up'[s] # <<ImageRequest(id)>>
        BY <4>1, NothingQueued, ShortQueues DEF Setting
      <4>3. QED
        BY <1>2, <4>2 DEF TopicOf
    <3>3. QED
      BY <3>1, <3>2
  <2>2. PrimedBy(s, T)'
    BY <1>2 DEF PrimedBy
  <2>3. QueueOf(s, T)'
    BY <1>2, QueueEmpty DEF QueueOf
  <2>4. QED
    BY <2>1, <2>2, <2>3
<1>4. \A s \in Clients : ~PicIn(down'[s]) /\ ~NameIn(down'[s])
  BY <1>2, QueueEmpty
<1>5. ASSUME NEW d \in Clients, NEW id \in Ids
      PROVE  Fresh(d, id, T)'
  <2>1. CASE id = T /\ Setting(c)'
    BY <2>1 DEF Fresh, Coming, Brings
  <2>2. CASE latest'[id] = latest[id]
    <3>1. ~Coming(d)
      BY <1>1, QueueEmpty DEF Coming, Brings
    <3>2. Exempt(d, id) \/ Right(d, id)
      BY <3>1 DEF Flow, Fresh, Settled
    <3>3. Exempt(d, id) => Exempt(d, id)'
      BY DEF Exempt, Spinning, Connected, programVars
    <3>4. Right(d, id) => Right(d, id)'
      BY <2>2 DEF Right, CameBeforeLogin, programVars
    <3>5. QED
      BY <1>4, <3>2, <3>3, <3>4 DEF Fresh, Settled
  <2>3. QED
    BY <2>1, <2>2
<1>6. QED
  BY <1>3, <1>4, <1>5 DEF Flow

\* A picture is set: from here on all is about the account of c.
LEMMA SetProfileFlow ==
  ASSUME Turns, ImagesInv, BaseInv, NEW T, Flow(T), NEW c \in Clients,
         SetProfileImage(c)
  PROVE  Flow(IdOf[c])'
<1>a. Types /\ IdOf[c] \in Ids /\ MayAct(c)
  BY ImagesAssumption DEF ImagesInv, SetProfileImage
<1>1. /\ Setting(c)' /\ ~Asking(c)'
      /\ \A id \in Ids \ {IdOf[c]} : latest'[id] = latest[id]
  BY SetProfileShapes DEF BaseInv
<1>2. /\ UNCHANGED <<at, pkt, down, programVars, twice>>
      /\ \A s \in Clients \ {c} : up'[s] = up[s] /\ sending'[s] = sending[s]
  <2>1. \A s \in Clients \ {c} : up'[s] = up[s] /\ sending'[s] = sending[s]
    BY <1>a, StepAlone DEF Act, User
  <2>2. QED
    BY <2>1 DEF SetProfileImage, handlerVars
<1>3. TopicOf(c, IdOf[c])'
  <2>1. ~Serving(c)
    BY <1>a, MyTurn DEF BaseInv
  <2>2. ~Serving(c)' /\ ~Answering(c)'
    BY <1>2, <2>1 DEF Serving, Answering
  <2>3. \A id \in Ids : up'[c] # <<ImageRequest(id)>>
    <3>1. \A id : HasType(<<ImageRequest(id)>>, "IMAGE_REQUEST")
      BY ShortQueues DEF ImageRequest
    <3>2. QED
      BY <1>1, <3>1 DEF Asking
  <2>4. QED
    BY <2>2, <2>3 DEF TopicOf
<1>4. QED
  BY <1>a, <1>1, <1>2, <1>3, NewTurn

\* c asks for a picture: from here on all is about the account it asks for.
LEMMA RequestFlow ==
  ASSUME Turns, ImagesInv, BaseInv, NEW T, Flow(T), NEW c \in Clients,
         OnClickListClients(c), up' # up
  PROVE  \E id \in Ids : Flow(id)'
<1>a. Types /\ MayAct(c)
  BY DEF ImagesInv, OnClickListClients
<1>1. PICK id \in Ids : up'[c] = <<ImageRequest(id)>>
  BY ClickShapes DEF BaseInv
<1>2. /\ UNCHANGED <<at, pkt, down, programVars, twice, latest>>
      /\ \A s \in Clients \ {c} : up'[s] = up[s] /\ sending'[s] = sending[s]
  <2>1. \A s \in Clients \ {c} : up'[s] = up[s] /\ sending'[s] = sending[s]
    BY <1>a, StepAlone DEF Act, User
  <2>2. QED
    BY <2>1 DEF OnClickListClients, handlerVars
<1>3. TopicOf(c, id)'
  <2>1. ~Serving(c)
    BY <1>a, MyTurn DEF BaseInv
  <2>2. ~Serving(c)' /\ ~Answering(c)'
    BY <1>2, <2>1 DEF Serving, Answering
  <2>3. ~Setting(c)'
    BY ClickShapes DEF BaseInv
  <2>4. \A other \in Ids : up'[c] = <<ImageRequest(other)>> => other = id
    <3>1. \A other : <<ImageRequest(other)>> = <<ImageRequest(id)>> => other = id
      BY ShortQueues DEF ImageRequest
    <3>2. QED
      BY <1>1, <3>1
  <2>5. QED
    BY <2>2, <2>3, <2>4 DEF TopicOf
<1>4. QED
  BY <1>a, <1>2, <1>3, NewTurn

\* The programs and the users' histories stand: so does what is settled.
LEMMA KnowsAsBefore ==
  ASSUME UNCHANGED <<session, myId, idExtMap, lastImageName, stored, latest>>,
         twice \subseteq twice',
         \A s \in Clients : at[s] = "spin" => at'[s] = "spin"
  PROVE  /\ \A c \in Clients : \A id : /\ Right(c, id)' <=> Right(c, id)
                                       /\ Exempt(c, id) => Exempt(c, id)'
         /\ \A T : Pics(T) \subseteq Pics(T)'
         /\ \A c \in Clients : \A T : Known(c, T)' <=> Known(c, T)
         /\ \A c \in Clients : Connected(c)' <=> Connected(c)
<1>1. \A c \in Clients : \A id : Right(c, id)' <=> Right(c, id)
  BY DEF Right, CameBeforeLogin
<1>2. \A c \in Clients : Connected(c)' <=> Connected(c)
  BY DEF Connected
<1>3. \A c \in Clients : \A id : Exempt(c, id) => Exempt(c, id)'
  BY <1>2 DEF Exempt, Spinning
<1>4. \A T : Pics(T) \subseteq Pics(T)'
  BY DEF Pics
<1>5. \A c \in Clients : \A T : Known(c, T)' <=> Known(c, T)
  BY DEF Known
<1>6. QED
  BY <1>1, <1>2, <1>3, <1>4, <1>5

\* A set of pictures more.
LEMMA Widened ==
  ASSUME NEW q, NEW T, NEW P, NEW R, P \subseteq R, Queued(q, T, P)
  PROVE  Queued(q, T, R)
BY DEF Queued

\* Something else than a name or a picture goes to e.
LEMMA NeutralSent ==
  ASSUME Types, NEW T, NEW e \in Clients, NEW m \in DownPackets,
         ~Name(m), ~Picture(m), down' = Sent(down, e, m),
         UNCHANGED <<session, lastImageName>>, Pics(T) \subseteq Pics(T)',
         NEW d \in Clients
  PROVE  /\ NameIn(down'[d]) <=> NameIn(down[d])
         /\ PicIn(down'[d]) <=> PicIn(down[d])
         /\ Primed(d, T)' <=> Primed(d, T)
         /\ QueueOf(d, T) => QueueOf(d, T)'
<1>a. down \in [Clients -> Seq(DownPackets)]
  BY DEF Types, QueueTypes
<1>1. /\ NameIn(down'[d]) <=> NameIn(down[d])
      /\ PicIn(down'[d]) <=> PicIn(down[d])
      /\ Queued(down[d], T, Pics(T)) => Queued(down'[d], T, Pics(T))
  <2>1. CASE down'[d] = down[d]
    BY <2>1
  <2>2. CASE down'[d] = Append(down[d], m)
    BY <1>a, <2>2, QueueAppend
  <2>3. down'[d] = down[d] \/ down'[d] = Append(down[d], m)
    BY <1>a DEF Sent
  <2>4. QED
    BY <2>1, <2>2, <2>3
<1>2. Primed(d, T)' <=> Primed(d, T)
  BY <1>1 DEF Primed, Known, Connected
<1>3. ASSUME QueueOf(d, T)
      PROVE  QueueOf(d, T)'
  <2>1. Queued(down'[d], T, Pics(T)')
    BY <1>1, <1>3, Widened DEF QueueOf
  <2>2. QED
    BY <1>1, <1>2, <1>3, <2>1 DEF QueueOf
<1>4. QED
  BY <1>1, <1>2, <1>3

\* A step at which only the queue of c to the server changes.
LEMMA UpstreamFlow ==
  ASSUME Types, NEW T, Flow(T), NEW c \in Clients,
         UNCHANGED <<down, session, idExtMap, lastImageName, stored,
                     clientsSocketMap, todo, at, pkt, latest, twice>>,
         \A s \in Clients \ {c} : up'[s] = up[s] /\ sending'[s] = sending[s],
         Setting(c)' <=> Setting(c), up'[c] = up[c] \/ ~Asking(c)',
         \/ myId' = myId
         \/ myId[c] = None /\ \A d \in Clients \ {c} : myId'[d] = myId[d]
  PROVE  Flow(T)'
<1>1. ASSUME NEW s \in Clients
      PROVE  /\ Setting(s)' <=> Setting(s)
             /\ Asking(s)' => Asking(s)
             /\ \A id \in Ids :
                  up'[s] = <<ImageRequest(id)>> => up[s] = <<ImageRequest(id)>>
             /\ at'[s] = at[s] \/ {at[s], at'[s]} \subseteq {"recv", "bye"}
             /\ pkt'[s] = pkt[s]
  <2>1. CASE s # c \/ up'[c] = up[c]
    BY <2>1 DEF Setting, Asking
  <2>2. CASE s = c /\ ~Asking(c)'
    <3>1. \A id : HasType(<<ImageRequest(id)>>, "IMAGE_REQUEST")
      BY ShortQueues DEF ImageRequest
    <3>2. QED
      BY <2>2, <3>1 DEF Asking
  <2>3. QED
    BY <2>1, <2>2
<1>2. \A d \in Clients : /\ Primed(d, T)' <=> Primed(d, T)
                         /\ Connected(d)' <=> Connected(d)
  BY DEF Primed, Known, Connected
<1>3. \A d \in Clients : QueueOf(d, T)'
  <2>1. \A d \in Clients : QueueOf(d, T)' <=> QueueOf(d, T)
    BY <1>2 DEF QueueOf, Pics
  <2>2. QED
    BY <2>1 DEF Flow
<1>4. ASSUME NEW d \in Clients, NEW id \in Ids
      PROVE  /\ Exempt(d, id) => Exempt(d, id)'
             /\ Settled(d, id, T) => Settled(d, id, T)'
  <2>1. Exempt(d, id) => Exempt(d, id)'
    BY DEF Exempt, Connected, Spinning
  <2>2. Right(d, id) => Right(d, id)'
    <3>1. CASE myId'[d] = myId[d]
      BY <3>1 DEF Right, CameBeforeLogin
    <3>2. CASE myId'[d] # myId[d]
      <4>1. myId[d] = None /\ idExtMap[d][id] \in Exts \cup {None}
        BY <3>2 DEF Types, ProgramTypes
      <4>2. Right(d, id) => idExtMap[d][id] = None \/ CameBeforeLogin(d, id)
        BY <4>1 DEF Right, CameBeforeLogin
      <4>3. QED
        BY <4>2 DEF Right, CameBeforeLogin
    <3>3. QED
      BY <3>1, <3>2
  <2>3. QED
    BY <2>1, <2>2 DEF Settled
<1>5. clientsSocketMap' \subseteq Clients /\ \A s \in Clients : todo'[s] \subseteq Clients
  BY DEF Types, ServerTypes, HandlerTypes
<1>6. QED
  BY <1>1, <1>2, <1>3, <1>4, <1>5, FlowKept

\* What clients send, and a question that finds nothing, brings nothing nearer.
LEMMA SendsFlow ==
  ASSUME Turns, ImagesInv, BaseInv, NEW T, Flow(T), NEW c \in Clients,
         \/ SendBytes(c) \/ ClickLogin(c) \/ SaveImageExt(c)
         \/ OnClickListClients(c) /\ up' = up
         \/ FindImageAndSend(c) /\ UNCHANGED <<down, at, msg, pkt>>
  PROVE  Flow(T)'
<1>a. Types /\ Shapes /\ Serves /\ LastSaved /\ UpShape(c)
  BY DEF ImagesInv, BaseInv, Shapes
<1>1. \A s \in Clients \ {c} : up'[s] = up[s] /\ sending'[s] = sending[s]
  BY <1>a, StepAlone DEF Act, User, Handler
<1>2. /\ Setting(c)' <=> Setting(c)
      /\ up'[c] = up[c] \/ ~Asking(c)'
  <2>1. CASE SendBytes(c) \/ ClickLogin(c)
    BY <1>a, <2>1, SendBytesShapes, ClickLoginShapes
  <2>2. CASE SaveImageExt(c)
    BY <1>a, <2>2, ShapeHandled DEF SaveImageExt, userVars
  <2>3. CASE OnClickListClients(c) /\ up' = up
    BY <2>3 DEF OnClickListClients, Setting
  <2>4. CASE FindImageAndSend(c)
    BY <1>a, <2>4, FindServes, ShapeFacts
  <2>5. QED
    BY <2>1, <2>2, <2>3, <2>4
<1>3. \/ myId' = myId
      \/ myId[c] = None /\ \A d \in Clients \ {c} : myId'[d] = myId[d]
  BY <1>a DEF SendBytes, ClickLogin, SaveImageExt, OnClickListClients,
              FindImageAndSend, programVars, Types, ProgramTypes
<1>4. UNCHANGED <<down, session, idExtMap, lastImageName, stored,
                  clientsSocketMap, todo, at, pkt, latest, twice>>
  BY DEF SendBytes, ClickLogin, SaveImageExt, OnClickListClients,
         FindImageAndSend, programVars, handlerVars, serverVars, userVars
<1>5. QED
  BY <1>a, <1>1, <1>2, <1>3, <1>4, UpstreamFlow

\* A step of the server that sends no more than a login or a goodbye.
LEMMA ServerCalm ==
  ASSUME Turns, ImagesInv, BaseInv, NEW T, Flow(T), NEW c \in Clients,
         \/ Login(c) \/ StartRemoval(c) \/ Remove(c)
         \/ SendToTarget(c) /\ at[c] = "bye"
  PROVE  Flow(T)'
<1>a. /\ Types /\ Shapes /\ UpShape(c) /\ ServeShape(c) /\ SessionOf(c)
      /\ Act(c)
  BY DEF ImagesInv, BaseInv, Shapes, Serves, Follows, Act, Handler
<1>b. /\ \A s \in Clients \ {c} : /\ up'[s] = up[s] /\ sending'[s] = sending[s]
                                  /\ at'[s] = at[s] /\ pkt'[s] = pkt[s]
      /\ twice \subseteq twice'
  BY <1>a, StepAlone
<1>c. /\ UNCHANGED <<session, myId, idExtMap, lastImageName, stored, latest,
                     sending, pkt>>
      /\ clientsSocketMap' \subseteq clientsSocketMap
  BY DEF Login, StartRemoval, Remove, SendToTarget, programVars, userVars,
         handlerVars, serverVars
<1>1. /\ at'[c] = at[c] \/ {at[c], at'[c]} \subseteq {"recv", "bye"}
      /\ at[c] = "spin" => at'[c] = "spin"
      /\ \/ down' = down
         \/ \E e \in Clients, m \in DownPackets :
              ~Name(m) /\ ~Picture(m) /\ down' = Sent(down, e, m)
  <2>1. CASE Login(c)
    BY <2>1, Packets DEF Login, handlerVars, Name, Picture, LoginInfo
  <2>2. CASE StartRemoval(c) \/ Remove(c)
    BY <1>a, <2>2 DEF StartRemoval, Remove, StartBroadcast, Types, HandlerTypes
  <2>3. CASE SendToTarget(c) /\ at[c] = "bye"
    <3>1. /\ msg[c].type = "DISCONNECTED_ID" /\ msg[c] \in Announced
          /\ todo[c] \subseteq Clients
      <4>1. msg[c] # NoMsg /\ msg[c].type \in {"NONE", "DISCONNECTED_ID"}
            /\ msg[c] \in Announced \cup {NoMsg} /\ todo[c] \subseteq Clients
        BY <1>a, <2>3
        DEF SendToTarget, InLoop, ServeShape, Types, HandlerTypes
      <4>2. \A m \in Announced : m.type # "NONE"
        BY DEF Announced, NamedExt, Image, Goodbye
      <4>3. QED
        BY <4>1, <4>2
    <3>2. msg[c] \in DownPackets /\ ~Name(msg[c]) /\ ~Picture(msg[c])
      BY <3>1, DownPacket DEF Name, Picture
    <3>3. \A d : ~MaySpin(d, msg[c])
      BY <3>1 DEF MaySpin
    <3>4. PICK d \in todo[c] : down' = Sent(down, d, msg[c]) /\ at' = at
      BY <2>3, <3>3 DEF SendToTarget
    <3>5. QED
      BY <3>1, <3>2, <3>4
  <2>4. QED
    BY <2>1, <2>2, <2>3
<1>2. /\ Setting(c)' <=> Setting(c)
      /\ Asking(c)' => Asking(c)
      /\ \A id \in Ids : up'[c] = <<ImageRequest(id)>> => up[c] = <<ImageRequest(id)>>
  <2>1. CASE Login(c)
    <3>1. up[c] = <<LoginInfo>> /\ up'[c] = <<>> /\ sending[c] = None
      BY <1>a, <1>c, <2>1, ShapeHandled DEF Login
    <3>2. ~Setting(c) /\ ~Setting(c)' /\ ~Asking(c)'
      BY <1>a, <1>c, <3>1, ShapeFacts, NothingQueued DEF Setting, Asking
    <3>3. QED
      BY <3>1, <3>2, ShortQueues
  <2>2. CASE ~Login(c)
    BY <1>c, <2>2 DEF StartRemoval, Remove, SendToTarget, Setting, Asking
  <2>3. QED
    BY <2>1, <2>2
<1>3. ASSUME NEW s \in Clients
      PROVE  /\ Setting(s)' <=> Setting(s)
             /\ Asking(s)' => Asking(s)
             /\ \A id \in Ids :
                  up'[s] = <<ImageRequest(id)>> => up[s] = <<ImageRequest(id)>>
             /\ at'[s] = at[s] \/ {at[s], at'[s]} \subseteq {"recv", "bye"}
             /\ pkt'[s] = pkt[s]
  <2>1. CASE s = c
    BY <1>1, <1>2, <1>c, <2>1
  <2>2. CASE s # c
    BY <1>b, <2>2 DEF Setting, Asking
  <2>3. QED
    BY <2>1, <2>2
<1>4. /\ \A d \in Clients : \A id : /\ Right(d, id)' <=> Right(d, id)
                                    /\ Exempt(d, id) => Exempt(d, id)'
      /\ Pics(T) \subseteq Pics(T)'
      /\ \A d \in Clients : /\ Known(d, T)' <=> Known(d, T)
                            /\ Connected(d)' <=> Connected(d)
  <2>1. \A s \in Clients : at[s] = "spin" => at'[s] = "spin"
    BY <1>1, <1>b
  <2>2. QED
    BY <1>b, <1>c, <2>1, KnowsAsBefore
<1>5. ASSUME NEW d \in Clients
      PROVE  /\ NameIn(down'[d]) <=> NameIn(down[d])
             /\ PicIn(down'[d]) <=> PicIn(down[d])
             /\ Primed(d, T)' <=> Primed(d, T)
             /\ QueueOf(d, T)'
  <2>0. QueueOf(d, T)
    BY DEF Flow
  <2>1. CASE down' = down
    <3>1. Primed(d, T)' <=> Primed(d, T)
      BY <1>4, <2>1 DEF Primed
    <3>2. QED
      BY <1>4, <2>0, <2>1, <3>1, Widened DEF QueueOf
  <2>2. ASSUME NEW e \in Clients, NEW m \in DownPackets, ~Name(m), ~Picture(m),
               down' = Sent(down, e, m)
        PROVE  /\ NameIn(down'[d]) <=> NameIn(down[d])
               /\ PicIn(down'[d]) <=> PicIn(down[d])
               /\ Primed(d, T)' <=> Primed(d, T)
               /\ QueueOf(d, T)'
    <3>1. UNCHANGED <<session, lastImageName>>
      BY <1>c
    <3>2. QED
      BY <1>a, <1>4, <2>0, <2>2, <3>1, NeutralSent
  <2>3. QED
    BY <1>1, <2>1, <2>2
<1>6. ASSUME NEW s \in Clients, NEW d \in Clients, at[s] \in {"ext", "image"}
      PROVE  /\ d \in todo'[s] => d \in todo[s]
             /\ d \in todo[s] => d \in todo'[s] \/ ~Connected(d)'
  <2>1. CASE Login(c)
    BY <2>1 DEF Login, handlerVars
  <2>2. CASE StartRemoval(c)
    BY <1>a, <1>6, <2>2 DEF StartRemoval, StartBroadcast, Types, HandlerTypes
  <2>3. CASE Remove(c)
    <3>1. ~Connected(c)'
      BY <1>a, <1>c, <2>3 DEF Remove, SessionOf, Connected
    <3>2. todo'[s] = todo[s] \ {c}
      BY <2>3 DEF Remove
    <3>3. QED
      BY <3>1, <3>2
  <2>4. CASE SendToTarget(c) /\ at[c] = "bye"
    BY <1>a, <1>6, <2>4 DEF SendToTarget, Types, HandlerTypes
  <2>5. QED
    BY <2>1, <2>2, <2>3, <2>4
<1>7. clientsSocketMap' \subseteq Clients /\ \A s \in Clients : todo'[s] \subseteq Clients
  <2>1. \A s \in Clients : todo'[s] \subseteq todo[s] \cup clientsSocketMap
    BY <1>a DEF Login, StartRemoval, Remove, SendToTarget, StartBroadcast,
                handlerVars, Types, HandlerTypes
  <2>2. QED
    BY <1>a, <1>c, <2>1 DEF Types, ServerTypes, HandlerTypes
<1>8. QED
  <2>1. \A d \in Clients, id \in Ids :
          \/ Exempt(d, id)' \/ Settled(d, id, T)'
          \/ /\ ~Exempt(d, id) /\ ~Settled(d, id, T)
             /\ PicIn(down[d]) => PicIn(down'[d])
    BY <1>4, <1>5 DEF Settled
  <2>2. QED
    BY <1>3, <1>5, <1>6, <1>7, <1>c, <2>1, FlowKept

\* A step of a client that the server has no part in.
LEMMA ClientFlow ==
  ASSUME Types, NEW T, Flow(T), NEW c \in Clients,
         UNCHANGED <<at, pkt, up, sending, latest, twice>>,
         \A d \in Clients \ {c} :
           /\ down'[d] = down[d] /\ session'[d] = session[d]
           /\ myId'[d] = myId[d] /\ idExtMap'[d] = idExtMap[d]
           /\ lastImageName'[d] = lastImageName[d] /\ stored'[d] = stored[d],
         QueueOf(c, T)', PicIn(down'[c]) => PicIn(down[c]),
         Primed(c, T) => Primed(c, T)',
         \/ UNCHANGED <<clientsSocketMap, todo>>
         \/ /\ Primed(c, T)' /\ clientsSocketMap' = clientsSocketMap \cup {c}
            /\ \A s \in Clients : todo'[s] \in {todo[s], todo[s] \cup {c}},
         \A id \in Ids :
           \/ Exempt(c, id)' \/ Settled(c, id, T)'
           \/ /\ ~Exempt(c, id) /\ ~Settled(c, id, T)
              /\ PicIn(down[c]) => PicIn(down'[c])
  PROVE  Flow(T)'
<1>1. ASSUME NEW s \in Clients
      PROVE  /\ Setting(s)' <=> Setting(s)
             /\ Asking(s)' => Asking(s)
             /\ \A id \in Ids :
                  up'[s] = <<ImageRequest(id)>> => up[s] = <<ImageRequest(id)>>
             /\ at'[s] = at[s] \/ {at[s], at'[s]} \subseteq {"recv", "bye"}
             /\ pkt'[s] = pkt[s]
  BY DEF Setting, Asking
<1>2. Pics(T)' = Pics(T)
  BY DEF Pics
<1>3. ASSUME NEW d \in Clients \ {c}
      PROVE  /\ Primed(d, T)' <=> Primed(d, T)
             /\ QueueOf(d, T)' <=> QueueOf(d, T)
             /\ \A id \in Ids : /\ Exempt(d, id) => Exempt(d, id)'
                                /\ Settled(d, id, T) => Settled(d, id, T)'
             /\ PicIn(down'[d]) <=> PicIn(down[d])
  <2>1. Primed(d, T)' <=> Primed(d, T)
    BY DEF Primed, Known, Connected
  <2>2. QueueOf(d, T)' <=> QueueOf(d, T)
    BY <1>2, <2>1 DEF QueueOf
  <2>3. \A id \in Ids : /\ Exempt(d, id) => Exempt(d, id)'
                        /\ Settled(d, id, T) => Settled(d, id, T)'
    BY DEF Exempt, Connected, Spinning, Settled, Right, CameBeforeLogin
  <2>4. QED
    BY <2>1, <2>2, <2>3
<1>4. \A d \in Clients : QueueOf(d, T)
  BY DEF Flow
<1>5. \A d \in Clients :
        /\ QueueOf(d, T)' /\ (PicIn(down'[d]) => PicIn(down[d]))
        /\ Primed(d, T) => Primed(d, T)'
        /\ d \in clientsSocketMap' => d \in clientsSocketMap \/ Primed(d, T)'
  BY <1>3, <1>4
<1>6. \A s, d \in Clients :
        /\ d \in todo'[s] => d \in todo[s] \/ Primed(d, T)'
        /\ d \in todo[s] => d \in todo'[s]
  BY DEF Types, HandlerTypes
<1>7. \A d \in Clients, id \in Ids :
        \/ Exempt(d, id)' \/ Settled(d, id, T)'
        \/ /\ ~Exempt(d, id) /\ ~Settled(d, id, T)
           /\ PicIn(down[d]) => PicIn(down'[d])
  BY <1>3
<1>8. clientsSocketMap' \subseteq Clients /\ \A s \in Clients : todo'[s] \subseteq Clients
  BY DEF Types, ServerTypes, HandlerTypes
<1>9. QED
  BY <1>1, <1>5, <1>6, <1>7, <1>8, FlowKept

\* Who comes knows nothing yet; who leaves gets nothing any more.
LEMMA ComesGoesFlow ==
  ASSUME Turns, ImagesInv, BaseInv, NEW T, Flow(T), NEW c \in Clients,
         Connect(c) \/ Leave(c)
  PROVE  Flow(T)'
<1>a. /\ Types /\ Joined(c) /\ Act(c)
      /\ QueueOf(c, T)
  BY DEF ImagesInv, BaseInv, Act, User, Flow
<1>b. UNCHANGED <<at, pkt, up, sending, latest, twice>>
  BY DEF Connect, Leave, handlerVars, userVars
<1>c. \A d \in Clients \ {c} :
        /\ down'[d] = down[d] /\ session'[d] = session[d]
        /\ myId'[d] = myId[d] /\ idExtMap'[d] = idExtMap[d]
        /\ lastImageName'[d] = lastImageName[d] /\ stored'[d] = stored[d]
  <2>1. \A d \in Clients \ {c} : down'[d] = down[d]
    BY <1>a DEF Connect, Leave, Types, QueueTypes
  <2>2. QED
    BY <1>a, <2>1, StepAlone
<1>1. CASE Connect(c)
  <2>1. /\ lastImageName'[c] = None /\ down'[c] = <<>> /\ down[c] = <<>>
        /\ \A id \in Ids : idExtMap'[c][id] = None
        /\ ~Connected(c)
    BY <1>1, <1>a DEF Connect, Joined, Connected
  <2>2. Primed(c, T)' /\ QueueOf(c, T)' /\ ~PicIn(down'[c]) /\ ~NameIn(down'[c])
    BY <2>1, QueueEmpty DEF Primed, Known, QueueOf
  <2>3. \A id \in Ids : Settled(c, id, T)'
    BY <2>1, <2>2 DEF Settled, Right
  <2>4. /\ clientsSocketMap' = clientsSocketMap \cup {c}
        /\ \A s \in Clients : todo'[s] \in {todo[s], todo[s] \cup {c}}
    BY <1>1 DEF Connect
  <2>5. QED
    BY <1>a, <1>b, <1>c, <2>2, <2>3, <2>4, ClientFlow
<1>2. CASE Leave(c)
  <2>1. ~Connected(c)' /\ down'[c] = <<>>
    BY <1>2, <1>a DEF Leave, Connected, Types, ProgramTypes, QueueTypes
  <2>2. Primed(c, T)' /\ QueueOf(c, T)' /\ ~PicIn(down'[c])
    BY <2>1, QueueEmpty DEF Primed, QueueOf
  <2>3. \A id \in Ids : Exempt(c, id)'
    BY <2>1 DEF Exempt
  <2>4. UNCHANGED <<clientsSocketMap, todo>>
    BY <1>2 DEF Leave, serverVars, handlerVars
  <2>5. QED
    BY <1>a, <1>b, <1>c, <2>2, <2>3, <2>4, ClientFlow
<1>3. QED
  BY <1>1, <1>2

\* What a received picture does to the files.
LEMMA StoredStep ==
  ASSUME Types, NEW c \in Clients, NEW pic, stored' = StoredImage(c, pic)
  PROVE  /\ lastImageName[c] = None => stored' = stored
         /\ lastImageName[c] # None =>
              stored'[c] = [stored[c] EXCEPT
                ![<<myId[c], lastImageName[c][1], lastImageName[c][2]>>] = pic]
         /\ stored[c] \in [Dirs \X Ids \X Exts -> Pictures \cup {None}]
         /\ lastImageName[c] # None =>
              lastImageName[c][1] \in Ids /\ lastImageName[c][2] \in Exts
         /\ myId[c] \in Dirs /\ None \in Dirs
BY DEF StoredImage, Types, ProgramTypes, FileNames, Dirs

\* A client takes a picture: it is the last one of T, under the name of T.
LEMMA PictureFlow ==
  ASSUME Turns, ImagesInv, BaseInv, NEW T, Flow(T), NEW c \in Clients,
         SaveImage(c) \/ SendImageRequestMessage(c)
  PROVE  Flow(T)'
<1>a. /\ Types /\ Joined(c) /\ Act(c) /\ QueueOf(c, T)
      /\ down[c] \in Seq(DownPackets)
  BY DEF ImagesInv, BaseInv, Act, ReceiveThread, Flow, Types, QueueTypes
<1>b. /\ UNCHANGED <<at, pkt, up, sending, latest, twice, clientsSocketMap, todo,
                     session, myId, idExtMap, lastImageName>>
      /\ down[c] # <<>> /\ down'[c] = Tail(down[c]) /\ Picture(Head(down[c]))
      /\ \A d \in Clients \ {c} : down'[d] = down[d]
      /\ stored' = StoredImage(c, Head(down[c]).pic) /\ Connected(c)
  BY <1>a DEF SaveImage, SendImageRequestMessage, Receives, Picture, handlerVars,
             serverVars, userVars, Types, QueueTypes
<1>c. \A d \in Clients \ {c} :
        /\ down'[d] = down[d] /\ session'[d] = session[d]
        /\ myId'[d] = myId[d] /\ idExtMap'[d] = idExtMap[d]
        /\ lastImageName'[d] = lastImageName[d] /\ stored'[d] = stored[d]
  BY <1>a, <1>b, StepAlone
<1>1. /\ Queued(down'[c], T, Pics(T)) /\ ~NameIn(down'[c]) /\ ~NameIn(down[c])
      /\ Head(down[c]).pic \in Pics(T) /\ PicIn(down[c])
  BY <1>a, <1>b, QueueTail DEF QueueOf, Name, Picture
<1>2. Known(c, T) /\ Known(c, T)'
  BY <1>a, <1>b, <1>1 DEF QueueOf, Primed, Known
<1>3. Primed(c, T)' /\ QueueOf(c, T)'
  <2>1. Pics(T)' = Pics(T)
    BY <1>b DEF Pics
  <2>2. QED
    BY <1>1, <1>2, <2>1 DEF Primed, QueueOf
<1>4. ASSUME NEW id \in Ids, id # T, ~Exempt(c, id), Right(c, id)
      PROVE  Right(c, id)'
  <2>1. \A dir \in Dirs, ext \in Exts :
          stored'[c][<<dir, id, ext>>] = stored[c][<<dir, id, ext>>]
    <3>1. CASE lastImageName[c] = None
      BY <1>a, <1>b, <3>1, StoredStep
    <3>2. CASE lastImageName[c] # None
      <4> DEFINE file == <<myId[c], lastImageName[c][1], lastImageName[c][2]>>
                 pic == Head(down[c]).pic
      <4>1. stored'[c] = [stored[c] EXCEPT ![file] = pic]
            /\ lastImageName[c][1] = T
        BY <1>a, <1>b, <1>2, <3>2, StoredStep DEF Known
      <4>2. \A dir \in Dirs, ext \in Exts :
              <<dir, id, ext>> # file /\ <<dir, id, ext>> \in Dirs \X Ids \X Exts
        BY <1>4, <4>1
      <4> HIDE DEF file, pic
      <4>3. stored[c] \in [Dirs \X Ids \X Exts -> Pictures \cup {None}]
        BY <1>a DEF Types, ProgramTypes
      <4>4. QED
        BY <4>1, <4>2, <4>3
    <3>3. QED
      BY <3>1, <3>2
  <2>2. /\ myId[c] \in Dirs /\ None \in Dirs
        /\ idExtMap[c][id] \in Exts \cup {None}
    BY <1>a DEF Types, ProgramTypes, Dirs
  <2>3. CameBeforeLogin(c, id) => CameBeforeLogin(c, id)'
    BY <1>b, <2>1, <2>2 DEF CameBeforeLogin
  <2>4. QED
    BY <1>4, <1>b, <2>1, <2>2, <2>3 DEF Right
<1>5. ASSUME T \in Ids, T \notin twice
      PROVE  Right(c, T)'
  <2>1. Head(down[c]).pic = latest[T]
    BY <1>1, <1>5 DEF Pics
  <2>2. CASE idExtMap[c][T] = None
    BY <1>b, <2>2 DEF Right
  <2>3. CASE idExtMap[c][T] # None
    <3>1. lastImageName[c] # None
      BY <1>a, <1>5, <2>3 DEF Joined
    <3>2. lastImageName[c][1] = T /\ idExtMap[c][T] = lastImageName[c][2]
      BY <1>a, <1>2, <2>3, <3>1 DEF Joined, Known
    <3>3. <<myId[c], T, idExtMap[c][T]>> \in Dirs \X Ids \X Exts
      BY <1>a, <1>b, <1>5, <3>1, <3>2, StoredStep
    <3>4. stored'[c][<<myId[c], T, idExtMap[c][T]>>] = latest[T]
      <4> DEFINE file == <<myId[c], T, idExtMap[c][T]>>
                 pic == Head(down[c]).pic
      <4>1. stored'[c] = [stored[c] EXCEPT ![file] = pic]
        BY <1>a, <1>b, <3>1, <3>2, StoredStep
      <4>2. stored[c] \in [Dirs \X Ids \X Exts -> Pictures \cup {None}]
        BY <1>a DEF Types, ProgramTypes
      <4>3. file \in Dirs \X Ids \X Exts /\ pic = latest[T]
        BY <2>1, <3>3
      <4> HIDE DEF file, pic
      <4>4. stored'[c][file] = latest[T]
        BY <4>1, <4>2, <4>3
      <4>5. QED
        BY <4>4 DEF file
    <3>5. QED
      BY <1>b, <3>4 DEF Right
  <2>4. QED
    BY <2>2, <2>3
<1>6. ASSUME NEW id \in Ids
      PROVE  \/ Exempt(c, id)' \/ Settled(c, id, T)'
             \/ /\ ~Exempt(c, id) /\ ~Settled(c, id, T)
                /\ PicIn(down[c]) => PicIn(down'[c])
  <2>1. Exempt(c, id)' <=> Exempt(c, id)
    BY <1>b DEF Exempt, Connected, Spinning
  <2>2. CASE id # T
    <3>1. Fresh(c, id, T)
      BY DEF Flow
    <3>2. Exempt(c, id) \/ Right(c, id)
      BY <2>2, <3>1 DEF Fresh, Settled
    <3>3. QED
      BY <1>4, <2>1, <2>2, <3>2 DEF Settled
  <2>3. CASE id = T
    BY <1>1, <1>5, <2>1, <2>3 DEF Settled, Exempt
  <2>4. QED
    BY <2>2, <2>3
<1>7. QED
  BY <1>a, <1>b, <1>c, <1>1, <1>3, <1>6, ClientFlow

\* A client takes a name, a goodbye or the answer to its login.
LEMMA ReceiverFlow ==
  ASSUME Turns, ImagesInv, BaseInv, NEW T, Flow(T), NEW c \in Clients,
         LoginResult(c) \/ SaveImageName(c) \/ RemoveDisconnectedId(c)
  PROVE  Flow(T)'
<1>a. /\ Types /\ Joined(c) /\ Act(c) /\ QueueOf(c, T)
      /\ down[c] \in Seq(DownPackets)
  BY DEF ImagesInv, BaseInv, Act, ReceiveThread, Flow, Types, QueueTypes
<1>b. /\ UNCHANGED <<at, pkt, up, sending, latest, twice, clientsSocketMap, todo,
                     myId, stored>>
      /\ down[c] # <<>> /\ down'[c] = Tail(down[c]) /\ ~Picture(Head(down[c]))
      /\ Name(Head(down[c])) <=> SaveImageName(c)
      /\ \A d \in Clients \ {c} : down'[d] = down[d]
      /\ Connected(c) /\ Connected(c)'
  BY <1>a DEF LoginResult, SaveImageName, RemoveDisconnectedId, Receives, Picture,
             Name, Connected, handlerVars, serverVars, userVars, Types,
             QueueTypes, ProgramTypes
<1>c. \A d \in Clients \ {c} :
        /\ down'[d] = down[d] /\ session'[d] = session[d]
        /\ myId'[d] = myId[d] /\ idExtMap'[d] = idExtMap[d]
        /\ lastImageName'[d] = lastImageName[d] /\ stored'[d] = stored[d]
  BY <1>a, <1>b, StepAlone
<1>1. /\ Queued(down'[c], T, Pics(T)) /\ (PicIn(down'[c]) <=> PicIn(down[c]))
      /\ NameIn(down'[c]) => NameIn(down[c])
      /\ SaveImageName(c) => Head(down[c]).name[1] = T /\ NameIn(down[c])
      /\ ~SaveImageName(c) => (NameIn(down[c]) => NameIn(down'[c]))
  BY <1>a, <1>b, QueueTail DEF QueueOf
<1>2. Primed(c, T) => Primed(c, T)'
  <2>1. CASE SaveImageName(c)
    BY <1>a, <1>1, <2>1, NamesStep DEF Primed, Known
  <2>2. CASE ~SaveImageName(c)
    <3>1. lastImageName' = lastImageName
      BY <1>a, <2>2, KnownStep
    <3>2. QED
      BY <1>b, <1>1, <2>2, <3>1 DEF Primed, Known
  <2>3. QED
    BY <2>1, <2>2
<1>3. QueueOf(c, T)'
  <2>1. Pics(T)' = Pics(T)
    BY <1>b DEF Pics
  <2>2. QED
    BY <1>a, <1>1, <1>2, <2>1 DEF QueueOf
<1>4. ASSUME NEW id \in Ids, Right(c, id), ~(SaveImageName(c) /\ id = T)
      PROVE  Right(c, id)'
  <2>1. idExtMap'[c][id] \in {None, idExtMap[c][id]}
    <3>1. CASE SaveImageName(c)
      <4> DEFINE name == Head(down[c]).name
      <4>1. idExtMap'[c] = [idExtMap[c] EXCEPT ![name[1]] = name[2]]
            /\ idExtMap[c] \in [Ids -> Exts \cup {None}] /\ name[1] = T
        BY <1>a, <1>1, <3>1, NamesStep
      <4> HIDE DEF name
      <4>2. QED
        BY <1>4, <3>1, <4>1
    <3>2. CASE RemoveDisconnectedId(c)
      <4> DEFINE gone == Head(down[c]).id
      <4>1. /\ idExtMap'[c] = [idExtMap[c] EXCEPT ![gone] = None]
            /\ idExtMap[c] \in [Ids -> Exts \cup {None}]
        BY <1>a, <3>2, NamesStep
      <4> HIDE DEF gone
      <4>2. QED
        BY <4>1
    <3>3. CASE LoginResult(c)
      BY <3>3 DEF LoginResult
    <3>4. QED
      BY <3>1, <3>2, <3>3
  <2>2. QED
    BY <1>4, <1>b, <2>1 DEF Right, CameBeforeLogin
<1>5. ASSUME NEW id \in Ids
      PROVE  \/ Exempt(c, id)' \/ Settled(c, id, T)'
             \/ /\ ~Exempt(c, id) /\ ~Settled(c, id, T)
                /\ PicIn(down[c]) => PicIn(down'[c])
  <2>1. Exempt(c, id) => Exempt(c, id)'
    BY <1>b DEF Exempt, Spinning
  <2>2. Settled(c, id, T) => Settled(c, id, T)'
    BY <1>1, <1>4 DEF Settled
  <2>3. QED
    BY <1>1, <2>1, <2>2
<1>6. QED
  BY <1>a, <1>b, <1>c, <1>1, <1>2, <1>3, <1>5, ClientFlow

-----------------------------------------------------------------------------
(* The steps of the server that bring a picture nearer.                     *)

\* With c active nobody else is, and what comes, comes from c.
LEMMA OnlyActive ==
  ASSUME BaseInv, NEW c \in Clients, Active(c)
  PROVE  /\ \A s \in Clients \ {c} :
              ~Setting(s) /\ ~Asking(s) /\ ~Serving(s) /\ ~Answering(s)
         /\ \A d \in Clients :
              Coming(d) => \/ PicIn(down[d]) \/ Brings(c, d)
                           \/ d = c /\ Answering(c)
<1>1. ASSUME NEW s \in Clients \ {c}
      PROVE  ~Setting(s) /\ ~Asking(s) /\ ~Serving(s) /\ ~Answering(s)
  <2>1. ~Active(s)
    BY DEF BaseInv, Serves, OneActive
  <2>2. QED
    BY <2>1 DEF Active, Serving, Answering
<1>2. ASSUME NEW s \in Clients \ {c}, NEW d \in Clients
      PROVE  ~Brings(s, d)
  BY <1>1 DEF Brings, Serving
<1>3. QED
  BY <1>1, <1>2 DEF Coming

\* A step of the server for c, the only one active.
LEMMA ServedFlow ==
  ASSUME Turns, ImagesInv, BaseInv, NEW T, Flow(T), NEW c \in Clients,
         Active(c), Act(c), at[c] # "spin",
         UNCHANGED <<session, myId, idExtMap, lastImageName, stored, latest,
                     twice, clientsSocketMap>>,
         TopicOf(c, T)', PrimedBy(c, T)',
         \A d \in Clients : QueueOf(d, T)',
         Early(c)' => \A d \in Clients : ~PicIn(down'[d]),
         T \in Ids => \A d \in Clients : Fresh(d, T, T)'
  PROVE  Flow(T)'
<1>1. ASSUME NEW s \in Clients \ {c}
      PROVE  /\ ~Setting(s)' /\ ~Asking(s)' /\ ~Serving(s)' /\ ~Answering(s)'
             /\ at'[s] = at[s]
  <2>1. /\ up'[s] = up[s] /\ sending'[s] = sending[s] /\ at'[s] = at[s]
        /\ pkt'[s] = pkt[s]
    BY StepAlone DEF ImagesInv
  <2>2. ~Setting(s) /\ ~Asking(s) /\ ~Serving(s) /\ ~Answering(s)
    BY OnlyActive
  <2>3. QED
    BY <2>1, <2>2 DEF Setting, Asking, Serving, Answering
<1>2. ASSUME NEW s \in Clients
      PROVE  TopicOf(s, T)' /\ PrimedBy(s, T)'
  <2>1. CASE s = c
    BY <2>1
  <2>2. CASE s # c
    <3>1. \A id \in Ids : up'[s] # <<ImageRequest(id)>>
      <4>1. \A id : HasType(<<ImageRequest(id)>>, "IMAGE_REQUEST")
        BY ShortQueues DEF ImageRequest
      <4>2. QED
        BY <1>1, <2>2, <4>1 DEF Asking
    <3>2. QED
      BY <1>1, <2>2, <3>1 DEF TopicOf, PrimedBy, Serving
  <2>3. QED
    BY <2>1, <2>2
<1>3. ASSUME NEW s \in Clients, NEW d \in Clients, Early(s)'
      PROVE  ~PicIn(down'[d])
  BY <1>1, <1>3 DEF Early, Serving
<1>4. ASSUME NEW d \in Clients, NEW id \in Ids
      PROVE  Fresh(d, id, T)'
  <2>1. CASE id = T
    BY <2>1
  <2>2. CASE id # T
    <3>1. \A s \in Clients : at[s] = "spin" => at'[s] = "spin"
      BY <1>1
    <3>2. (Right(d, id)' <=> Right(d, id)) /\ (Exempt(d, id) => Exempt(d, id)')
      BY <3>1, KnowsAsBefore
    <3>3. Exempt(d, id) \/ Right(d, id)
      BY <2>2 DEF Flow, Fresh, Settled
    <3>4. QED
      BY <2>2, <3>2, <3>3 DEF Fresh, Settled
  <2>3. QED
    BY <2>1, <2>2
<1>5. QED
  BY <1>2, <1>3, <1>4 DEF Flow

\* A packet of T goes to e.
LEMMA PacketSent ==
  ASSUME Types, NEW T, Flow(T), NEW e \in Clients, NEW m \in DownPackets,
         down' = Sent(down, e, m),
         UNCHANGED <<session, lastImageName, latest, twice>>,
         Name(m) => m.name[1] = T /\ ~PicIn(down[e]),
         Picture(m) => m.pic \in Pics(T) /\ Primed(e, T),
         NEW d \in Clients
  PROVE  /\ QueueOf(d, T)' /\ (Primed(d, T) => Primed(d, T)')
         /\ PicIn(down[d]) => PicIn(down'[d])
         /\ PicIn(down'[d]) => PicIn(down[d]) \/ (d = e /\ Picture(m))
         /\ NameIn(down[d]) => NameIn(down'[d])
         /\ NameIn(down'[d]) => NameIn(down[d]) \/ (d = e /\ Name(m))
         /\ d = e /\ Name(m) => Primed(d, T)'
         /\ d = e /\ Picture(m) /\ Connected(e) => PicIn(down'[d])
         /\ Connected(d)' <=> Connected(d)
<1>a. down \in [Clients -> Seq(DownPackets)] /\ QueueOf(d, T)
  BY DEF Types, QueueTypes, Flow
<1>1. /\ Connected(d)' <=> Connected(d)
      /\ Known(d, T)' <=> Known(d, T)
      /\ Pics(T)' = Pics(T)
  BY DEF Connected, Known, Pics
<1>2. CASE d # e \/ ~Connected(e)
  <2>1. down'[d] = down[d]
    BY <1>2, <1>a DEF Sent
  <2>2. (Primed(d, T)' <=> Primed(d, T)) /\ (d = e => Primed(d, T))
    BY <1>1, <1>2, <2>1 DEF Primed
  <2>3. QED
    BY <1>1, <1>2, <1>a, <2>1, <2>2 DEF QueueOf
<1>3. CASE d = e /\ Connected(e)
  <2>1. down'[d] = Append(down[d], m)
    BY <1>3, <1>a DEF Sent
  <2>2. /\ NameIn(down'[d]) <=> NameIn(down[d]) \/ Name(m)
        /\ PicIn(down'[d]) <=> PicIn(down[d]) \/ Picture(m)
        /\ Queued(down'[d], T, Pics(T))
    BY <1>a, <1>3, <2>1, QueueAppend DEF QueueOf
  <2>3. /\ Primed(d, T) => Primed(d, T)'
        /\ Name(m) => Primed(d, T)'
    BY <1>1, <2>2 DEF Primed
  <2>4. QueueOf(d, T)'
    BY <1>1, <1>3, <1>a, <2>2, <2>3 DEF QueueOf
  <2>5. QED
    BY <1>1, <1>3, <2>2, <2>3, <2>4
<1>4. QED
  BY <1>2, <1>3

\* Nothing goes out.
LEMMA NothingSent ==
  ASSUME NEW T, Flow(T), UNCHANGED <<down, session, lastImageName, latest, twice>>,
         NEW d \in Clients
  PROVE  /\ QueueOf(d, T)' /\ (Primed(d, T)' <=> Primed(d, T))
         /\ PicIn(down'[d]) <=> PicIn(down[d])
<1>1. (Primed(d, T)' <=> Primed(d, T)) /\ Pics(T)' = Pics(T)
  BY DEF Primed, Known, Connected, Pics
<1>2. QED
  BY <1>1 DEF Flow, QueueOf

\* The server has the bytes, and announces them if anybody else is there.
LEMMA RecvImageFlow ==
  ASSUME Turns, ImagesInv, BaseInv, NEW T, Flow(T), NEW c \in Clients,
         RecvImage(c)
  PROVE  Flow(T)'
<1>a. Types /\ UpShape(c) /\ Act(c) /\ ServeShape(c) /\ \A d \in Clients : Joined(d)
  BY DEF ImagesInv, BaseInv, Shapes, Serves, Act, Handler
<1>b. UNCHANGED <<down, session, myId, idExtMap, lastImageName, stored, latest,
                  twice, clientsSocketMap, sending>>
  BY DEF RecvImage, programVars, userVars
<1>1. /\ Setting(c) /\ up'[c] = <<>> /\ sending'[c] = None /\ at[c] = "recv"
      /\ Active(c) /\ Early(c) /\ Head(up[c]) = Image(Own(c))
  BY <1>a, <1>b, ShapeHandled DEF RecvImage, Active, Early
<1>2. ~Setting(c)' /\ ~Asking(c)' /\ \A id \in Ids : up'[c] # <<ImageRequest(id)>>
  BY <1>1, NothingQueued, ShortQueues DEF Setting, Asking
<1>3. IdOf[c] = T
  BY <1>1 DEF Flow, TopicOf
<1>4. \A d \in Clients : QueueOf(d, T)' /\ ~PicIn(down'[d])
  BY <1>1, <1>b, NothingSent DEF Flow
<1>5. CASE clientsSocketMap = {c}
  <2>1. at'[c] = "recv"
    BY <1>1, <1>5 DEF RecvImage, handlerVars
  <2>2. TopicOf(c, T)' /\ PrimedBy(c, T)' /\ ~Early(c)'
    BY <1>2, <2>1 DEF TopicOf, PrimedBy, Serving, Answering, Early
  <2>3. ASSUME NEW d \in Clients
        PROVE  Fresh(d, T, T)'
    <3>1. d = c \/ ~Connected(d)'
      BY <1>5, <1>a, <1>b DEF Joined, Connected
    <3>2. QED
      BY <1>3, <3>1 DEF Fresh, Exempt
  <2>4. QED
    BY <1>1, <1>a, <1>b, <1>4, <2>2, <2>3, ServedFlow
<1>6. CASE clientsSocketMap # {c}
  <2>1. /\ at'[c] = "ext" /\ pkt'[c] = Image(Own(c))
        /\ todo'[c] = clientsSocketMap \ {c}
    BY <1>1, <1>6, <1>a DEF RecvImage, StartBroadcast, Types, HandlerTypes
  <2>2. ~Answering(c)'
    BY <2>1 DEF Answering
  <2>3. TopicOf(c, T)'
    BY <1>2, <1>3, <2>2 DEF TopicOf
  <2>4. PrimedBy(c, T)'
    BY <1>b, <2>1, <2>2 DEF PrimedBy
  <2>5. \A d \in Clients : Fresh(d, T, T)'
    BY <2>1 DEF Fresh, Coming, Brings
  <2>6. QED
    BY <1>1, <1>a, <1>b, <1>4, <2>3, <2>4, <2>5, ServedFlow
<1>7. QED
  BY <1>5, <1>6

\* What a handler that serves leaves alone.
LEMMA ServingAlone ==
  ASSUME BaseInv, NEW T, Flow(T), NEW c \in Clients, Serving(c),
         up' = up, sending' = sending
  PROVE  /\ Active(c) /\ ~Setting(c) /\ ~Asking(c) /\ ~Setting(c)' /\ ~Asking(c)'
         /\ \A id \in Ids : up'[c] # <<ImageRequest(id)>>
         /\ ~Answering(c) => IdOf[c] = T /\ pkt[c] = Image(Own(c))
         /\ \A d \in Clients : d \in clientsSocketMap \/ ~Connected(d)
<1>1. ServeShape(c) /\ TopicOf(c, T) /\ \A d \in Clients : Joined(d)
  BY DEF BaseInv, Serves, Flow
<1>2. ~Setting(c) /\ ~Asking(c) /\ ~Setting(c)' /\ ~Asking(c)'
  BY <1>1 DEF ServeShape, Setting, Asking
<1>3. \A id \in Ids : up'[c] # <<ImageRequest(id)>>
  <2>1. \A id : HasType(<<ImageRequest(id)>>, "IMAGE_REQUEST")
    BY ShortQueues DEF ImageRequest
  <2>2. QED
    BY <1>2, <2>1 DEF Asking
<1>4. QED
  BY <1>1, <1>2, <1>3 DEF Active, ServeShape, TopicOf, Joined

\* The pause is over: everybody has the name, or has it on the way.
LEMMA BroadcastBytesFlow ==
  ASSUME Turns, ImagesInv, BaseInv, NEW T, Flow(T), NEW c \in Clients,
         BroadcastBytes(c)
  PROVE  Flow(T)'
<1>a. Types /\ Act(c)
  BY DEF ImagesInv, Act, Handler
<1>b. UNCHANGED <<down, session, myId, idExtMap, lastImageName, stored, latest,
                  twice, clientsSocketMap, up, sending, pkt>>
  BY DEF BroadcastBytes, programVars, userVars, serverVars
<1>1. /\ at[c] = "pause" /\ ~Answering(c) /\ Serving(c) /\ at'[c] = "image"
      /\ ~Answering(c)' /\ todo'[c] = clientsSocketMap \ {c}
  BY <1>a DEF BroadcastBytes, StartBroadcast, Types, HandlerTypes, Answering,
              Serving
<1>2. /\ Active(c) /\ ~Setting(c)' /\ ~Asking(c)' /\ IdOf[c] = T
      /\ \A id \in Ids : up'[c] # <<ImageRequest(id)>>
      /\ \A d \in Clients : d \in clientsSocketMap \/ ~Connected(d)
  BY <1>1, <1>b, ServingAlone
<1>3. \A d \in Clients : QueueOf(d, T)' /\ (Primed(d, T)' <=> Primed(d, T))
  BY <1>b, NothingSent
<1>4. TopicOf(c, T)' /\ ~Early(c)'
  BY <1>1, <1>2 DEF TopicOf, Early
<1>5. PrimedBy(c, T)'
  <2>1. \A d \in clientsSocketMap \ {c} : Primed(d, T)
    BY <1>1 DEF Flow, PrimedBy
  <2>2. \A d \in todo'[c] : Primed(d, T)'
    BY <1>1, <1>3, <1>a, <2>1 DEF Types, ServerTypes
  <2>3. QED
    BY <1>1, <2>2 DEF PrimedBy
<1>6. ASSUME NEW d \in Clients
      PROVE  Fresh(d, T, T)'
  <2>1. CASE d \in clientsSocketMap \ {c}
    BY <1>1, <2>1 DEF Fresh, Coming, Brings
  <2>2. CASE d \notin clientsSocketMap \ {c}
    BY <1>2, <1>b, <2>2 DEF Fresh, Exempt, Connected
  <2>3. QED
    BY <2>1, <2>2
<1>7. QED
  BY <1>1, <1>2, <1>3, <1>4, <1>5, <1>6, <1>a, <1>b, ServedFlow

\* All have got the name, or the bytes.
LEMMA BroadcastDoneFlow ==
  ASSUME Turns, ImagesInv, BaseInv, NEW T, Flow(T), NEW c \in Clients,
         BroadcastDone(c)
  PROVE  Flow(T)'
<1>a. Types /\ Act(c)
  BY DEF ImagesInv, Act, Handler
<1>b. UNCHANGED <<down, session, myId, idExtMap, lastImageName, stored, latest,
                  twice, clientsSocketMap, up, sending>>
  BY DEF BroadcastDone, programVars, userVars, serverVars
<1>1. /\ at[c] \in {"ext", "image"} /\ Serving(c) /\ ~Answering(c)
      /\ todo[c] = {}
  BY DEF BroadcastDone, Answering, Serving
<1>2. /\ Active(c) /\ ~Setting(c)' /\ ~Asking(c)' /\ IdOf[c] = T
      /\ \A id \in Ids : up'[c] # <<ImageRequest(id)>>
      /\ pkt[c] = Image(Own(c)) /\ ~Setting(c)
  BY <1>1, <1>b, ServingAlone
<1>3. \A d \in Clients : /\ QueueOf(d, T)' /\ (Primed(d, T)' <=> Primed(d, T))
                         /\ PicIn(down'[d]) <=> PicIn(down[d])
  BY <1>b, NothingSent
<1>4. CASE at[c] = "ext"
  <2>1. at'[c] = "pause" /\ pkt'[c] = Image(Own(c))
    BY <1>2, <1>4, <1>a DEF BroadcastDone, Types, HandlerTypes
  <2>2. ~Answering(c)'
    BY <2>1 DEF Answering, Image
  <2>3. TopicOf(c, T)'
    BY <1>2, <2>2 DEF TopicOf
  <2>4. PrimedBy(c, T)'
    <3>1. \A d \in clientsSocketMap \ {c} : Primed(d, T)
      BY <1>1, <1>4 DEF Flow, PrimedBy
    <3>2. \A d \in clientsSocketMap' \ {c} : Primed(d, T)'
      BY <1>3, <1>a, <1>b, <3>1 DEF Types, ServerTypes
    <3>3. QED
      BY <2>1, <2>2, <3>2 DEF PrimedBy
  <2>5. \A d \in Clients : ~PicIn(down'[d])
    BY <1>3, <1>4 DEF Flow, Early
  <2>6. \A d \in Clients : Fresh(d, T, T)'
    BY <2>1, <2>2 DEF Fresh, Coming, Brings
  <2>7. QED
    BY <1>1, <1>2, <1>3, <1>a, <1>b, <2>3, <2>4, <2>5, <2>6, ServedFlow
<1>5. CASE at[c] = "image"
  <2>1. at'[c] = "recv"
    BY <1>5, <1>a DEF BroadcastDone, Types, HandlerTypes
  <2>2. TopicOf(c, T)' /\ PrimedBy(c, T)' /\ ~Early(c)'
    BY <1>2, <2>1 DEF TopicOf, PrimedBy, Serving, Answering, Early
  <2>3. ASSUME T \in Ids, NEW d \in Clients
        PROVE  Fresh(d, T, T)'
    <3>1. /\ Right(d, T)' <=> Right(d, T)
          /\ Exempt(d, T) => Exempt(d, T)'
      <4>1. \A s \in Clients : at[s] = "spin" => at'[s] = "spin"
        BY <1>5, <1>a, StepAlone
      <4>2. QED
        BY <1>b, <4>1, KnowsAsBefore
    <3>2. Coming(d) => PicIn(down[d])
      BY <1>1, <1>2, <1>5, OnlyActive DEF Brings
    <3>3. Settled(d, T, T)' <=> Settled(d, T, T)
      BY <3>1, <1>b DEF Settled
    <3>4. QED
      BY <1>3, <2>3, <3>1, <3>2, <3>3 DEF Flow, Fresh, Coming
  <2>4. QED
    BY <1>1, <1>2, <1>3, <1>a, <1>b, <2>2, <2>3, ServedFlow
<1>6. QED
  BY <1>1, <1>4, <1>5

\* A file is found: its name goes to c, and the picture is to follow.
LEMMA FoundFlow ==
  ASSUME Turns, ImagesInv, BaseInv, NEW T, Flow(T), NEW c \in Clients,
         FindImageAndSend(c), ~UNCHANGED <<down, at, msg, pkt>>
  PROVE  Flow(T)'
<1>a. Types /\ Shapes /\ Serves /\ LastSaved /\ Act(c)
  BY DEF ImagesInv, BaseInv, Act, Handler
<1>b. UNCHANGED <<session, myId, idExtMap, lastImageName, stored, latest,
                  twice, clientsSocketMap, sending>>
  BY DEF FindImageAndSend, programVars, userVars, serverVars
<1>1. /\ Asking(c) /\ up'[c] = <<>> /\ ~Setting(c)' /\ ~Asking(c)'
      /\ \E id \in Ids, ext \in Exts :
           /\ up[c] = <<ImageRequest(id)>> /\ pkt'[c].id = id /\ Answering(c)'
           /\ down' = Sent(down, c, NamedExt(<<id, ext>>))
  BY <1>a, FindServes
<1>2. PICK ext \in Exts :
        /\ T \in Ids /\ pkt'[c].id = T /\ Answering(c)'
        /\ down' = Sent(down, c, NamedExt(<<T, ext>>))
  BY <1>1 DEF Flow, TopicOf
<1> DEFINE m == NamedExt(<<T, ext>>)
<1>3. m \in DownPackets /\ Name(m) /\ ~Picture(m) /\ m.name[1] = T
  <2>1. <<T, ext>> \in FileNames
    BY <1>2 DEF FileNames
  <2>2. m \in DownPackets
    BY <2>1, Packets, DownPacket
  <2>3. QED
    BY <2>2 DEF Name, Picture, NamedExt
<1>4. Active(c) /\ Early(c) /\ at[c] = "recv" /\ at'[c] = "pause"
  BY <1>1, <1>2 DEF Active, Early, FindImageAndSend, Handles, Answering
<1>5. \A d \in Clients : ~PicIn(down[d])
  BY <1>4 DEF Flow
<1>6. down' = Sent(down, c, m)
  BY <1>2
<1> HIDE DEF m
<1>7. ASSUME NEW d \in Clients
      PROVE  /\ QueueOf(d, T)' /\ ~PicIn(down'[d])
             /\ NameIn(down'[d]) => NameIn(down[d]) \/ d = c
             /\ d = c => Primed(d, T)'
  BY <1>3, <1>5, <1>6, <1>a, <1>b, PacketSent
<1>8. TopicOf(c, T)'
  <2>1. \A id \in Ids : up'[c] # <<ImageRequest(id)>>
    BY <1>1, ShortQueues
  <2>2. QED
    BY <1>1, <1>2, <2>1 DEF TopicOf
<1>9. PrimedBy(c, T)'
  BY <1>2, <1>4, <1>7 DEF PrimedBy
<1>10. ASSUME NEW d \in Clients
       PROVE  Fresh(d, T, T)'
  <2>1. CASE d = c
    BY <1>2, <2>1 DEF Fresh, Coming
  <2>2. CASE d # c
    <3>1. ~Coming(d)
      <4>1. ~Brings(c, d)
        BY <1>1, <1>4, <1>a, ShapeFacts DEF Brings, Shapes
      <4>2. QED
        BY <1>4, <1>5, <2>2, <4>1, OnlyActive
    <3>2. /\ Right(d, T)' <=> Right(d, T)
          /\ Exempt(d, T) => Exempt(d, T)'
      <4>1. \A s \in Clients : at[s] = "spin" => at'[s] = "spin"
        BY <1>4, <1>a, StepAlone
      <4>2. QED
        BY <1>b, <4>1, KnowsAsBefore
    <3>3. Fresh(d, T, T)
      BY <1>2 DEF Flow
    <3>4. QED
      BY <1>7, <2>2, <3>1, <3>2, <3>3 DEF Fresh, Settled
  <2>3. QED
    BY <2>1, <2>2
<1>11. at[c] # "spin"
  BY <1>4
<1>12. QED
  BY <1>4, <1>7, <1>8, <1>9, <1>10, <1>11, <1>a, <1>b, ServedFlow

\* The picture follows.
LEMMA SendFoundFlow ==
  ASSUME Turns, ImagesInv, BaseInv, NEW T, Flow(T), NEW c \in Clients,
         SendFoundImage(c)
  PROVE  Flow(T)'
<1>a. /\ Types /\ Act(c) /\ OwnPictures /\ ServeShape(c) /\ FoundBy(c)
      /\ PrimedBy(c, T) /\ TopicOf(c, T)
  BY DEF ImagesInv, BaseInv, Serves, Follows, Act, Handler, Flow
<1>b. UNCHANGED <<session, myId, idExtMap, lastImageName, stored, latest,
                  twice, clientsSocketMap, sending, up>>
  BY DEF SendFoundImage, programVars, userVars, serverVars
<1>1. at[c] = "pause" /\ pkt[c].type = "IMAGE_REQUEST" /\ Answering(c) /\ Serving(c)
  BY DEF SendFoundImage, Answering, Serving
<1> DEFINE pic == saved[msg[c].name]
           m   == Requested(pic)
<1>2. /\ pic \in Pics(T) /\ T \in Ids
      /\ down' = Sent(down, c, m) /\ at'[c] \in {"recv", "spin"}
  <2>1. /\ msg[c].name \in FileNames /\ pic \in Pictures
        /\ pkt[c].id = T /\ msg[c].name[1] = T
        /\ pic = latest[T] \/ T \in twice
    BY <1>1, <1>a DEF FoundBy, ServeShape, TopicOf
  <2>2. pic.id = T /\ T \in Ids
    <3>1. PICK id \in Ids, ext \in Exts : msg[c].name = <<id, ext>>
      BY <2>1 DEF FileNames
    <3>2. saved[<<id, ext>>] # None /\ pic = saved[<<id, ext>>]
      BY <2>1, <3>1, NoneAssumption
    <3>3. pic.id = id
      BY <1>a, <3>2 DEF OwnPictures
    <3>4. id = T
      BY <2>1, <3>1
    <3>5. QED
      BY <3>3, <3>4
  <2>3. down' = Sent(down, c, m) /\ at'[c] \in {"recv", "spin"}
    BY <1>a DEF SendFoundImage, Types, HandlerTypes
  <2>4. QED
    BY <2>1, <2>2, <2>3 DEF Pics
<1>3. m \in DownPackets /\ ~Name(m) /\ Picture(m) /\ m.pic \in Pics(T)
  <2>1. pic \in Pictures
    BY <1>2 DEF Pics
  <2>2. m \in DownPackets
    BY <2>1, Packets
  <2>3. QED
    BY <1>2, <2>2 DEF Name, Picture, Requested
<1> HIDE DEF pic, m
<1>4. Primed(c, T)
  BY <1>1, <1>a DEF PrimedBy
<1>5. ASSUME NEW d \in Clients
      PROVE  /\ QueueOf(d, T)' /\ (PicIn(down[d]) => PicIn(down'[d]))
             /\ NameIn(down'[d]) => NameIn(down[d])
             /\ d = c => PicIn(down'[d]) \/ ~Connected(d)'
  BY <1>2, <1>3, <1>4, <1>a, <1>b, PacketSent
<1>6. /\ Active(c) /\ ~Setting(c)' /\ ~Asking(c)' /\ ~Setting(c)
      /\ \A id \in Ids : up'[c] # <<ImageRequest(id)>>
  BY <1>1, <1>b, ServingAlone
<1>7. TopicOf(c, T)' /\ PrimedBy(c, T)' /\ ~Early(c)'
  BY <1>2, <1>6 DEF TopicOf, PrimedBy, Serving, Answering, Early
<1>8. ASSUME NEW d \in Clients
      PROVE  Fresh(d, T, T)'
  <2>1. CASE d = c
    BY <1>5, <2>1 DEF Fresh, Coming, Exempt
  <2>2. CASE d # c
    <3>1. Coming(d) => PicIn(down[d])
      BY <1>1, <1>6, <2>2, OnlyActive DEF Brings
    <3>2. /\ Right(d, T)' <=> Right(d, T)
          /\ Exempt(d, T) => Exempt(d, T)'
      <4>1. \A s \in Clients : at[s] = "spin" => at'[s] = "spin"
        BY <1>1, <1>a, StepAlone
      <4>2. QED
        BY <1>b, <4>1, KnowsAsBefore
    <3>3. Fresh(d, T, T)
      BY <1>2 DEF Flow
    <3>4. QED
      BY <1>5, <3>1, <3>2, <3>3 DEF Fresh, Settled, Coming
  <2>3. QED
    BY <2>1, <2>2
<1>9. at[c] # "spin"
  BY <1>1
<1>10. QED
  BY <1>5, <1>6, <1>7, <1>8, <1>9, <1>a, <1>b, ServedFlow

\* The loops send the name to all, and then the bytes.
LEMMA SendToTargetFlow ==
  ASSUME Turns, ImagesInv, BaseInv, NEW T, Flow(T), NEW c \in Clients,
         SendToTarget(c), at[c] # "bye"
  PROVE  Flow(T)'
<1>a. /\ Types /\ Act(c) /\ OwnPictures /\ ServeShape(c)
      /\ PrimedBy(c, T) /\ TopicOf(c, T)
  BY DEF ImagesInv, BaseInv, Serves, Act, Handler, Flow
<1>b. UNCHANGED <<session, myId, idExtMap, lastImageName, stored, latest,
                  twice, clientsSocketMap, sending, up, msg, pkt>>
  BY DEF SendToTarget, programVars, userVars, serverVars
<1>1. PICK e \in todo[c] :
        /\ down' = Sent(down, e, msg[c]) /\ todo' = [todo EXCEPT ![c] = @ \ {e}]
        /\ at' \in {at} \cup IF MaySpin(e, msg[c])
                             THEN {[at EXCEPT ![c] = "spin"]} ELSE {}
  BY DEF SendToTarget
<1>2. /\ at[c] \in {"ext", "image"} /\ Serving(c) /\ ~Answering(c)
      /\ e \in Clients /\ todo'[c] = todo[c] \ {e}
      /\ msg[c] \in Announced /\ msg[c] \in DownPackets
      /\ at'[c] \in {at[c], "spin"}
  BY <1>1, <1>a, DownPacket
  DEF SendToTarget, InLoop, Serving, Answering, Types, HandlerTypes
<1>3. /\ Active(c) /\ ~Setting(c)' /\ ~Asking(c)' /\ IdOf[c] = T
      /\ \A id \in Ids : up'[c] # <<ImageRequest(id)>>
      /\ pkt[c] = Image(Own(c)) /\ ~Setting(c) /\ T \in Ids
  BY <1>2, <1>b, ServingAlone, ImagesAssumption
<1>4. /\ ~Answering(c)' /\ TopicOf(c, T)'
  <2>1. ~Answering(c)'
    BY <1>2, <1>b DEF Answering
  <2>2. QED
    BY <1>3, <2>1 DEF TopicOf
<1>5. \A s \in Clients : at[s] = "spin" => at'[s] = "spin"
  BY <1>2, <1>a, StepAlone
<1>6. CASE at[c] = "ext"
  <2>1. Name(msg[c]) /\ ~Picture(msg[c]) /\ msg[c].name[1] = T /\ at'[c] = "ext"
    <3>1. msg[c].type = "IMAGE_EXT" /\ msg[c].name[1] = T
      BY <1>3, <1>6, <1>a DEF ServeShape
    <3>2. QED
      BY <1>1, <1>6, <3>1 DEF MaySpin, Name, Picture
  <2>2. \A d \in Clients : ~PicIn(down[d])
    BY <1>6 DEF Flow, Early
  <2>3. ASSUME NEW d \in Clients
        PROVE  /\ QueueOf(d, T)' /\ (Primed(d, T) => Primed(d, T)')
               /\ ~PicIn(down'[d]) /\ (d = e => Primed(d, T)')
    BY <1>1, <1>2, <1>a, <1>b, <2>1, <2>2, PacketSent
  <2>4. PrimedBy(c, T)'
    <3>1. \A d \in clientsSocketMap \ {c} : d \in todo[c] \/ Primed(d, T)
      BY <1>6, <1>a DEF PrimedBy
    <3>2. \A d \in clientsSocketMap' \ {c} : d \in todo'[c] \/ Primed(d, T)'
      BY <1>2, <1>a, <1>b, <2>3, <3>1 DEF Types, ServerTypes
    <3>3. QED
      BY <1>4, <2>1, <3>2 DEF PrimedBy
  <2>5. \A d \in Clients : Fresh(d, T, T)'
    BY <2>1 DEF Fresh, Coming, Brings
  <2>6. QED
    BY <1>2, <1>3, <1>4, <1>a, <1>b, <2>3, <2>4, <2>5, ServedFlow
<1>7. CASE at[c] = "image"
  <2>1. /\ ~Name(msg[c]) /\ Picture(msg[c]) /\ msg[c].pic \in Pics(T)
    <3>1. msg[c] = Image(Own(c))
      BY <1>3, <1>7, <1>a DEF ServeShape
    <3>2. msg[c].type = "IMAGE" /\ msg[c].pic = latest[T]
      BY <1>3, <3>1 DEF Image, Own
    <3>3. latest[T] \in Pictures
      BY <1>2, <3>2, DownPacket
    <3>4. latest[T].id = T
      BY <1>3, <1>a, <3>3, NoneAssumption DEF OwnPictures
    <3>5. QED
      BY <3>2, <3>3, <3>4 DEF Name, Picture, Pics
  <2>2. Primed(e, T)
    BY <1>7, <1>a DEF PrimedBy
  <2>3. ASSUME NEW d \in Clients
        PROVE  /\ QueueOf(d, T)' /\ (Primed(d, T) => Primed(d, T)')
               /\ PicIn(down[d]) => PicIn(down'[d])
               /\ NameIn(down'[d]) => NameIn(down[d])
               /\ d = e => PicIn(down'[d]) \/ ~Connected(d)'
    BY <1>1, <1>2, <1>a, <1>b, <2>1, <2>2, PacketSent
  <2>4. PrimedBy(c, T)' /\ ~Early(c)'
    <3>1. \A d \in todo[c] : Primed(d, T)
      BY <1>7, <1>a DEF PrimedBy
    <3>2. \A d \in todo'[c] : Primed(d, T)'
      BY <1>2, <1>a, <2>3, <3>1 DEF Types, HandlerTypes
    <3>3. QED
      BY <1>2, <1>3, <1>4, <1>7, <3>2 DEF PrimedBy, Early
  <2>5. ASSUME NEW d \in Clients
        PROVE  Fresh(d, T, T)'
    <3>1. CASE at'[c] = "spin"
      BY <1>3, <3>1 DEF Fresh, Exempt, Spinning
    <3>2. CASE at'[c] = "image" /\ d = e
      BY <2>3, <3>2 DEF Fresh, Coming, Exempt
    <3>3. CASE at'[c] = "image" /\ d # e
      <4>1. Coming(d) => PicIn(down[d]) \/ d \in todo[c]
        BY <1>2, <1>3, <1>7, OnlyActive DEF Brings
      <4>2. Coming(d) => Coming(d)'
        BY <1>2, <2>3, <3>3, <4>1 DEF Coming, Brings
      <4>3. /\ Right(d, T)' <=> Right(d, T)
            /\ Exempt(d, T) => Exempt(d, T)'
        BY <1>5, <1>b, KnowsAsBefore
      <4>4. Fresh(d, T, T)
        BY <1>3 DEF Flow
      <4>5. QED
        BY <2>3, <4>2, <4>3, <4>4 DEF Fresh, Settled
    <3>4. QED
      BY <1>2, <1>7, <3>1, <3>2, <3>3
  <2>6. QED
    BY <1>2, <1>3, <1>4, <1>7, <1>a, <1>b, <2>3, <2>4, <2>5, ServedFlow
<1>8. QED
  BY <1>2, <1>6, <1>7

-----------------------------------------------------------------------------
(* Every step, and the window.                                              *)

\* Every step leaves some topic.
LEMMA NextFlow ==
  ASSUME Turns, ImagesInv, BaseInv, FlowInv, NEW c \in Clients, Act(c)
  PROVE  FlowInv'
<1>1. PICK T \in Ids \cup {None} : Flow(T)
  BY DEF FlowInv
<1>2. CASE SetProfileImage(c)
  <2>1. Flow(IdOf[c])' /\ IdOf[c] \in Ids
    BY <1>1, <1>2, SetProfileFlow, ImagesAssumption
  <2>2. QED
    BY <2>1 DEF FlowInv
<1>3. CASE OnClickListClients(c) /\ up' # up
  <2>1. \E id \in Ids : Flow(id)'
    BY <1>1, <1>3, RequestFlow
  <2>2. QED
    BY <2>1 DEF FlowInv
<1>4. ASSUME ~SetProfileImage(c), ~(OnClickListClients(c) /\ up' # up)
      PROVE  Flow(T)'
  <2>1. CASE User(c) \/ SendBytes(c)
    BY <1>1, <1>4, <2>1, SendsFlow, ComesGoesFlow DEF User
  <2>2. CASE ReceiveThread(c)
    BY <1>1, <2>2, ReceiverFlow, PictureFlow DEF ReceiveThread
  <2>3. CASE FindImageAndSend(c)
    BY <1>1, <2>3, FoundFlow, SendsFlow
  <2>4. CASE SendToTarget(c)
    BY <1>1, <2>4, SendToTargetFlow, ServerCalm
  <2>5. CASE Login(c) \/ StartRemoval(c) \/ Remove(c) \/ SaveImageExt(c)
    BY <1>1, <2>5, ServerCalm, SendsFlow
  <2>6. CASE \/ RecvImage(c) \/ BroadcastBytes(c) \/ SendFoundImage(c)
             \/ BroadcastDone(c)
    BY <1>1, <2>6, RecvImageFlow, BroadcastBytesFlow, SendFoundFlow,
       BroadcastDoneFlow
  <2>7. QED
    BY <2>1, <2>2, <2>3, <2>4, <2>5, <2>6 DEF Act, Handler
<1>5. QED
  BY <1>2, <1>3, <1>4 DEF FlowInv

\* At the start there is none.
LEMMA InitFlow == Init => FlowInv
<1> SUFFICES ASSUME Init
             PROVE  Flow(None)
  BY DEF FlowInv
<1>1. \A c \in Clients :
        /\ up[c] = <<>> /\ down[c] = <<>> /\ sending[c] = None
        /\ at[c] = "recv" /\ \A id \in Ids : idExtMap[c][id] = None
  BY DEF Init
<1>2. \A c \in Clients : TopicOf(c, None) /\ PrimedBy(c, None) /\ QueueOf(c, None)
  BY <1>1, NothingQueued, ShortQueues, QueueEmpty
  DEF TopicOf, PrimedBy, QueueOf, Setting, Serving, Answering
<1>3. \A c \in Clients, id \in Ids : Fresh(c, id, None)
  BY <1>1, QueueEmpty DEF Fresh, Settled, Right
<1>4. QED
  BY <1>1, <1>2, <1>3, QueueEmpty DEF Flow

\* A step that changes nothing.
LEMMA SameShows ==
  ASSUME BaseInv, FlowInv, UNCHANGED imageVars
  PROVE  BaseInv' /\ FlowInv'
<1> USE DEF imageVars, serverVars, handlerVars, programVars, userVars
<1>1. Shapes'
  BY DEF BaseInv, Shapes, UpShape, Own
<1>2. (\A c \in Clients : /\ Setting(c)' <=> Setting(c)
                          /\ Asking(c)' <=> Asking(c)
                          /\ Serving(c)' <=> Serving(c)
                          /\ Answering(c)' <=> Answering(c))
      /\ \A c \in Clients : Connected(c)' <=> Connected(c)
  BY DEF Setting, Asking, Serving, Answering, Connected
<1>3. Serves'
  BY <1>2 DEF BaseInv, Serves, ServeShape, OneActive, Active, Own
<1>4. OwnPictures' /\ OneSession' /\ LastSaved'
  BY <1>2 DEF BaseInv, OwnPictures, OneSession, LastSaved
<1>5. \A c \in Clients : Joined(c)'
  BY <1>2 DEF BaseInv, Joined
<1>6. ASSUME NEW T, Flow(T)
      PROVE  Flow(T)'
  <2>1. \A c \in Clients : /\ Primed(c, T)' <=> Primed(c, T)
                           /\ QueueOf(c, T)' <=> QueueOf(c, T)
    BY <1>2 DEF Primed, Known, QueueOf, Pics
  <2>2. \A c \in Clients : TopicOf(c, T)' <=> TopicOf(c, T)
    BY <1>2 DEF TopicOf
  <2>3. \A c \in Clients : PrimedBy(c, T) => PrimedBy(c, T)'
    <3>1. \A c : Primed(c, T)' <=> Primed(c, T)
      BY DEF Primed, Known, Connected
    <3>2. QED
      BY <1>2, <3>1 DEF PrimedBy
  <2>4. \A c \in Clients, id \in Ids : Fresh(c, id, T) => Fresh(c, id, T)'
    <3>1. \A c \in Clients : Coming(c)' <=> Coming(c)
      BY <1>2 DEF Coming, Brings
    <3>2. \A c \in Clients, id \in Ids :
            /\ Exempt(c, id)' <=> Exempt(c, id)
            /\ Settled(c, id, T)' <=> Settled(c, id, T)
      BY <1>2 DEF Exempt, Spinning, Settled, Right, CameBeforeLogin
    <3>3. QED
      BY <3>1, <3>2 DEF Fresh
  <2>5. \A s, c \in Clients : Early(s)' => ~PicIn(down'[c])
    BY <1>2, <1>6 DEF Early, Flow
  <2>6. QED
    BY <1>6, <2>1, <2>2, <2>3, <2>4, <2>5 DEF Flow
<1>7. QED
  BY <1>1, <1>3, <1>4, <1>5, <1>6 DEF BaseInv, FlowInv

\* What a click on an announced picture shows.
LEMMA ClickFresh ==
  ASSUME Turns, ImagesInv, BaseInv, FlowInv, NEW c \in Clients,
         OnClickListClients(c), popup'[c] # popup[c]
  PROVE  /\ popup'[c].id \in Ids
         /\ \/ popup'[c].pic = latest[popup'[c].id]
            \/ CameBeforeLogin(c, popup'[c].id) \/ Spinning(popup'[c].id)
            \/ popup'[c].id \in twice
<1>a. Types /\ MayAct(c)
  BY DEF ImagesInv, OnClickListClients
<1>1. PICK id \in Listed(c) :
        /\ idExtMap[c][id] # None
        /\ popup' = [popup EXCEPT ![c] =
             [id |-> id, pic |-> stored[c][<<myId[c], id, idExtMap[c][id]>>]]]
  BY DEF OnClickListClients
<1>2. /\ popup'[c].id = id
      /\ popup'[c].pic = stored[c][<<myId[c], id, idExtMap[c][id]>>]
  BY <1>1, <1>a DEF Types, UserTypes
<1>3. id \in Ids /\ id # IdOf[c] /\ Connected(c)
  BY <1>a, MyTurn DEF Listed, BaseInv, Connected
<1>4. PICK T : Flow(T)
  BY DEF FlowInv
<1>5. ~Coming(c)
  <2>1. \A s \in Clients : down[s] = <<>> /\ ~Setting(s) /\ ~Serving(s)
    BY <1>a, MyTurn DEF BaseInv
  <2>2. QED
    BY <2>1, QueueEmpty DEF Coming, Brings, Serving, Answering
<1>6. Right(c, id) \/ id \in twice \/ Spinning(id)
  BY <1>3, <1>4, <1>5 DEF Flow, Fresh, Exempt, Settled
<1>7. QED
  BY <1>1, <1>2, <1>3, <1>6 DEF Right

\* If users wait until no picture is under way (Turns, which nothing in the code
\* makes them do), a click opens the picture the owner set last: with any number
\* of users, pictures and clicks, through changes of the extension, goodbyes and
\* later logins (OnClickListClients, SaveImage, FindImageAndSend).
THEOREM ClicksShowLast == Turns => (Spec => WindowShowsLast)
<1> SUFFICES ASSUME Turns
             PROVE  Spec => WindowShowsLast
  OBVIOUS
<1> DEFINE Inv == ImagesInv /\ BaseInv /\ FlowInv
<1>1. Init => Inv
  BY InitImages, InitBase, InitFlow
<1>2. Inv /\ [Next]_imageVars => Inv'
  <2> SUFFICES ASSUME Inv, [Next]_imageVars
               PROVE  Inv'
    OBVIOUS
  <2>1. ImagesInv'
    BY NextImages
  <2>2. CASE Next
    <3>1. PICK c \in Clients : Act(c)
      BY <2>2 DEF Next, Act
    <3>2. QED
      BY <2>1, <3>1, NextBase, NextFlow
  <2>3. CASE UNCHANGED imageVars
    BY <2>1, <2>3, SameShows
  <2>4. QED
    BY <2>2, <2>3
<1>3. Inv /\ [Next]_imageVars => [ShowsLast]_imageVars
  <2> SUFFICES ASSUME Inv, Next
               PROVE  ShowsLast
    OBVIOUS
  <2>1. PICK d \in Clients : Act(d)
    BY DEF Next, Act
  <2>2. ASSUME NEW c \in Clients, popup'[c] # popup[c]
        PROVE  c = d /\ OnClickListClients(c)
    <3>1. Types
      BY DEF ImagesInv
    <3>2. OnClickListClients(d)
      BY <2>1, <2>2, <3>1, KnownStep
    <3>3. \A s \in Clients \ {d} : popup'[s] = popup[s]
      BY <3>1, <3>2 DEF OnClickListClients, Types, UserTypes
    <3>4. QED
      BY <2>2, <3>2, <3>3
  <2>3. QED
    BY <2>2, ClickFresh DEF ShowsLast
<1>4. QED
  BY <1>1, <1>2, <1>3, PTL DEF Spec, WindowShowsLast
=============================================================================
