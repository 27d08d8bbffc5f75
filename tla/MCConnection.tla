----------------------------- MODULE MCConnection -----------------------------
(***************************************************************************)
(* Instances for TLC of the parts the server is made of: its queue of      *)
(* connections, the packets, base64, the answer to a status request, the   *)
(* start and the log.  A behaviour is of one of them.                      *)
(*                                                                         *)
(* There are three bits to a digit of a varint, three digits to a varint   *)
(* and eight bits to an int, so that a varint has more bits than an int,   *)
(* and an int needs every digit, as in the code.                           *)
(***************************************************************************)
EXTENDS ConnQueue, PacketRecv, Packets, Base64, StatusReply, StatusParse, Startup, Log, TLC

CONSTANT Parts   \* which of them

VARIABLE part

mcvars == <<part, vars, recvVars, pkvars, b6vars, srvars, spvars, suvars, logVars>>

RecvOff == packets = <<>> /\ arrived = 0 /\ ended = TRUE /\ pc = "failed" /\ seen = 0
  /\ len = 0 /\ taken = 0 /\ received = <<>> /\ whole = FALSE /\ cut = FALSE /\ cause = TRUE

PkOff == pkKind = "request" /\ pkFields = <<>> /\ pkPc = "off" /\ pkBody = <<>> /\ pkRest = 0
  /\ pkHeap = {} /\ pkWire = <<>> /\ pkCut = 0 /\ pkRead = <<>> /\ pkUsed = 0

B6Off == b6Input = <<>> /\ b6Behind = 0 /\ b6Pc = "off" /\ b6Text = <<>> /\ b6TextLen = 0
  /\ b6Padding = 0 /\ b6Output = <<>> /\ b6OutputLen = 0

SrOff == srSet = {} /\ srPc = "off" /\ srStep = 1 /\ srRoom = 0 /\ srChunk = 0
  /\ srMade = {} /\ srMembers = {} /\ srHeap = {} /\ srLength = 0 /\ srPast = 0
  /\ srSent = {} /\ srRefused = FALSE

SpOff == spDoc = [lookup \in Lookups |-> Absent] /\ spPc = "off"
  /\ spConfig = [field \in Fields |-> Unset] /\ spHeap = {} /\ spMemory = TRUE

SuOff == suArgs = <<>> /\ suNext = 1 /\ suPc = "off" /\ suSettings = Defaults
  /\ suFavicon = NoFile /\ suBlocks = {} /\ suFiles = 0 /\ suBound = <<>> /\ suStatus = 0

\* ConnQueue and Log have one initial state each.
MCInit ==
  /\ part \in Parts
  /\ Init /\ LogInit
  /\ IF part = "recv" THEN RecvInit ELSE RecvOff
  /\ IF part = "packets" THEN PkInit ELSE PkOff
  /\ IF part = "base64" THEN B6Init ELSE B6Off
  /\ IF part = "reply" THEN SrInit ELSE SrOff
  /\ IF part = "parse" THEN SpInit ELSE SpOff
  /\ IF part = "startup" THEN SuInit ELSE SuOff

MCNext ==
  /\ \/ /\ part = "queue" /\ Next
        /\ UNCHANGED <<recvVars, pkvars, b6vars, srvars, spvars, suvars, logVars>>
     \/ /\ part = "recv" /\ RecvNext
        /\ UNCHANGED <<vars, pkvars, b6vars, srvars, spvars, suvars, logVars>>
     \/ /\ part = "packets" /\ PkNext
        /\ UNCHANGED <<vars, recvVars, b6vars, srvars, spvars, suvars, logVars>>
     \/ /\ part = "base64" /\ B6Next
        /\ UNCHANGED <<vars, recvVars, pkvars, srvars, spvars, suvars, logVars>>
     \/ /\ part = "reply" /\ SrNext
        /\ UNCHANGED <<vars, recvVars, pkvars, b6vars, spvars, suvars, logVars>>
     \/ /\ part = "parse" /\ SpNext
        /\ UNCHANGED <<vars, recvVars, pkvars, b6vars, srvars, suvars, logVars>>
     \/ /\ part = "startup" /\ SuNext
        /\ UNCHANGED <<vars, recvVars, pkvars, b6vars, srvars, spvars, logVars>>
     \/ /\ part = "log" /\ LogNext
        /\ UNCHANGED <<vars, recvVars, pkvars, b6vars, srvars, spvars, suvars>>
  /\ UNCHANGED part

MCSpec == MCInit /\ [][MCNext]_mcvars

\* Nodes are only compared.  (So are callers, but a larger group costs more, in
\* the states of the other parts, than it saves.)
Symmetry == Permutations(Nodes)

\* A packet without a body, a request, one more with a prefix of one byte and
\* two with a prefix of two.  The bodies of these read as varints of every
\* kind: lengths that are negative, zero once the prefix is added, or too big.
SomeBodies == {<<>>, <<0>>, <<0, 9, 2>>,
               <<0, 15, 15, 7, 0, 15, 15, 15, 1>>,
               <<0, 13, 15, 3, 0, 1, 0, 2, 0>>}

SomeTexts == UNION {[1 .. n -> {1, 15}] : n \in 0 .. 9}

\* Handshakes with numbers of one byte and of three, negative ones too.
SomeHandshakes ==
  [protocol_version : {-128, -1, 0, 8, 127},
   server_address : UNION {[1 .. n -> {1, 9}] : n \in 0 .. 3},
   server_port : {1, 18, 255}, next_state : {-1, 1, 127}]

\* Zeros behind the packet, the longest number and the shortest, in turn.
SomeBeyond == {<<0>>, <<15>>, <<1, 8>>}

\* Every input of one byte, two and three, and some that are longer.
SomeInputs ==
  UNION {[1 .. n -> 0 .. 15] : n \in 0 .. 2} \cup
  UNION {[1 .. n -> {0, 5, 6, 15}] : n \in 3 .. 5}

\* Configs with and without their texts; numbers up to both ends of an int.
SomeConfigs ==
  [name : {<<>>, <<1>>}, protocol : {-8, 7}, max_players : {3}, online_players : {0, 2},
   motd : {Unset, <<>>, <<1, 2>>}, favicon : {Unset, <<>>, <<2>>}]

\* A document json2config accepts, and what may stand in place of each lookup:
\* texts with a 0 inside, without a header, and numbers that are no ints.
Good == OwnDocument([name |-> <<1>>, protocol |-> 7, max_players |-> 3,
                     online_players |-> 2, motd |-> <<2>>, favicon |-> <<3, 0, 1>>])

Instead ==
  [lookup \in Lookups |->
     {Absent, Other} \cup
     CASE lookup = "name" -> {Text(<<2, 0, 1>>)}
       [] lookup \in {"protocol", "max", "online"} -> {Number(8), Number(-9), Number(19)}
       [] lookup = "description" -> {Object, Text(<<0>>)}
       [] lookup = "text" -> {Text(<<2>>), Text(<<1, 0>>)}
       [] lookup = "favicon" -> {Text(<<>>), Text(<<1>>), Text(<<5, 5, 1>>), Text(<<0, 0, 0>>)}
       [] OTHER -> {}]

\* Documents with any two lookups, and the two of the description, as they may
\* be instead.
SomeDocuments ==
  UNION {{[Good EXCEPT ![a] = x, ![b] = y] : x \in Instead[a], y \in Instead[b]} :
           a \in Lookups, b \in Lookups \ {"root"}} \cup
  {[Good EXCEPT !["description"] = Object, !["text"] = y, ![b] = z] :
     y \in Instead["text"], b \in {"favicon"}, z \in Instead["favicon"]}

SomeHeader == <<5, 6>>

SomeStray == {<<>>, <<9, 0>>}

SomeDefaults == ("a" :> AnyAddress) @@ ("p" :> 5) @@ ("M" :> 200) @@ ("O" :> 40)
  @@ ("m" :> "a motd") @@ ("n" :> "a name")

\* Arguments that are numbers: a small one, one too large for a port, no number.
SomeNumbers == ("3" :> 3) @@ ("9" :> 9) @@ ("x" :> 0)

SomeOptions ==
  {Option(letter, argument) : letter \in {"p", "M"}, argument \in {"3", "9"}} \cup
  {Option("O", "x"), Option("a", "127.0.0.1"), Option("m", "hello"), Option("n", "world"),
   Option("i", "a.png"), Option("i", "b.png"), Option("h", ""), Option("?", "")}

\* Any two options, and two of a kind with another between them.
SomeCommandLines ==
  UNION {[1 .. n -> SomeOptions] : n \in 0 .. 2} \cup
  {<<a, b, c>> : a \in SomeOptions, b \in SomeOptions, c \in {Option("p", "3"), Option("i", "a.png")}}

===============================================================================
