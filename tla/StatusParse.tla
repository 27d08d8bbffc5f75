------------------------------ MODULE StatusParse ------------------------------
(***************************************************************************)
(* json2config of util/config.c: the config a status text stands for.  A   *)
(* document is what its lookups find; a text is a sequence of characters   *)
(* in which 0 is the end for C; a malloc may fail at any time.             *)
(***************************************************************************)
EXTENDS Integers, Sequences

CONSTANTS
  Documents,    \* documents of any kind
  Configs,      \* configs whose own documents are read, too
  Header,       \* "data:image/png;base64,"
  IntLimit,     \* the least number that is no int
  Unset, Null,  \* a field that was not set, and one that is NULL
  Stray         \* what may lie in memory behind a text

Absent == [type |-> "missing"]
Object == [type |-> "object"]
Other == [type |-> "other"]
Text(value) == [type |-> "text", value |-> value]
Number(value) == [type |-> "number", value |-> value]

Lookups == {"root", "version", "players", "name", "protocol", "max", "online",
            "description", "text", "favicon"}

Fields == {"name", "protocol", "max_players", "online_players", "motd", "favicon"}

\* The texts of a config end at their 0, and its numbers are ints.
ASSUME StatusParseAssumption ==
  LET text == Seq(Nat \ {0})
      int == -IntLimit .. (IntLimit - 1)
  IN /\ IntLimit \in Nat \ {0} /\ Header \in text
     /\ \A config \in Configs :
          /\ config = [field \in Fields |-> config[field]] /\ config.name \in text
          /\ {config.protocol, config.max_players, config.online_players} \subseteq int
          /\ \A field \in {"motd", "favicon"} : config[field] = Unset \/ config[field] \in text

VARIABLES
  spDoc,      \* the document: for each of Lookups what is found
  spPc,       \* the next lookup, and "parsed" or "failed" at the end
  spConfig,   \* the fields of the config that have been set
  spHeap      \* what is allocated

(* Auxiliary. *)
VARIABLE spMemory   \* every malloc so far has succeeded

spvars == <<spDoc, spPc, spConfig, spHeap, spMemory>>

\* The document config2json makes of a config, as it is read again.
OwnDocument(config) ==
  LET text(field) == IF config[field] = Unset THEN Absent ELSE Text(config[field])
  IN [lookup \in Lookups |->
        CASE lookup \in {"root", "version", "players"} -> Object
          [] lookup = "name" -> Text(config.name)
          [] lookup = "protocol" -> Number(config.protocol)
          [] lookup = "max" -> Number(config.max_players)
          [] lookup = "online" -> Number(config.online_players)
          [] lookup = "description" -> text("motd")
          [] lookup = "text" -> Absent
          [] lookup = "favicon" -> IF config.favicon = Unset THEN Absent
                                   ELSE Text(Header \o config.favicon)]

SpInit ==
  /\ spDoc \in Documents \cup {OwnDocument(config) : config \in Configs}
  /\ spPc = "read" /\ spConfig = [field \in Fields |-> Unset]
  /\ spHeap = {} /\ spMemory = TRUE

-------------------------------------------------------------------------------
(* The steps. *)

Is(lookup, type) == spDoc[lookup].type = type

\* strcpy, and strlen for its malloc, stop at the first 0.
Cut(text) ==
  LET ends == {k \in DOMAIN text : text[k] = 0}
  IN IF ends = {} THEN text
     ELSE SubSeq(text, 1, (CHOOSE k \in ends : \A other \in ends : k <= other) - 1)

\* Mutation: the int is not signed.
Unsigned(n) == n % (2 * IntLimit)

\* yyjson_get_int: what is left of the 64 bits in an int.
GetInt(n) == ((n + IntLimit) % (2 * IntLimit)) - IntLimit

\* A failure: the document and the blocks named are freed.
Fail(freed) == spPc' = "failed" /\ spHeap' = spHeap \ ({"doc"} \cup freed)

\* The text of a lookup goes to a block of its own, or the malloc fails.
CopyOut(text, field, next, freed) ==
  \/ /\ spConfig' = [spConfig EXCEPT ![field] = Cut(text)]
     /\ spHeap' = spHeap \cup {field}
     /\ spPc' = next /\ UNCHANGED spMemory
  \/ Fail(freed) /\ spMemory' = FALSE /\ UNCHANGED spConfig

\* A lookup that finds nothing, or what it cannot use.
Refuse(freed) == Fail(freed) /\ UNCHANGED <<spConfig, spMemory>>

\* yyjson_read: a text that is no JSON, or no memory.
ReadDoc ==
  /\ spPc = "read"
  /\ \/ /\ ~Is("root", "missing")
        /\ spPc' = "objects" /\ spHeap' = {"doc"} /\ UNCHANGED spMemory
     \/ Fail({}) /\ spMemory' = Is("root", "missing")
  /\ UNCHANGED <<spDoc, spConfig>>

\* The root, "version" and "players" have to be objects.
TakeObjects ==
  /\ spPc = "objects"
  /\ IF \A lookup \in {"root", "version", "players"} : Is(lookup, "object")
       THEN spPc' = "name" /\ UNCHANGED spHeap
       ELSE Fail({})
  /\ UNCHANGED <<spDoc, spConfig, spMemory>>

TakeName ==
  /\ spPc = "name"
  /\ IF Is("name", "text")
       THEN CopyOut(spDoc["name"].value, "name", "protocol", {})
       ELSE Refuse({})
  /\ UNCHANGED spDoc

\* One of the three numbers.
TakeNumber(lookup, field, next) ==
  /\ spPc = lookup
  /\ IF Is(lookup, "number")
       THEN /\ spConfig' = [spConfig EXCEPT ![field] = GetInt(spDoc[lookup].value)]
            /\ spPc' = next /\ UNCHANGED spHeap
       ELSE Fail({"name"}) /\ UNCHANGED spConfig
  /\ UNCHANGED <<spDoc, spMemory>>

\* What is freed when the description is an object without a text: not the
\* name.
FreedWithoutText == {}

\* The description: a text, or an object with one.  (One that is missing is
\* first taken for NULL, and then refused.)
TakeMotd ==
  /\ spPc = "motd"
  /\ IF Is("description", "text")
       THEN CopyOut(spDoc["description"].value, "motd", "favicon", {"name"})
     ELSE IF Is("description", "object") /\ Is("text", "text")
       THEN CopyOut(spDoc["text"].value, "motd", "favicon", {"name"})
     ELSE IF Is("description", "object")
       THEN Refuse(FreedWithoutText)
     ELSE /\ Fail({"name"}) /\ UNCHANGED spMemory
          /\ spConfig' = IF Is("description", "missing")
                           THEN [spConfig EXCEPT !.motd = Null] ELSE spConfig
  /\ UNCHANGED spDoc

\* Mutation: the end of the header stays.
FromHeader(uri) == IF Len(uri) < Len(Header) THEN Stray ELSE {SubSeq(uri, Len(Header), Len(uri))}

\* The favicon behind its header, whatever the header is.  Behind a text that
\* is shorter something else is found.
BehindHeader(uri) ==
  IF Len(uri) < Len(Header) THEN Stray ELSE {SubSeq(uri, Len(Header) + 1, Len(uri))}

TakeFavicon ==
  /\ spPc = "favicon"
  /\ IF Is("favicon", "text")
       THEN \E text \in BehindHeader(spDoc["favicon"].value) :
              CopyOut(text, "favicon", "done", {"name", "motd"})
       ELSE Refuse({"name", "motd"})
  /\ UNCHANGED spDoc

\* The document is freed, and the config is the caller's.
ParseDone ==
  /\ spPc = "done"
  /\ spPc' = "parsed" /\ spHeap' = spHeap \ {"doc"}
  /\ UNCHANGED <<spDoc, spConfig, spMemory>>

SpNext ==
  \/ ReadDoc \/ TakeObjects \/ TakeName
  \/ TakeNumber("protocol", "protocol", "max")
  \/ TakeNumber("max", "max_players", "online")
  \/ TakeNumber("online", "online_players", "motd")
  \/ TakeMotd \/ TakeFavicon \/ ParseDone

SpSpec == SpInit /\ [][SpNext]_spvars

-------------------------------------------------------------------------------
(* Properties. *)

\* A config that is returned owns its three texts, and a failure leaves nothing
\* allocated; only a description that is an object without a text costs the
\* name.
FailureFrees ==
  /\ spPc = "parsed" => spHeap = {"name", "motd", "favicon"}
  /\ spPc = "failed" => spHeap \subseteq
       (IF Is("description", "object") /\ ~Is("text", "text") THEN {"name"} ELSE {})

\* What the document says of a field.
Said(field) ==
  CASE field = "name" -> Cut(spDoc["name"].value)
    [] field = "protocol" -> spDoc["protocol"].value
    [] field = "max_players" -> spDoc["max"].value
    [] field = "online_players" -> spDoc["online"].value
    [] field = "motd" -> Cut(spDoc[IF Is("description", "text") THEN "description"
                                                                ELSE "text"].value)
    [] field = "favicon" -> Cut(SubSeq(spDoc["favicon"].value, Len(Header) + 1,
                                       Len(spDoc["favicon"].value)))

\* A config is what the document says, as far as the numbers are ints and the
\* favicon has room for the header; neither is looked at.  It owns its texts,
\* and a failure frees what it had.
ConfigIsSaid ==
  /\ FailureFrees
  /\ spPc = "parsed" => \A field \in Fields :
       \/ spConfig[field] = Said(field)
       \/ field = "favicon" /\ Len(spDoc["favicon"].value) < Len(Header)
       \/ field \in {"protocol", "max_players", "online_players"}
            /\ Said(field) \notin -IntLimit .. (IntLimit - 1)

\* What config2json writes json2config reads back, given the memory, when the
\* config has a motd and a favicon; without them, which config2json allows,
\* json2config fails.
OwnReadBack ==
  \A config \in Configs :
    spDoc = OwnDocument(config) =>
      /\ spPc = "parsed" => spConfig = config
      /\ spPc = "failed" /\ spMemory => Unset \in {config.motd, config.favicon}

===============================================================================
