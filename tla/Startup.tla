-------------------------------- MODULE Startup --------------------------------
(***************************************************************************)
(* main of main.c up to its accept loop: the options, the favicon file,    *)
(* and the start of the queue, the pool and the network (network_init of   *)
(* network/network.c).                                                     *)
(***************************************************************************)
EXTENDS Integers, Sequences

CONSTANTS
  CommandLines,   \* sequences of options as getopt returns them, with arguments
  Defaults,       \* the settings without any option
  Atoi,           \* the value atoi gives to the argument of a number
  PortLimit       \* the number of ports

\* The letters of the options that set a setting.
Settings == {"a", "p", "M", "O", "m", "n"}

\* getopt returns the letters it is given and "?", and atoi an int.
ASSUME StartupAssumption ==
  /\ CommandLines \subseteq
       Seq([letter : Settings \cup {"i", "h", "?"}, argument : STRING])
  /\ \A line \in CommandLines : \A k \in DOMAIN line :
       line[k].letter \in {"p", "M", "O"} => Atoi[line[k].argument] \in Int
  /\ DOMAIN Defaults = Settings /\ Defaults["p"] \in 0 .. (PortLimit - 1)
  /\ PortLimit \in Nat \ {0}

VARIABLES
  suArgs,      \* the command line
  suNext,      \* the option getopt returns next
  suPc,        \* "options", "open", "read", "encode", "queue", "pool",
               \* "network", "bind", "listen", "stopper", and at the end
               \* "accepting" or "exited"
  suSettings,  \* main's locals and defcfg, by option
  suFavicon,   \* the file whose text favicon points to
  suBlocks,    \* the base64 texts that are allocated, one for each "i"
  suFiles,     \* how many files and sockets are open
  suBound,     \* the address and the port that the socket is bound to
  suStatus     \* the status the process ends with

suvars == <<suArgs, suNext, suPc, suSettings, suFavicon, suBlocks, suFiles,
            suBound, suStatus>>

Option(letter, argument) == [letter |-> letter, argument |-> argument]

NoFile == "none"
AnyAddress == "0.0.0.0"

SuInit ==
  /\ suArgs \in CommandLines
  /\ suNext = 1 /\ suPc = "options" /\ suSettings = Defaults
  /\ suFavicon = NoFile /\ suBlocks = {} /\ suFiles = 0
  /\ suBound = <<>> /\ suStatus = 0

-------------------------------------------------------------------------------
(* The options. *)

Current == suArgs[suNext]

\* (uint16_t)atoi
Port(argument) == Atoi[argument] % PortLimit

\* What an option with an argument sets its variable to.
Setting(option) ==
  CASE option.letter = "p" -> Port(option.argument)
    [] option.letter \in {"M", "O"} -> Atoi[option.argument]
    [] option.letter \in {"a", "m", "n"} -> option.argument

\* Mutation: only the first of several options counts.
SetOnce(option) ==
  IF suSettings[option.letter] = Defaults[option.letter]
    THEN [suSettings EXCEPT ![option.letter] = Setting(option)] ELSE suSettings

Set(option) == [suSettings EXCEPT ![option.letter] = Setting(option)]

SetOption ==
  /\ suPc = "options" /\ suNext <= Len(suArgs)
  /\ Current.letter \in Settings
  /\ suSettings' = Set(Current)
  /\ suNext' = suNext + 1
  /\ UNCHANGED <<suArgs, suPc, suFavicon, suBlocks, suFiles, suBound, suStatus>>

\* main returns, or exit is called; the process ends, with what is open and
\* allocated.
Exit(status) ==
  /\ suPc' = "exited" /\ suStatus' = status
  /\ UNCHANGED <<suArgs, suNext, suSettings, suFavicon, suBlocks, suFiles, suBound>>

\* The help, and an option that is not known.
HelpOption ==
  /\ suPc = "options" /\ suNext <= Len(suArgs)
  /\ \/ Current.letter = "h" /\ Exit(0)
     \/ Current.letter = "?" /\ Exit(1)

\* The favicon file is opened ...
OpenFavicon ==
  /\ suPc = "options" /\ suNext <= Len(suArgs) /\ Current.letter = "i"
  /\ \/ /\ suPc' = "read" /\ suFiles' = suFiles + 1
        /\ UNCHANGED <<suArgs, suNext, suSettings, suFavicon, suBlocks, suBound, suStatus>>
     \/ Exit(1)

\* ... read into a block as large as the file, and closed, ...
ReadFavicon ==
  /\ suPc = "read"
  /\ \/ /\ suPc' = "encode" /\ suFiles' = suFiles - 1
        /\ UNCHANGED <<suArgs, suNext, suSettings, suFavicon, suBlocks, suBound, suStatus>>
     \/ Exit(1)   \* no memory, or fewer bytes than ftell said

\* ... and encoded.  The text of an earlier file is lost.
EncodeFavicon ==
  /\ suPc = "encode"
  /\ \/ /\ suFavicon' = Current.argument
        /\ suBlocks' = suBlocks \cup {suNext}
        /\ suPc' = "options" /\ suNext' = suNext + 1
        /\ UNCHANGED <<suArgs, suSettings, suFiles, suBound, suStatus>>
     \/ Exit(1)

\* The settings are stored in defcfg.
OptionsEnd ==
  /\ suPc = "options" /\ suNext > Len(suArgs)
  /\ suPc' = "queue"
  /\ UNCHANGED <<suArgs, suNext, suSettings, suFavicon, suBlocks, suFiles, suBound, suStatus>>

-------------------------------------------------------------------------------
(* The start. *)

\* queue_create, socket, listen and the work that reads stdin.
StartStep(step, next, files) ==
  /\ suPc = step
  /\ \/ /\ suPc' = next /\ suFiles' = suFiles + files
        /\ UNCHANGED <<suArgs, suNext, suSettings, suFavicon, suBlocks, suBound, suStatus>>
     \/ Exit(1)

\* thrdpool_create: without memory main returns; without an admin thread exit(-1)
\* is called in it (thread_pool.c:200), of which the parent sees eight bits.
CreatePool == StartStep("pool", "network", 0) \/ (suPc = "pool" /\ Exit(255))

\* network_init binds the socket to every address, whatever addr is.
BindSocket ==
  /\ suPc = "bind"
  /\ \/ /\ suPc' = "listen" /\ suBound' = <<AnyAddress, suSettings["p"]>>
        /\ UNCHANGED <<suArgs, suNext, suSettings, suFavicon, suBlocks, suFiles, suStatus>>
     \/ Exit(1)

SuNext ==
  \/ SetOption \/ HelpOption
  \/ OpenFavicon \/ ReadFavicon \/ EncodeFavicon
  \/ OptionsEnd
  \/ StartStep("queue", "pool", 0)
  \/ CreatePool
  \/ StartStep("network", "bind", 1)
  \/ BindSocket
  \/ StartStep("listen", "stopper", 0) \/ StartStep("stopper", "accepting", 0)

SuSpec == SuInit /\ [][SuNext]_suvars

-------------------------------------------------------------------------------
(* Properties. *)

\* The places of the options with a letter.
Given(letter) == {k \in DOMAIN suArgs : suArgs[k].letter = letter}

\* The argument the last of them has.
LastGiven(letter) ==
  suArgs[CHOOSE k \in Given(letter) : \A j \in Given(letter) : j <= k].argument

\* Nothing but the listening socket stays open, and for each favicon that a
\* later one replaces a text is lost.
OneSocketOpen == suFiles = 1 /\ suBlocks = Given("i")

\* One that has stopped was asked for the help if its status is 0, and else met an
\* unknown option or a failure: behind "-h" or an unknown option nothing is read.
\* When the pool has stopped it no socket is open.  At most one file or socket is
\* left open, a favicon's file or the socket.
StoppedAsTold ==
  /\ \A k \in DOMAIN suArgs : k < suNext => suArgs[k].letter \notin {"h", "?"}
  /\ suStatus = 0 <=> suNext <= Len(suArgs) /\ Current.letter = "h"
  /\ suStatus = 255 => suNext > Len(suArgs) /\ suFiles = 0 /\ suBound = <<>>
  /\ suFiles # 0 => suFiles = 1 /\ (suNext <= Len(suArgs) => Current.letter = "i")

\* A server that accepts has the settings of the last option of each kind, or
\* else the default; it listens on their port, but whatever the address that "-a"
\* gives (main.c:235) on every address of the machine (network.c:24); and no
\* command line with "-h" or an unknown option comes that far.  One that does not
\* accept tells why.
StartedAsTold ==
  /\ suPc = "accepting" =>
       /\ \A letter \in DOMAIN Defaults :
            suSettings[letter] = IF Given(letter) = {} THEN Defaults[letter]
                                 ELSE Setting(Option(letter, LastGiven(letter)))
       /\ suFavicon = IF Given("i") = {} THEN NoFile ELSE LastGiven("i")
       /\ Given("h") = {} /\ Given("?") = {}
       /\ suSettings["p"] \in 0 .. (PortLimit - 1)
       /\ suBound = <<AnyAddress, suSettings["p"]>>
       /\ OneSocketOpen
  /\ suPc = "exited" => StoppedAsTold

===============================================================================
