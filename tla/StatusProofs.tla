----------------------------- MODULE StatusProofs -----------------------------
(***************************************************************************)
(* Proofs about the start of the server, for any command line, about the   *)
(* answer to a status request, for any text and any failures of malloc,    *)
(* about json2config, for any documents, and about the log, for any        *)
(* threads and sinks.                                                      *)
(***************************************************************************)
EXTENDS Startup, StatusReply, StatusParse, Log, ConnQueue, SequenceTheorems, FiniteSetTheorems,
        NaturalRecursion

-----------------------------------------------------------------------------
(* The start.                                                              *)

Letters == Settings \cup {"i", "h", "?"}
OptionType == [letter : Letters, argument : STRING]

\* Among the options before n the last with this letter is at k; there is none.
LastAt(args, k, letter, n) ==
  /\ k \in DOMAIN args /\ k < n /\ args[k].letter = letter
  /\ \A j \in DOMAIN args : k < j /\ j < n => args[j].letter # letter
NoneBefore(args, letter, n) == \A j \in DOMAIN args : j < n => args[j].letter # letter

\* A setting is that of its last option so far.
Up(letter) ==
  \/ NoneBefore(suArgs, letter, suNext) /\ suSettings[letter] = Defaults[letter]
  \/ \E k \in DOMAIN suArgs :
       LastAt(suArgs, k, letter, suNext) /\ suSettings[letter] = Setting(suArgs[k])

FaviconUp ==
  \/ NoneBefore(suArgs, "i", suNext) /\ suFavicon = NoFile
  \/ \E k \in DOMAIN suArgs :
       LastAt(suArgs, k, "i", suNext) /\ suFavicon = suArgs[k].argument

Behind == {"queue", "pool", "network", "bind", "listen", "stopper", "accepting"}

SuTypeOK ==
  /\ suArgs \in Seq(OptionType) /\ suArgs \in CommandLines
  /\ suNext \in 1 .. (Len(suArgs) + 1)
  /\ suPc \in {"options", "read", "encode", "exited"} \cup Behind
  /\ DOMAIN suSettings = Settings /\ suSettings["p"] \in 0 .. (PortLimit - 1)

\* What has been done where main is.
SuDone ==
  /\ suPc \in {"read", "encode"} => suNext <= Len(suArgs) /\ Current.letter = "i"
  /\ suPc \in Behind => suNext = Len(suArgs) + 1
  /\ IF suPc \in {"listen", "stopper", "accepting"}
       THEN suBound = <<AnyAddress, suSettings["p"]>> ELSE suBound = <<>>
  /\ suFiles = IF suPc \in {"read", "bind", "listen", "stopper", "accepting"} THEN 1 ELSE 0

SuOptions ==
  /\ \A letter \in Settings : Up(letter)
  /\ FaviconUp
  /\ NoneBefore(suArgs, "h", suNext) /\ NoneBefore(suArgs, "?", suNext)
  /\ suBlocks = {k \in DOMAIN suArgs : k < suNext /\ suArgs[k].letter = "i"}

SuInv == SuTypeOK /\ IF suPc = "exited" THEN StoppedAsTold ELSE SuDone /\ SuOptions

LEMMA SuBegins == SuInit => SuInv
<1>. SUFFICES ASSUME SuInit PROVE SuInv
  OBVIOUS
<1>1. suArgs \in Seq(OptionType) /\ suArgs \in CommandLines
  BY StartupAssumption DEF SuInit, OptionType, Letters
<1>2. Len(suArgs) \in Nat /\ DOMAIN suArgs = 1 .. Len(suArgs)
  BY <1>1, LenProperties
<1>3. SuTypeOK
  BY <1>1, <1>2, StartupAssumption DEF SuInit, SuTypeOK
<1>4. \A letter : NoneBefore(suArgs, letter, suNext)
  BY <1>2 DEF SuInit, NoneBefore
<1>5. SuOptions
  BY <1>2, <1>4 DEF SuInit, SuOptions, Up, FaviconUp
<1>6. SuDone
  BY DEF SuInit, SuDone, Behind
<1>. QED BY <1>3, <1>5, <1>6 DEF SuInv, SuInit

\* One option more: it is the last with its letter, the others are as before.
LEMMA OneMore ==
  ASSUME SuTypeOK, suNext <= Len(suArgs)
  PROVE  /\ suNext \in DOMAIN suArgs /\ suNext \in Nat /\ Current \in OptionType
         /\ suNext + 1 \in 1 .. (Len(suArgs) + 1)
         /\ LastAt(suArgs, suNext, Current.letter, suNext + 1)
         /\ \A letter : letter # Current.letter =>
              /\ NoneBefore(suArgs, letter, suNext) => NoneBefore(suArgs, letter, suNext + 1)
              /\ \A k : LastAt(suArgs, k, letter, suNext) => LastAt(suArgs, k, letter, suNext + 1)
         /\ {k \in DOMAIN suArgs : k < suNext + 1 /\ suArgs[k].letter = "i"} =
              {k \in DOMAIN suArgs : k < suNext /\ suArgs[k].letter = "i"}
              \cup (IF Current.letter = "i" THEN {suNext} ELSE {})
<1>1. /\ Len(suArgs) \in Nat /\ DOMAIN suArgs = 1 .. Len(suArgs)
      /\ suNext \in 1 .. (Len(suArgs) + 1)
  BY LenProperties DEF SuTypeOK
<1>2. suNext \in DOMAIN suArgs /\ suNext \in Nat /\ suNext + 1 \in 1 .. (Len(suArgs) + 1)
  BY <1>1
<1>3. Current \in OptionType
  BY <1>1, <1>2, ElementOfSeq DEF SuTypeOK, Current
<1>4. \A j \in DOMAIN suArgs : j < suNext + 1 <=> j < suNext \/ j = suNext
  BY <1>1
<1>5. LastAt(suArgs, suNext, Current.letter, suNext + 1)
  BY <1>1, <1>2 DEF LastAt, Current
<1>6. ASSUME NEW letter, letter # Current.letter
      PROVE  /\ NoneBefore(suArgs, letter, suNext) => NoneBefore(suArgs, letter, suNext + 1)
             /\ \A k : LastAt(suArgs, k, letter, suNext) => LastAt(suArgs, k, letter, suNext + 1)
  <2>1. NoneBefore(suArgs, letter, suNext) => NoneBefore(suArgs, letter, suNext + 1)
    BY <1>4, <1>6 DEF NoneBefore, Current
  <2>2. ASSUME NEW k, LastAt(suArgs, k, letter, suNext)
        PROVE  LastAt(suArgs, k, letter, suNext + 1)
    BY <1>4, <1>6, <2>2 DEF LastAt, Current
  <2>. QED BY <2>1, <2>2
<1>7. {k \in DOMAIN suArgs : k < suNext + 1 /\ suArgs[k].letter = "i"} =
        {k \in DOMAIN suArgs : k < suNext /\ suArgs[k].letter = "i"}
        \cup (IF Current.letter = "i" THEN {suNext} ELSE {})
  BY <1>2, <1>4 DEF Current
<1>. QED BY <1>2, <1>3, <1>5, <1>6, <1>7

LEMMA SetStep ==
  ASSUME SuInv, SetOption PROVE SuInv'
<1>. DEFINE l == Current.letter
<1>1. /\ suPc = "options" /\ suNext <= Len(suArgs) /\ l \in Settings
      /\ suSettings' = [suSettings EXCEPT ![l] = Setting(Current)]
      /\ suNext' = suNext + 1 /\ suPc' = suPc /\ suArgs' = suArgs
      /\ suFavicon' = suFavicon /\ suBlocks' = suBlocks /\ suFiles' = suFiles
      /\ suBound' = suBound
  BY DEF SetOption, Set
<1>2. SuTypeOK /\ SuDone /\ SuOptions
  BY <1>1 DEF SuInv
<1>3. /\ suNext \in DOMAIN suArgs /\ suNext \in Nat /\ Current \in OptionType
      /\ suNext + 1 \in 1 .. (Len(suArgs) + 1)
      /\ LastAt(suArgs, suNext, l, suNext + 1)
  BY <1>1, <1>2, OneMore
<1>4. \A letter : letter # l =>
        /\ NoneBefore(suArgs, letter, suNext) => NoneBefore(suArgs, letter, suNext + 1)
        /\ \A k : LastAt(suArgs, k, letter, suNext) => LastAt(suArgs, k, letter, suNext + 1)
  BY <1>1, <1>2, OneMore
<1>5. l # "i" /\ l # "h" /\ l # "?"
  BY <1>1 DEF Settings
<1>6. {k \in DOMAIN suArgs : k < suNext + 1 /\ suArgs[k].letter = "i"} =
        {k \in DOMAIN suArgs : k < suNext /\ suArgs[k].letter = "i"}
  <2>1. {k \in DOMAIN suArgs : k < suNext + 1 /\ suArgs[k].letter = "i"} =
          {k \in DOMAIN suArgs : k < suNext /\ suArgs[k].letter = "i"}
          \cup (IF Current.letter = "i" THEN {suNext} ELSE {})
    BY <1>1, <1>2, OneMore
  <2>. QED BY <1>5, <2>1
<1>. HIDE DEF l
<1>7. /\ DOMAIN suSettings' = Settings
      /\ \A letter \in Settings :
           suSettings'[letter] = IF letter = l THEN Setting(Current) ELSE suSettings[letter]
  BY <1>1, <1>2 DEF SuTypeOK
<1>8. suSettings'["p"] \in 0 .. (PortLimit - 1)
  <2>1. CASE l = "p"
    <3>1. Atoi[Current.argument] \in Int
      BY <1>1, <1>2, <1>3, <2>1, StartupAssumption DEF SuTypeOK, Current, l
    <3>2. Setting(Current) = Atoi[Current.argument] % PortLimit
      BY <2>1 DEF Setting, Port, l
    <3>3. Atoi[Current.argument] % PortLimit \in 0 .. (PortLimit - 1)
      BY <3>1, StartupAssumption
    <3>. QED BY <1>7, <2>1, <3>2, <3>3 DEF Settings
  <2>2. CASE l # "p"
    BY <1>2, <1>7, <2>2 DEF SuTypeOK, Settings
  <2>. QED BY <2>1, <2>2
<1>9. SuTypeOK'
  BY <1>1, <1>2, <1>3, <1>7, <1>8 DEF SuTypeOK
<1>10. ASSUME NEW letter \in Settings PROVE Up(letter)'
  <2>1. CASE letter = l
    <3>1. suSettings'[letter] = Setting(suArgs[suNext])
      BY <1>7, <2>1 DEF Current
    <3>. QED BY <1>1, <1>3, <2>1, <3>1 DEF Up
  <2>2. CASE letter # l
    <3>1. suSettings'[letter] = suSettings[letter]
      BY <1>7, <2>2
    <3>2. Up(letter)
      BY <1>2 DEF SuOptions
    <3>. QED BY <1>1, <1>4, <2>2, <3>1, <3>2 DEF Up
  <2>. QED BY <2>1, <2>2
<1>11. FaviconUp' /\ NoneBefore(suArgs, "h", suNext + 1) /\ NoneBefore(suArgs, "?", suNext + 1)
  BY <1>1, <1>2, <1>4, <1>5 DEF SuOptions, FaviconUp
<1>12. SuOptions'
  BY <1>1, <1>2, <1>6, <1>10, <1>11 DEF SuOptions
<1>13. SuDone'
  BY <1>1, <1>2 DEF SuDone, Behind
<1>. QED BY <1>1, <1>9, <1>12, <1>13 DEF SuInv

\* A step that reads no option and sets no setting.
LEMMA NoOption ==
  ASSUME SuTypeOK, SuOptions, suPc' \in {"options", "read", "encode", "exited"} \cup Behind,
         UNCHANGED <<suArgs, suNext, suSettings, suFavicon, suBlocks>>
  PROVE  SuTypeOK' /\ SuOptions'
<1>1. SuTypeOK'
  BY DEF SuTypeOK
<1>2. \A letter \in Settings : Up(letter)'
  BY DEF SuOptions, Up
<1>3. FaviconUp'
  BY DEF SuOptions, FaviconUp
<1>4. SuOptions'
  BY <1>2, <1>3 DEF SuOptions
<1>. QED BY <1>1, <1>4

\* The process ends where main is, with the status of the failure.
LEMMA ExitStep ==
  ASSUME SuInv, SuNext, NEW status, Exit(status) PROVE SuInv'
<1>1. /\ suPc' = "exited" /\ suStatus' = status /\ suArgs' = suArgs /\ suNext' = suNext
      /\ suFiles' = suFiles /\ suBound' = suBound /\ suSettings' = suSettings
  BY DEF Exit
<1>2. \/ suPc = "options" /\ suNext <= Len(suArgs) /\ Current.letter = "h" /\ status = 0
      \/ suPc = "options" /\ suNext <= Len(suArgs) /\ Current.letter \in {"?", "i"} /\ status = 1
      \/ suPc \in {"read", "encode"} \cup Behind /\ status = 1
      \/ suPc = "pool" /\ status = 255
  BY <1>1 DEF SuNext, SetOption, HelpOption, OpenFavicon, ReadFavicon, EncodeFavicon,
              OptionsEnd, StartStep, CreatePool, BindSocket, Exit, Behind
<1>3. SuTypeOK /\ SuDone /\ SuOptions
  BY <1>2 DEF SuInv, Behind
<1>4. \A k \in DOMAIN suArgs : k < suNext => suArgs[k].letter \notin {"h", "?"}
  BY <1>3 DEF SuOptions, NoneBefore
<1>5. suPc \in Behind => suNext > Len(suArgs)
  BY <1>3, LenProperties DEF SuDone, SuTypeOK
<1>6. suPc \in {"read", "encode"} => suNext <= Len(suArgs) /\ Current.letter = "i"
  BY <1>3 DEF SuDone
<1>7. Len(suArgs) \in Nat /\ suNext \in Nat
  BY <1>3, LenProperties DEF SuTypeOK
<1>8. suFiles # 0 => suFiles = 1 /\ suPc \in {"read"} \cup Behind
  BY <1>3 DEF SuDone, Behind
<1>9. suPc = "pool" => suFiles = 0 /\ suBound = <<>> /\ suNext > Len(suArgs)
  BY <1>3, <1>5 DEF SuDone, Behind
<1>10. status = 0 <=> suNext <= Len(suArgs) /\ Current.letter = "h"
  BY <1>2, <1>5, <1>6, <1>7 DEF Behind
<1>11. suFiles # 0 => suFiles = 1 /\ (suNext <= Len(suArgs) => Current.letter = "i")
  BY <1>5, <1>6, <1>7, <1>8
<1>12. status = 255 => suPc = "pool"
  BY <1>2
<1>13. Current' = Current
  BY <1>1 DEF Current
<1>14. StoppedAsTold'
  BY <1>1, <1>4, <1>9, <1>10, <1>11, <1>12, <1>13 DEF StoppedAsTold
<1>15. SuTypeOK'
  BY <1>1, <1>3 DEF SuTypeOK
<1>. QED BY <1>1, <1>14, <1>15 DEF SuInv

LEMMA EncodeStep ==
  ASSUME SuInv, EncodeFavicon PROVE SuInv'
<1>1. CASE Exit(1)
  BY <1>1, ExitStep DEF SuNext
<1>2. CASE ~Exit(1)
  <2>1. /\ suPc = "encode" /\ suPc' = "options" /\ suNext' = suNext + 1
        /\ suFavicon' = Current.argument /\ suBlocks' = suBlocks \cup {suNext}
        /\ suArgs' = suArgs /\ suSettings' = suSettings /\ suFiles' = suFiles
        /\ suBound' = suBound
    BY <1>2 DEF EncodeFavicon
  <2>2. SuTypeOK /\ SuDone /\ SuOptions
    BY <2>1 DEF SuInv
  <2>3. suNext <= Len(suArgs) /\ Current.letter = "i"
    BY <2>1, <2>2 DEF SuDone
  <2>4. /\ suNext \in DOMAIN suArgs /\ suNext + 1 \in 1 .. (Len(suArgs) + 1)
        /\ LastAt(suArgs, suNext, "i", suNext + 1)
    BY <2>2, <2>3, OneMore
  <2>5. \A letter : letter # "i" =>
          /\ NoneBefore(suArgs, letter, suNext) => NoneBefore(suArgs, letter, suNext + 1)
          /\ \A k : LastAt(suArgs, k, letter, suNext) => LastAt(suArgs, k, letter, suNext + 1)
    BY <2>2, <2>3, OneMore
  <2>6. {k \in DOMAIN suArgs : k < suNext + 1 /\ suArgs[k].letter = "i"} =
          {k \in DOMAIN suArgs : k < suNext /\ suArgs[k].letter = "i"} \cup {suNext}
    BY <2>2, <2>3, OneMore
  <2>7. SuTypeOK'
    BY <2>1, <2>2, <2>4 DEF SuTypeOK
  <2>8. FaviconUp'
    BY <2>1, <2>4 DEF FaviconUp, Current
  <2>9. ASSUME NEW letter \in Settings PROVE Up(letter)'
    <3>1. letter # "i" /\ Up(letter)
      BY <2>2 DEF Settings, SuOptions
    <3>. QED BY <2>1, <2>5, <3>1 DEF Up
  <2>10. NoneBefore(suArgs, "h", suNext + 1) /\ NoneBefore(suArgs, "?", suNext + 1)
    BY <2>2, <2>5 DEF SuOptions
  <2>11. SuOptions'
    BY <2>1, <2>2, <2>6, <2>8, <2>9, <2>10 DEF SuOptions
  <2>12. SuDone'
    BY <2>1, <2>2 DEF SuDone, Behind
  <2>. QED BY <2>1, <2>7, <2>11, <2>12 DEF SuInv
<1>. QED BY <1>1, <1>2

\* The other steps: main goes on, or exits.
LEMMA StartSteps ==
  ASSUME SuInv, SuNext, ~SetOption, ~EncodeFavicon PROVE SuInv'
<1>1. CASE \E status : Exit(status)
  BY <1>1, ExitStep
<1>2. CASE ~\E status : Exit(status)
  <2>. DEFINE Same == UNCHANGED <<suArgs, suNext, suSettings, suFavicon, suBlocks>>
  <2>1. ASSUME Same, suPc # "exited",
               suPc' \in {"options", "read", "encode"} \cup Behind,
               SuDone => SuDone'
        PROVE  SuInv'
    <3>1. SuTypeOK /\ SuDone /\ SuOptions
      BY <2>1 DEF SuInv
    <3>2. SuTypeOK' /\ SuOptions'
      BY <2>1, <3>1, NoOption
    <3>. QED BY <2>1, <3>1, <3>2 DEF SuInv, Behind
  <2>2. CASE OpenFavicon
    <3>1. SuDone => SuDone'
      BY <1>2, <2>2 DEF OpenFavicon, SuDone, Behind, Current
    <3>. QED BY <1>2, <2>1, <2>2, <3>1 DEF OpenFavicon
  <2>3. CASE ReadFavicon
    <3>1. SuDone => SuDone'
      BY <1>2, <2>3 DEF ReadFavicon, SuDone, Behind, Current
    <3>. QED BY <1>2, <2>1, <2>3, <3>1 DEF ReadFavicon
  <2>4. CASE OptionsEnd
    <3>1. SuTypeOK
      BY DEF SuInv
    <3>2. suNext = Len(suArgs) + 1
      BY <2>4, <3>1, LenProperties DEF OptionsEnd, SuTypeOK
    <3>3. SuDone => SuDone'
      BY <2>4, <3>2 DEF OptionsEnd, SuDone, Behind
    <3>. QED BY <2>1, <2>4, <3>3 DEF OptionsEnd, Behind
  <2>5. CASE BindSocket
    <3>1. SuDone => SuDone'
      BY <1>2, <2>5 DEF BindSocket, SuDone, Behind
    <3>. QED BY <1>2, <2>1, <2>5, <3>1 DEF BindSocket, Behind
  <2>6. ASSUME NEW step, NEW goesTo, NEW files, StartStep(step, goesTo, files),
               <<step, goesTo, files>> \in
                 {<<"queue", "pool", 0>>, <<"pool", "network", 0>>, <<"network", "bind", 1>>,
                  <<"listen", "stopper", 0>>, <<"stopper", "accepting", 0>>}
        PROVE  SuInv'
    <3>1. SuDone => SuDone'
      BY <1>2, <2>6 DEF StartStep, SuDone, Behind
    <3>. QED BY <1>2, <2>1, <2>6, <3>1 DEF StartStep, Behind
  <2>7. ~HelpOption
    BY <1>2 DEF HelpOption
  <2>8. CASE StartStep("queue", "pool", 0)
    BY <2>6, <2>8
  <2>9. CASE CreatePool
    BY <1>2, <2>6, <2>9 DEF CreatePool
  <2>10. CASE StartStep("network", "bind", 1)
    BY <2>6, <2>10
  <2>11. CASE StartStep("listen", "stopper", 0)
    BY <2>6, <2>11
  <2>12. CASE StartStep("stopper", "accepting", 0)
    BY <2>6, <2>12
  <2>. QED BY <2>2, <2>3, <2>4, <2>5, <2>7, <2>8, <2>9, <2>10, <2>11, <2>12 DEF SuNext
<1>. QED BY <1>1, <1>2

LEMMA SuStep == SuInv /\ [SuNext]_suvars => SuInv'
<1>. SUFFICES ASSUME SuInv, [SuNext]_suvars PROVE SuInv'
  OBVIOUS
<1>1. CASE UNCHANGED suvars
  <2>1. /\ suArgs' = suArgs /\ suNext' = suNext /\ suSettings' = suSettings
        /\ suFavicon' = suFavicon /\ suBlocks' = suBlocks /\ suPc' = suPc
        /\ suFiles' = suFiles /\ suBound' = suBound
    BY <1>1 DEF suvars
  <2>2. SuDone => SuDone'
    BY <2>1 DEF SuDone, Current
  <2>3. SuTypeOK' /\ (SuOptions => SuOptions')
    BY <2>1, NoOption DEF SuInv, SuTypeOK
  <2>4. StoppedAsTold => StoppedAsTold'
    BY <1>1, <2>1 DEF StoppedAsTold, Current, suvars
  <2>. QED BY <2>1, <2>2, <2>3, <2>4 DEF SuInv
<1>. QED BY <1>1, SetStep, EncodeStep, StartSteps

\* At the end the last option before suNext is the last of all.
LEMMA LastOfAll ==
  ASSUME SuTypeOK, suNext = Len(suArgs) + 1, NEW k, NEW letter,
         LastAt(suArgs, k, letter, suNext)
  PROVE  Given(letter) # {} /\ LastGiven(letter) = suArgs[k].argument
<1>1. Len(suArgs) \in Nat /\ DOMAIN suArgs = 1 .. Len(suArgs)
  BY LenProperties DEF SuTypeOK
<1>2. k \in Given(letter) /\ \A j \in Given(letter) : j <= k
  BY <1>1 DEF LastAt, Given
<1>3. \A i \in Given(letter) : (\A j \in Given(letter) : j <= i) => i = k
  BY <1>1, <1>2 DEF Given
<1>4. (CHOOSE i \in Given(letter) : \A j \in Given(letter) : j <= i) = k
  BY <1>2, <1>3
<1>. QED BY <1>2, <1>4 DEF LastGiven

LEMMA NoneAtAll ==
  ASSUME SuTypeOK, suNext = Len(suArgs) + 1, NEW letter, NoneBefore(suArgs, letter, suNext)
  PROVE  Given(letter) = {}
<1>1. Len(suArgs) \in Nat /\ DOMAIN suArgs = 1 .. Len(suArgs)
  BY LenProperties DEF SuTypeOK
<1>. QED BY <1>1 DEF NoneBefore, Given

\* A server that accepts runs with the settings of the last option of each kind,
\* for every command line; one that has stopped has the status of what stopped it.
THEOREM ServerStartsAsTold == SuSpec => []StartedAsTold
<1>1. SuInv => StartedAsTold
  <2>. SUFFICES ASSUME SuInv, suPc = "accepting" PROVE StartedAsTold
    BY DEF StartedAsTold, SuInv
  <2>1. SuTypeOK /\ SuDone /\ SuOptions
    BY DEF SuInv
  <2>2. suNext = Len(suArgs) + 1
    BY <2>1 DEF SuDone, Behind
  <2>3. ASSUME NEW letter \in DOMAIN Defaults
        PROVE  suSettings[letter] = IF Given(letter) = {} THEN Defaults[letter]
                                    ELSE Setting(Option(letter, LastGiven(letter)))
    <3>1. Up(letter)
      BY <2>1, <2>3, StartupAssumption DEF SuOptions
    <3>2. CASE NoneBefore(suArgs, letter, suNext) /\ suSettings[letter] = Defaults[letter]
      BY <2>1, <2>2, <3>2, NoneAtAll
    <3>3. ASSUME NEW k \in DOMAIN suArgs, LastAt(suArgs, k, letter, suNext),
                 suSettings[letter] = Setting(suArgs[k])
          PROVE  suSettings[letter] = IF Given(letter) = {} THEN Defaults[letter]
                                      ELSE Setting(Option(letter, LastGiven(letter)))
      <4>1. Given(letter) # {} /\ LastGiven(letter) = suArgs[k].argument
        BY <2>1, <2>2, <3>3, LastOfAll
      <4>2. suArgs[k] \in OptionType /\ suArgs[k].letter = letter
        BY <2>1, <3>3, ElementOfSeq, LenProperties DEF SuTypeOK, LastAt
      <4>3. suArgs[k] = Option(letter, LastGiven(letter))
        BY <4>1, <4>2 DEF OptionType, Option
      <4>. QED BY <3>3, <4>1, <4>3
    <3>. QED BY <3>1, <3>2, <3>3 DEF Up
  <2>4. suFavicon = IF Given("i") = {} THEN NoFile ELSE LastGiven("i")
    <3>1. CASE NoneBefore(suArgs, "i", suNext) /\ suFavicon = NoFile
      BY <2>1, <2>2, <3>1, NoneAtAll
    <3>2. ASSUME NEW k \in DOMAIN suArgs, LastAt(suArgs, k, "i", suNext),
                 suFavicon = suArgs[k].argument
          PROVE  suFavicon = IF Given("i") = {} THEN NoFile ELSE LastGiven("i")
      BY <2>1, <2>2, <3>2, LastOfAll
    <3>. QED BY <2>1, <3>1, <3>2 DEF SuOptions, FaviconUp
  <2>5. Given("h") = {} /\ Given("?") = {}
    BY <2>1, <2>2, NoneAtAll DEF SuOptions
  <2>6. suBound = <<AnyAddress, suSettings["p"]>> /\ suSettings["p"] \in 0 .. (PortLimit - 1)
    BY <2>1 DEF SuDone, SuTypeOK
  <2>7. OneSocketOpen
    <3>1. \A k \in DOMAIN suArgs : k < suNext
      BY <2>1, <2>2, LenProperties DEF SuTypeOK
    <3>2. suBlocks = Given("i")
      BY <2>1, <3>1 DEF SuOptions, Given
    <3>. QED BY <2>1, <3>2 DEF SuDone, OneSocketOpen
  <2>. QED BY <2>3, <2>4, <2>5, <2>6, <2>7 DEF StartedAsTold
<1>. QED BY <1>1, SuBegins, SuStep, PTL DEF SuSpec


-----------------------------------------------------------------------------
(* The answer: what is allocated.                                          *)

\* What may be allocated where the answer is; the favicon's buffer stays.
MayHave ==
  ({"favicon"} \cap srSet) \cup
  CASE srPc = "fill" -> {"doc", "chunk", "secondChunk"}
    [] srPc \in {"text", "scratch"} -> {"json"}
    [] srPc = "packet" -> {"json", "scratch"}
    [] srPc = "data" -> {"json", "scratch", "packet"}
    [] srPc = "send" -> {"json", "packet", "data"}
    [] OTHER -> {}

SrHeapInv == srHeap \subseteq MayHave

LEMMA SrHeapStep == SrHeapInv /\ [SrNext]_srvars => SrHeapInv'
<1>. SUFFICES ASSUME SrHeapInv, [SrNext]_srvars PROVE SrHeapInv'
  OBVIOUS
<1>1. CASE MallocFavicon
  BY <1>1 DEF MallocFavicon, SrHeapInv, MayHave
<1>2. CASE NewDoc
  BY <1>2 DEF NewDoc, SrHeapInv, MayHave
<1>3. CASE Fill
  <2>1. srPc = "fill" /\ srPc' = srPc /\ srSet' = srSet
    BY <1>3 DEF Fill
  <2>2. srHeap' \subseteq srHeap \cup {"chunk", "secondChunk"}
    BY <1>3 DEF Fill
  <2>. QED BY <2>1, <2>2 DEF SrHeapInv, MayHave
<1>4. CASE Write
  BY <1>4 DEF Write, WithoutDoc, SrHeapInv, MayHave
<1>5. CASE CopyText
  BY <1>5 DEF CopyText, SrHeapInv, MayHave
<1>6. CASE MeasureText
  BY <1>6 DEF MeasureText, SrHeapInv, MayHave
<1>7. CASE MallocReply
  BY <1>7 DEF MallocReply, FreedOnFailure, SrHeapInv, MayHave
<1>8. CASE SendReply
  BY <1>8 DEF SendReply, SrHeapInv, MayHave
<1>9. CASE ReplyError
  BY <1>9 DEF ReplyError, SrHeapInv, MayHave
<1>10. CASE UNCHANGED srvars
  BY <1>10 DEF srvars, SrHeapInv, MayHave
<1>. QED BY <1>1, <1>2, <1>3, <1>4, <1>5, <1>6, <1>7, <1>8, <1>9, <1>10 DEF SrNext

\* Every answer loses the buffer of its favicon, and nothing else, wherever a
\* malloc, the text's length or the connection ends it.
THEOREM FaviconAloneLeaks == SrSpec => []OnlyFaviconLeaks
<1>1. SrInit => SrHeapInv
  BY DEF SrInit, SrHeapInv, MayHave
<1>2. SrHeapInv => OnlyFaviconLeaks
  BY DEF SrHeapInv, MayHave, OnlyFaviconLeaks
<1>. QED BY <1>1, <1>2, SrHeapStep, PTL DEF SrSpec

-----------------------------------------------------------------------------
(* The answer: its members.                                                *)

\* The values that the calls from the n-th to the sample's key still take.
Needs == <<15, 14, 13, 12, 11, 10, 9, 7, 5, 3, 1, 0>>

\* What the n-th call adds to an object when nothing is NULL.
Adds(n) ==
  IF Calls[n].object # None THEN {Calls[n].name}
  ELSE IF Calls[n].name \in DOMAIN AddedWithKey THEN {AddedWithKey[Calls[n].name].member}
  ELSE {}

\* What the n-th call needs not to be NULL.
Uses(n) ==
  (IF Calls[n].object # None THEN {Calls[n].object} ELSE {}) \cup
  (IF Calls[n].name \in DOMAIN AddedWithKey
   THEN {AddedWithKey[Calls[n].name].object, AddedWithKey[Calls[n].name].member} ELSE {})

Always == {"version", "players", "name", "protocol", "max", "online", "sample"}

\* The names of the calls before the n-th, but for the last two.
Names(n) == {Calls[i].name : i \in {j \in 1 .. 11 : j < n}}

LEMMA HowMany == Len(Calls) = 13
BY DEF Calls

LEMMA EachName ==
  /\ Calls[1].name = "root" /\ Calls[2].name = "version" /\ Calls[3].name = "players"
  /\ Calls[4].name = "sample" /\ Calls[5].name = "versionKey"
  /\ Calls[6].name = "playersKey" /\ Calls[7].name = "name"
  /\ Calls[8].name = "protocol" /\ Calls[9].name = "max" /\ Calls[10].name = "online"
  /\ Calls[11].name = "sampleKey" /\ Calls[12].name = "description"
  /\ Calls[13].name = "favicon"
BY DEF Calls, Call

LEMMA EachValue ==
  /\ Calls[1].values = 1 /\ Calls[2].values = 1 /\ Calls[3].values = 1
  /\ Calls[4].values = 1 /\ Calls[5].values = 1 /\ Calls[6].values = 1
  /\ Calls[7].values = 2 /\ Calls[8].values = 2 /\ Calls[9].values = 2
  /\ Calls[10].values = 2 /\ Calls[11].values = 1 /\ Calls[12].values = 2
  /\ Calls[13].values = 2
BY DEF Calls, Call

LEMMA EachObject ==
  /\ Calls[1].object = None /\ Calls[2].object = None /\ Calls[3].object = None
  /\ Calls[4].object = None /\ Calls[5].object = None /\ Calls[6].object = None
  /\ Calls[7].object = "version" /\ Calls[8].object = "version"
  /\ Calls[9].object = "players" /\ Calls[10].object = "players"
  /\ Calls[11].object = None /\ Calls[12].object = "root"
  /\ Calls[13].object = "root"
BY DEF Calls, Call

LEMMA EachKey ==
  /\ DOMAIN AddedWithKey = {"versionKey", "playersKey", "sampleKey"}
  /\ AddedWithKey["versionKey"] = [object |-> "root", member |-> "version"]
  /\ AddedWithKey["playersKey"] = [object |-> "root", member |-> "players"]
  /\ AddedWithKey["sampleKey"] = [object |-> "players", member |-> "sample"]
BY DEF AddedWithKey

LEMMA EachUse ==
  /\ Uses(1) = {} /\ Uses(2) = {} /\ Uses(3) = {} /\ Uses(4) = {}
  /\ Uses(5) = {"root", "version"} /\ Uses(6) = {"root", "players"}
  /\ Uses(7) = {"version"} /\ Uses(8) = {"version"} /\ Uses(9) = {"players"}
  /\ Uses(10) = {"players"} /\ Uses(11) = {"players", "sample"}
  /\ Uses(12) = {"root"} /\ Uses(13) = {"root"}
BY EachName, EachObject, EachKey DEF Uses, None

LEMMA EachAdd ==
  /\ Adds(1) = {} /\ Adds(2) = {} /\ Adds(3) = {} /\ Adds(4) = {}
  /\ Adds(5) = {"version"} /\ Adds(6) = {"players"} /\ Adds(7) = {"name"}
  /\ Adds(8) = {"protocol"} /\ Adds(9) = {"max"} /\ Adds(10) = {"online"}
  /\ Adds(11) = {"sample"} /\ Adds(12) = {"description"} /\ Adds(13) = {"favicon"}
BY EachName, EachObject, EachKey DEF Adds, None

LEMMA EachNeed ==
  /\ Needs[1] = 15 /\ Needs[2] = 14 /\ Needs[3] = 13 /\ Needs[4] = 12
  /\ Needs[5] = 11 /\ Needs[6] = 10 /\ Needs[7] = 9 /\ Needs[8] = 7 /\ Needs[9] = 5
  /\ Needs[10] = 3 /\ Needs[11] = 1 /\ Needs[12] = 0
BY DEF Needs

LEMMA NeedsAre ==
  ASSUME NEW n \in 1 .. 11
  PROVE  /\ Needs[n] \in Nat /\ Needs[n + 1] \in Nat /\ Calls[n].values \in Nat
         /\ Needs[n] = Needs[n + 1] + Calls[n].values
<1>1. CASE n \in 1 .. 6
  BY <1>1, EachNeed, EachValue
<1>2. CASE n \in 7 .. 11
  BY <1>2, EachNeed, EachValue
<1>. QED BY <1>1, <1>2

LEMMA UsesAre ==
  ASSUME NEW n \in 1 .. 13
  PROVE  /\ Uses(n) \subseteq Names(n)
         /\ n # 1 => Calls[n].name # "root"
         /\ Calls[n].values \in 1 .. 2
<1>1. n \in 1 .. 4 \/ n \in 5 .. 11 \/ n \in {12, 13}
  OBVIOUS
<1>2. \A k \in 1 .. 11 : k < n => Calls[k].name \in Names(n)
  BY DEF Names
<1>3. /\ n > 1 => "root" \in Names(n)
      /\ n > 2 => "version" \in Names(n)
      /\ n > 3 => "players" \in Names(n)
      /\ n > 4 => "sample" \in Names(n)
  BY <1>2, EachName
<1>4. n # 1 => Calls[n].name # "root"
  BY EachName, <1>1
<1>5. Calls[n].values \in 1 .. 2
  BY EachValue, <1>1
<1>6. Uses(n) \subseteq Names(n)
  <2>1. CASE n \in 1 .. 4
    BY <2>1, EachUse
  <2>2. CASE n \in 5 .. 11
    BY <1>3, <2>2, EachUse
  <2>3. CASE n \in {12, 13}
    BY <1>3, <2>3, EachUse
  <2>. QED BY <1>1, <2>1, <2>2, <2>3
<1>. QED BY <1>4, <1>5, <1>6

LEMMA AddsAre ==
  /\ \A n \in 1 .. 11 : /\ Adds(n) \subseteq Always
                        /\ Calls[n].name \notin {"description", "favicon"}
  /\ \A m \in Always : \E n \in 1 .. 11 : m \in Adds(n)
  /\ Adds(12) = {"description"} /\ Adds(13) = {"favicon"}
  /\ Calls[12].name = "description" /\ Calls[13].name = "favicon"
<1>1. \A n \in 1 .. 11 : Adds(n) \subseteq Always
  BY EachAdd DEF Always
<1>2. \A n \in 1 .. 11 : Calls[n].name \notin {"description", "favicon"}
  BY EachName
<1>3. \A m \in Always : \E n \in 1 .. 11 : m \in Adds(n)
  BY EachAdd DEF Always
<1>. QED BY <1>1, <1>2, <1>3, EachAdd, EachName

SrTypeOK ==
  /\ srSet \subseteq {"description", "favicon"}
  /\ srStep \in 1 .. 14 /\ srRoom \in Nat
  /\ srChunk \in Nat /\ (srChunk = 0 \/ srChunk >= 15)
  /\ srPc \in {"favicon", "doc", "fill", "text", "scratch", "packet", "data", "send",
               "answered", "closed", "error"}

\* With a root nothing is missing of what the calls so far add: the first chunk
\* has room for all but the last two.
Filled ==
  /\ srMembers \subseteq Always \cup srSet
  /\ srStep = 1 => srMade = {} /\ srRoom = 0 /\ srChunk = 0
  /\ "root" \in srMade =>
       /\ Names(srStep) \subseteq srMade
       /\ \A n \in 1 .. 11 : n < srStep => Adds(n) \subseteq srMembers
       /\ \A n \in {12, 13} : n < srStep /\ ~srRefused /\ Calls[n].name \in srSet
                                => Adds(n) \subseteq srMembers
       /\ srStep \in 2 .. 12 => srRoom >= Needs[srStep]

SrDone ==
  /\ srPc \in {"favicon", "doc"} => srStep = 1
  /\ srPc \in {"text", "scratch", "packet", "data", "send", "answered"} =>
       srStep = 14 /\ "root" \in srMade
  /\ srPc = "answered" => srSent = Reached

\* A text as long as the array is all that strcpy runs over.
PastByOne ==
  /\ srLength \in Nat /\ srPast \in Nat
  /\ srPc \in {"favicon", "doc", "fill", "text"} => srPast = 0
  /\ srPast > 0 => srPast = 1 /\ srLength = TextSize

SrInv == SrTypeOK /\ Filled /\ SrDone /\ PastByOne

LEMMA FillFills ==
  ASSUME SrInv, Fill PROVE SrTypeOK' /\ Filled'
<1>. DEFINE n == srStep
            call == Calls[srStep]
<1>1. n \in 1 .. 13 /\ srStep' = n + 1 /\ srPc' = srPc /\ srSet' = srSet
  <2>1. /\ srStep <= Len(Calls) /\ srStep' = srStep + 1
        /\ srPc' = srPc /\ srSet' = srSet
    BY DEF Fill
  <2>2. srStep \in 1 .. 14
    BY DEF SrInv, SrTypeOK
  <2>. QED BY <2>1, <2>2, HowMany
<1>2. /\ Uses(n) \subseteq Names(n) /\ (n # 1 => call.name # "root")
      /\ call.values \in 1 .. 2
  BY <1>1, UsesAre
<1>3. Members(call) \subseteq srMembers \cup Adds(n)
  BY DEF Members, Adds
<1>4. Uses(n) \subseteq srMade => Members(call) = srMembers \cup Adds(n)
  BY DEF Members, Adds, Uses
<1>5. NextChunk \in Nat /\ NextChunk >= 15
  BY StatusReplyAssumption DEF NextChunk, SrInv, SrTypeOK
<1>6. Asks(call) => Adds(n) \subseteq Always \cup srSet
  <2>1. CASE n \in 1 .. 11
    BY <2>1, AddsAre
  <2>2. CASE n \in {12, 13}
    BY <2>2, AddsAre DEF Asks
  <2>. QED BY <1>1, <2>1, <2>2
<1>7. \/ /\ ~Asks(call)
         /\ srRoom' = srRoom /\ srChunk' = srChunk /\ srMade' = srMade
         /\ srMembers' = srMembers /\ srRefused' = srRefused
      \/ /\ Asks(call) /\ srRoom >= call.values /\ srRoom' = srRoom - call.values
         /\ srMade' = srMade \cup {call.name} /\ srMembers' = Members(call)
         /\ srChunk' = srChunk /\ srRefused' = srRefused
      \/ /\ Asks(call) /\ srRoom < call.values /\ srRoom' = NextChunk - call.values
         /\ srMade' = srMade \cup {call.name} /\ srMembers' = Members(call)
         /\ srChunk' = 2 * NextChunk + 1 /\ srRefused' = srRefused
      \/ /\ Asks(call) /\ srRoom < call.values /\ srRefused' = TRUE
         /\ srRoom' = srRoom /\ srChunk' = srChunk /\ srMade' = srMade
         /\ srMembers' = srMembers
  BY DEF Fill
<1>. HIDE DEF call
<1>8. SrTypeOK'
  <2>1. srRoom' \in Nat /\ srChunk' \in Nat /\ (srChunk' = 0 \/ srChunk' >= 15)
    BY <1>2, <1>5, <1>7 DEF SrInv, SrTypeOK
  <2>. QED BY <1>1, <2>1 DEF SrInv, SrTypeOK
<1>9. srMembers' \subseteq Always \cup srSet
  BY <1>3, <1>6, <1>7 DEF SrInv, Filled
<1>10. ASSUME "root" \in srMade'
       PROVE  /\ Names(n + 1) \subseteq srMade'
              /\ \A k \in 1 .. 11 : k < n + 1 => Adds(k) \subseteq srMembers'
              /\ \A k \in {12, 13} : k < n + 1 /\ ~srRefused' /\ Calls[k].name \in srSet
                                       => Adds(k) \subseteq srMembers'
              /\ n + 1 \in 2 .. 12 => srRoom' >= Needs[n + 1]
  <2>1. n = 1 \/ "root" \in srMade
    BY <1>2, <1>7, <1>10
  <2>2. Uses(n) \subseteq srMade
    <3>1. CASE n = 1
      <4>1. Names(1) = {}
        BY DEF Names
      <4>. QED BY <1>2, <3>1, <4>1
    <3>. QED BY <1>2, <2>1, <3>1 DEF SrInv, Filled
  <2>3. Names(n + 1) = Names(n) \cup (IF n \in 1 .. 11 THEN {call.name} ELSE {})
    BY <1>1 DEF Names, call
  <2>4. Names(n) \subseteq srMade
    <3>1. CASE n = 1
      <4>1. Names(1) = {}
        BY DEF Names
      <4>. QED BY <3>1, <4>1
    <3>. QED BY <2>1, <3>1 DEF SrInv, Filled
  <2>5. \A k \in 1 .. 13 : k < n + 1 <=> k < n \/ k = n
    BY <1>1
  <2>6. srMade \subseteq srMade' /\ srMembers \subseteq srMembers'
    BY <1>7 DEF Members
  <2>7. /\ \A k \in 1 .. 11 : k < n => Adds(k) \subseteq srMembers
        /\ \A k \in {12, 13} : k < n /\ ~srRefused /\ Calls[k].name \in srSet
                                 => Adds(k) \subseteq srMembers
    BY <1>1, <2>1 DEF SrInv, Filled
  <2>8. CASE n \in 1 .. 11
    <3>1. Asks(call)
      BY <2>2, <2>8, AddsAre DEF Asks, Uses, call
    <3>2. /\ Needs[n] \in Nat /\ Needs[n + 1] \in Nat /\ call.values \in Nat
          /\ Needs[n] = Needs[n + 1] + call.values
      BY <2>8, NeedsAre DEF call
    <3>3. n # 1 => srRoom >= Needs[n] /\ srRoom >= call.values /\ srRoom \in Nat
      <4>1. n # 1 => srRoom >= Needs[n] /\ srRoom \in Nat
        BY <2>1, <2>8 DEF SrInv, Filled, SrTypeOK
      <4>. QED BY <3>2, <4>1
    <3>4. n = 1 => srRoom = 0 /\ srMade = {} /\ call.values = 1 /\ Needs[1] = 15
      BY EachValue, EachNeed DEF SrInv, Filled, call
    <3>5. /\ srMade' = srMade \cup {call.name} /\ srMembers' = Members(call)
          /\ srRoom' >= Needs[n + 1]
      <4>1. CASE n = 1
        BY <1>5, <1>7, <1>10, <3>1, <3>2, <3>4, <4>1
      <4>2. CASE n # 1
        BY <1>7, <3>1, <3>2, <3>3, <4>2
      <4>. QED BY <4>1, <4>2
    <3>6. srMembers' = srMembers \cup Adds(n)
      BY <1>4, <2>2, <3>5 DEF call
    <3>. QED BY <2>3, <2>4, <2>5, <2>6, <2>7, <2>8, <3>5, <3>6
  <2>9. CASE n \in {12, 13}
    <3>1. \A k \in 1 .. 11 : k < n
      BY <2>9
    <3>2. Names(n + 1) \subseteq srMade'
      BY <2>3, <2>4, <2>6, <2>9
    <3>3. ~srRefused' /\ call.name \in srSet => Adds(n) \subseteq srMembers'
      <4>1. ASSUME ~srRefused', call.name \in srSet PROVE Asks(call)
        BY <2>2, <4>1 DEF Asks, Uses, call
      <4>2. ASSUME ~srRefused', call.name \in srSet PROVE srMembers' = Members(call)
        BY <1>7, <4>1, <4>2
      <4>. QED BY <1>4, <2>2, <4>2 DEF call
    <3>4. ~srRefused' => ~srRefused
      BY <1>7
    <3>5. \A k \in {12, 13} : k < n + 1 /\ ~srRefused' /\ Calls[k].name \in srSet
                                => Adds(k) \subseteq srMembers'
      BY <2>5, <2>6, <2>7, <3>3, <3>4 DEF call
    <3>. QED BY <2>6, <2>7, <2>9, <3>1, <3>2, <3>5
  <2>. QED BY <1>1, <2>8, <2>9
<1>11. Filled'
  BY <1>1, <1>9, <1>10 DEF Filled
<1>. QED BY <1>8, <1>11

LEMMA SrStepInv == SrInv /\ [SrNext]_srvars => SrInv'
<1>. SUFFICES ASSUME SrInv, [SrNext]_srvars PROVE SrInv'
  OBVIOUS
<1>1. ASSUME UNCHANGED <<srSet, srStep, srRoom, srChunk, srMade, srMembers, srRefused>>,
             srPc' \in {"favicon", "doc", "fill", "text", "scratch", "packet", "data",
                        "send", "answered", "closed", "error"}
      PROVE  SrTypeOK' /\ Filled' /\ Reached' = Reached
  BY <1>1 DEF SrInv, SrTypeOK, Filled, Reached
<1>2. CASE MallocFavicon
  BY <1>1, <1>2 DEF MallocFavicon, SrInv, SrDone, PastByOne
<1>3. CASE NewDoc
  BY <1>1, <1>3 DEF NewDoc, SrInv, SrDone, PastByOne
<1>4. CASE Fill
  <2>1. SrTypeOK' /\ Filled'
    BY <1>4, FillFills
  <2>2. SrDone' /\ PastByOne'
    BY <1>4 DEF Fill, SrInv, SrDone, PastByOne
  <2>. QED BY <2>1, <2>2 DEF SrInv
<1>5. CASE Write
  <2>1. srStep = 14
    BY <1>5, HowMany DEF Write, SrInv, SrTypeOK
  <2>2. SrTypeOK' /\ Filled'
    BY <1>1, <1>5 DEF Write
  <2>3. SrDone'
    BY <1>5, <2>1 DEF Write, SrDone
  <2>4. PastByOne'
    BY <1>5, StatusReplyAssumption DEF Write, SrInv, PastByOne
  <2>. QED BY <2>2, <2>3, <2>4 DEF SrInv
<1>6. CASE CopyText
  <2>1. SrTypeOK' /\ Filled' /\ SrDone'
    BY <1>1, <1>6 DEF CopyText, SrInv, SrDone
  <2>2. PastByOne'
    <3>1. TextSize \in Nat /\ srLength \in Nat /\ srPast = 0
      BY <1>6, StatusReplyAssumption DEF CopyText, SrInv, PastByOne
    <3>2. srLength' = srLength /\ srPc' \in {"closed", "scratch"}
      BY <1>6 DEF CopyText
    <3>3. \/ srPast' = 0
          \/ /\ ~(srLength > TextSize) /\ srLength + 1 > TextSize
             /\ srPast' = srLength + 1 - TextSize
      BY <1>6, <3>1 DEF CopyText, TooLong
    <3>. QED BY <3>1, <3>2, <3>3 DEF PastByOne
  <2>. QED BY <2>1, <2>2 DEF SrInv
<1>7. CASE MeasureText
  <2>1. SrTypeOK' /\ Filled' /\ SrDone'
    BY <1>1, <1>7 DEF MeasureText, SrInv, SrDone
  <2>2. PastByOne'
    <3>1. TextSize \in Nat /\ srLength \in Nat /\ srPast' = srPast
      BY <1>7, StatusReplyAssumption DEF MeasureText, SrInv, PastByOne
    <3>2. srLength' = srLength /\ srPc' \in {"closed", "packet"}
      BY <1>7, <3>1 DEF MeasureText
    <3>. QED BY <3>1, <3>2 DEF SrInv, PastByOne
  <2>. QED BY <2>1, <2>2 DEF SrInv
<1>8. CASE MallocReply
  BY <1>1, <1>8 DEF MallocReply, SrInv, SrDone, PastByOne
<1>9. CASE SendReply
  BY <1>1, <1>9 DEF SendReply, SrInv, SrDone, PastByOne
<1>10. CASE ReplyError
  BY <1>1, <1>10 DEF ReplyError, SrInv, SrDone, PastByOne
<1>11. CASE UNCHANGED srvars
  <2>1. SrTypeOK' /\ Filled' /\ Reached' = Reached
    BY <1>1, <1>11 DEF srvars, SrInv, SrTypeOK
  <2>. QED BY <1>11, <2>1 DEF srvars, SrInv, SrDone, PastByOne
<1>. QED BY <1>2, <1>3, <1>4, <1>5, <1>6, <1>7, <1>8, <1>9, <1>10, <1>11 DEF SrNext

\* An answer has every member of the status; only those that a second chunk of
\* values is for may be missing, when there was no memory for it.
THEOREM AnswersAreComplete == SrSpec => []AnswerComplete
<1>1. SrInit => SrInv
  <2>. SUFFICES ASSUME SrInit PROVE SrInv
    OBVIOUS
  <2>1. SrTypeOK
    BY DEF SrInit, SrTypeOK
  <2>2. Filled
    BY DEF SrInit, Filled
  <2>. QED BY <2>1, <2>2 DEF SrInit, SrInv, SrDone, PastByOne
<1>2. SrInv => AnswerComplete
  <2>. SUFFICES ASSUME SrInv PROVE AnswerComplete
    OBVIOUS
  <2>1. srPast > 0 => srPast = 1 /\ srLength = TextSize
    BY DEF SrInv, PastByOne
  <2>2. ASSUME srPc = "answered"
        PROVE  /\ srSent \subseteq Wanted
               /\ Wanted \ srSent \subseteq (IF srRefused THEN {"description", "favicon"} ELSE {})
    <3>1. srSent = Reached /\ srStep = 14 /\ "root" \in srMade
      BY <2>2 DEF SrInv, SrDone
    <3>2. Wanted = Always \cup srSet /\ srSet \subseteq {"description", "favicon"}
      BY DEF Wanted, Always, SrInv, SrTypeOK
    <3>3. \A n \in 1 .. 11 : Adds(n) \subseteq srMembers
      BY <3>1 DEF SrInv, Filled
    <3>4. Always \subseteq srMembers
      BY <3>3, AddsAre
    <3>5. ~srRefused => srSet \subseteq srMembers
      <4>1. \A n \in {12, 13} : ~srRefused /\ Calls[n].name \in srSet => Adds(n) \subseteq srMembers
        BY <3>1 DEF SrInv, Filled
      <4>. QED BY <3>2, <4>1, AddsAre
    <3>6. Reached = srMembers
      BY <3>4 DEF Reached, Always
    <3>7. srMembers \subseteq Wanted
      BY <3>2 DEF SrInv, Filled
    <3>. QED BY <3>1, <3>2, <3>4, <3>5, <3>6, <3>7
  <2>. QED BY <2>1, <2>2 DEF AnswerComplete
<1>. QED BY <1>1, <1>2, SrStepInv, PTL DEF SrSpec
-----------------------------------------------------------------------------
(* json2config.                                                            *)

\* The places behind each lookup.
AfterFavicon == {"done", "parsed"}
AfterMotd == {"favicon"} \cup AfterFavicon
AfterOnline == {"motd"} \cup AfterMotd
AfterMax == {"online"} \cup AfterOnline
AfterProtocol == {"max"} \cup AfterMax
AfterName == {"protocol"} \cup AfterProtocol

HasObjects == \A lookup \in {"root", "version", "players"} : Is(lookup, "object")
HasNumbers == \A lookup \in {"protocol", "max", "online"} : Is(lookup, "number")
HasMotd == Is("description", "text") \/ (Is("description", "object") /\ Is("text", "text"))
Usable == HasObjects /\ Is("name", "text") /\ HasNumbers /\ HasMotd /\ Is("favicon", "text")

\* What ConfigIsSaid says of a field.
Told(field) ==
  \/ spConfig[field] = Said(field)
  \/ field = "favicon" /\ Len(spDoc["favicon"].value) < Len(Header)
  \/ field \in {"protocol", "max_players", "online_players"}
       /\ Said(field) \notin -IntLimit .. (IntLimit - 1)

Allocated ==
  /\ spPc = "read" => spHeap = {}
  /\ spPc \in {"objects", "name"} => spHeap = {"doc"}
  /\ spPc \in {"protocol", "max", "online", "motd"} => spHeap = {"doc", "name"}
  /\ spPc = "favicon" => spHeap = {"doc", "name", "motd"}
  /\ spPc = "done" => spHeap = {"doc", "name", "motd", "favicon"}
  /\ FailureFrees

\* Every field whose lookup is behind has been told.
FieldsTold ==
  /\ spPc \in AfterName => Told("name")
  /\ spPc \in AfterProtocol => Told("protocol")
  /\ spPc \in AfterMax => Told("max_players")
  /\ spPc \in AfterOnline => Told("online_players")
  /\ spPc \in AfterMotd => Told("motd") /\ HasMotd
  /\ spPc \in AfterFavicon => Told("favicon") /\ Is("favicon", "text")

SpInv ==
  /\ spConfig = [field \in Fields |-> spConfig[field]]
  /\ Allocated /\ FieldsTold
  /\ spPc = "failed" /\ spMemory => ~Usable

\* A number that is an int is read as it is.
LEMMA GetIntOfInt ==
  ASSUME NEW n \in -IntLimit .. (IntLimit - 1)
  PROVE  GetInt(n) = n
<1>1. IntLimit \in Nat \ {0}
  BY StatusParseAssumption
<1>2. n + IntLimit \in 0 .. (2 * IntLimit - 1)
  BY <1>1
<1>3. (n + IntLimit) % (2 * IntLimit) = n + IntLimit
  BY <1>1, <1>2
<1>. QED BY <1>1, <1>3 DEF GetInt

\* A text without a 0 is copied whole.
LEMMA CutOfText ==
  ASSUME NEW text \in Seq(Nat \ {0})
  PROVE  Cut(text) = text
<1>1. \A k \in DOMAIN text : text[k] # 0
  OBVIOUS
<1>2. {k \in DOMAIN text : text[k] = 0} = {}
  BY <1>1
<1>. QED BY <1>2 DEF Cut

\* The favicon is what lies behind its header.
LEMMA BehindOwnHeader ==
  ASSUME NEW text \in Seq(Nat \ {0})
  PROVE  /\ Header \o text \in Seq(Nat \ {0})
         /\ ~(Len(Header \o text) < Len(Header))
         /\ SubSeq(Header \o text, Len(Header) + 1, Len(Header \o text)) = text
<1>1. Header \in Seq(Nat \ {0})
  BY StatusParseAssumption
<1>2. Len(Header \o text) = Len(Header) + Len(text) /\ Len(Header) \in Nat /\ Len(text) \in Nat
  BY <1>1
<1>3. SubSeq(Header \o text, Len(Header) + 1, Len(Header \o text)) = text
  BY <1>1, <1>2
<1>. QED BY <1>1, <1>2, <1>3

LEMMA SpStart == SpInit => SpInv
BY DEF SpInit, SpInv, Allocated, FieldsTold, FailureFrees, AfterName, AfterProtocol,
       AfterMax, AfterOnline, AfterMotd, AfterFavicon

\* What was told stays told while its field is not set again.
LEMMA ToldStays ==
  ASSUME NEW field \in Fields, Told(field), spDoc' = spDoc,
         spConfig'[field] = spConfig[field]
  PROVE  Told(field)'
<1>1. Said(field)' = Said(field)
  BY DEF Said, Is
<1>. QED BY <1>1 DEF Told

LEMMA SetField ==
  ASSUME spConfig = [field \in Fields |-> spConfig[field]], NEW set \in Fields, NEW value,
         spConfig' = [spConfig EXCEPT ![set] = value]
  PROVE  /\ spConfig' = [field \in Fields |-> spConfig'[field]]
         /\ spConfig'[set] = value
         /\ \A field \in Fields \ {set} : spConfig'[field] = spConfig[field]
OBVIOUS

\* A failure keeps the invariant when it frees what there was.
LEMMA FailStep ==
  ASSUME spDoc' = spDoc, spPc' = "failed", FailureFrees',
         spConfig' = [field \in Fields |-> spConfig'[field]],
         spMemory' => ~Usable
  PROVE  SpInv'
<1>1. Allocated'
  BY DEF Allocated
<1>2. FieldsTold'
  BY DEF FieldsTold, AfterName, AfterProtocol, AfterMax, AfterOnline, AfterMotd, AfterFavicon
<1>3. Usable' = Usable
  BY DEF Usable, HasObjects, HasNumbers, HasMotd, Is
<1>. QED BY <1>1, <1>2, <1>3 DEF SpInv

LEMMA ReadDocStep == ASSUME SpInv, ReadDoc PROVE SpInv'
<1>. USE DEF ReadDoc
<1>0. spConfig' = [field \in Fields |-> spConfig'[field]] /\ spDoc' = spDoc
  BY DEF SpInv
<1>1. CASE spPc' = "objects" /\ spHeap' = {"doc"}
  <2>1. Allocated' /\ FieldsTold'
    BY <1>1 DEF Allocated, FieldsTold, FailureFrees, AfterName, AfterProtocol, AfterMax,
      AfterOnline, AfterMotd, AfterFavicon
  <2>. QED BY <1>0, <1>1, <2>1 DEF SpInv
<1>2. CASE Fail({}) /\ spMemory' = Is("root", "missing")
  <2>1. spPc' = "failed" /\ spHeap' = {}
    BY <1>2 DEF Fail, SpInv, Allocated
  <2>2. FailureFrees'
    BY <2>1 DEF FailureFrees
  <2>3. Is("root", "missing") => ~Usable
    BY DEF Usable, HasObjects, Is
  <2>. QED BY <1>0, <1>2, <2>1, <2>2, <2>3, FailStep
<1>. QED BY <1>1, <1>2

LEMMA TakeObjectsStep == ASSUME SpInv, TakeObjects PROVE SpInv'
<1>. USE DEF TakeObjects
<1>0. spConfig' = [field \in Fields |-> spConfig'[field]] /\ spDoc' = spDoc /\ spHeap = {"doc"}
  BY DEF SpInv, Allocated
<1>1. CASE HasObjects
  <2>1. spPc' = "name" /\ spHeap' = spHeap
    BY <1>1 DEF HasObjects
  <2>2. Allocated' /\ FieldsTold'
    BY <1>0, <2>1 DEF Allocated, FieldsTold, FailureFrees, AfterName, AfterProtocol, AfterMax,
      AfterOnline, AfterMotd, AfterFavicon
  <2>. QED BY <1>0, <2>1, <2>2 DEF SpInv
<1>2. CASE ~HasObjects
  <2>1. spPc' = "failed" /\ spHeap' = {}
    BY <1>0, <1>2 DEF Fail, HasObjects
  <2>2. FailureFrees'
    BY <2>1 DEF FailureFrees
  <2>. QED BY <1>0, <1>2, <2>1, <2>2, FailStep DEF Usable
<1>. QED BY <1>1, <1>2

LEMMA TakeNameStep == ASSUME SpInv, TakeName PROVE SpInv'
<1>. USE DEF TakeName
<1>0. /\ spConfig = [field \in Fields |-> spConfig[field]] /\ spDoc' = spDoc
      /\ spHeap = {"doc"} /\ "name" \in Fields
  BY DEF SpInv, Allocated, Fields
<1>1. CASE spPc' = "failed" /\ spHeap' = {} /\ spConfig' = spConfig /\ (spMemory' => ~Usable)
  <2>1. FailureFrees'
    BY <1>1 DEF FailureFrees
  <2>. QED BY <1>0, <1>1, <2>1, FailStep
<1>2. CASE /\ spConfig' = [spConfig EXCEPT !["name"] = Cut(spDoc["name"].value)]
           /\ spHeap' = spHeap \cup {"name"} /\ spPc' = "protocol"
  <2>1. spConfig' = [field \in Fields |-> spConfig'[field]]
    BY <1>0, <1>2, SetField
  <2>2. Told("name")'
    BY <1>0, <1>2, SetField DEF Told, Said
  <2>3. Allocated'
    BY <1>0, <1>2 DEF Allocated, FailureFrees
  <2>4. FieldsTold'
    BY <1>2, <2>2 DEF FieldsTold, AfterProtocol, AfterMax, AfterOnline, AfterMotd, AfterFavicon
  <2>. QED BY <1>2, <2>1, <2>3, <2>4 DEF SpInv
<1>3. CASE Is("name", "text")
  <2>1. CopyOut(spDoc["name"].value, "name", "protocol", {})
    BY <1>3
  <2>2. CASE Fail({}) /\ spMemory' = FALSE /\ UNCHANGED spConfig
    BY <1>0, <1>1, <2>2 DEF Fail
  <2>. QED BY <1>2, <2>1, <2>2 DEF CopyOut
<1>4. CASE ~Is("name", "text")
  BY <1>0, <1>1, <1>4 DEF Refuse, Fail, Usable
<1>. QED BY <1>3, <1>4

\* One lookup of a number, its field still to be told.
LEMMA TakeNumberStep ==
  ASSUME NEW lookup \in {"protocol", "max", "online"}, NEW field \in Fields, NEW goesTo,
         SpInv, TakeNumber(lookup, field, goesTo)
  PROVE  /\ spDoc' = spDoc /\ spHeap = {"doc", "name"}
         /\ spConfig' = [other \in Fields |-> spConfig'[other]]
         /\ \A other \in Fields \ {field} : spConfig'[other] = spConfig[other]
         /\ \/ SpInv' /\ spPc' = "failed"
            \/ /\ spPc' = goesTo /\ spHeap' = spHeap
               /\ spConfig'[field] = GetInt(spDoc[lookup].value)
<1>. USE DEF TakeNumber
<1>0. /\ spConfig = [other \in Fields |-> spConfig[other]] /\ spDoc' = spDoc
      /\ spHeap = {"doc", "name"}
  BY DEF SpInv, Allocated
<1>1. CASE Is(lookup, "number")
  BY <1>0, <1>1, SetField
<1>2. CASE ~Is(lookup, "number")
  <2>1. spPc' = "failed" /\ spHeap' = {} /\ spConfig' = spConfig
    BY <1>0, <1>2 DEF Fail
  <2>2. FailureFrees'
    BY <2>1 DEF FailureFrees
  <2>3. ~Usable
    BY <1>2 DEF Usable, HasNumbers
  <2>4. SpInv'
    BY <1>0, <2>1, <2>2, <2>3, FailStep
  <2>. QED BY <1>0, <2>1, <2>4
<1>. QED BY <1>1, <1>2

LEMMA SpNumbersStep ==
  ASSUME SpInv,
         \/ TakeNumber("protocol", "protocol", "max")
         \/ TakeNumber("max", "max_players", "online")
         \/ TakeNumber("online", "online_players", "motd")
  PROVE  SpInv'
<1>0. FieldsTold /\ {"name", "protocol", "max_players", "online_players"} \subseteq Fields
  BY DEF SpInv, Fields
<1>1. ASSUME spPc' \in {"max", "online", "motd"}, spHeap = {"doc", "name"}, spHeap' = spHeap
      PROVE  Allocated'
  BY <1>1 DEF Allocated, FailureFrees
<1>2. ASSUME TakeNumber("protocol", "protocol", "max"), spPc' # "failed"
      PROVE  SpInv'
  <2>. DEFINE lookup == "protocol"
              field == "protocol"
  <2>1. /\ spDoc' = spDoc /\ spHeap = {"doc", "name"} /\ spHeap' = spHeap /\ spPc' = "max"
        /\ spConfig' = [other \in Fields |-> spConfig'[other]]
        /\ \A other \in Fields \ {field} : spConfig'[other] = spConfig[other]
        /\ spConfig'[field] = GetInt(spDoc[lookup].value)
    BY <1>0, <1>2, TakeNumberStep
  <2>2. Told(field)'
    <3>1. spConfig'[field] = GetInt(Said(field)')
      BY <2>1 DEF Said
    <3>. QED BY <3>1, GetIntOfInt DEF Told
  <2>3. Told("name")
    BY <1>0, <1>2 DEF FieldsTold, TakeNumber, AfterName
  <2>4. Told("name")'
    BY <1>0, <2>1, <2>3, ToldStays
  <2>5. FieldsTold'
    BY <2>1, <2>2, <2>4 DEF FieldsTold, AfterMax, AfterOnline, AfterMotd, AfterFavicon
  <2>. QED BY <1>1, <2>1, <2>5 DEF SpInv
<1>3. ASSUME TakeNumber("max", "max_players", "online"), spPc' # "failed"
      PROVE  SpInv'
  <2>. DEFINE lookup == "max"
              field == "max_players"
  <2>1. /\ spDoc' = spDoc /\ spHeap = {"doc", "name"} /\ spHeap' = spHeap /\ spPc' = "online"
        /\ spConfig' = [other \in Fields |-> spConfig'[other]]
        /\ \A other \in Fields \ {field} : spConfig'[other] = spConfig[other]
        /\ spConfig'[field] = GetInt(spDoc[lookup].value)
    BY <1>0, <1>3, TakeNumberStep
  <2>2. Told(field)'
    <3>1. spConfig'[field] = GetInt(Said(field)')
      BY <2>1 DEF Said
    <3>. QED BY <3>1, GetIntOfInt DEF Told
  <2>3. Told("name") /\ Told("protocol")
    BY <1>0, <1>3 DEF FieldsTold, TakeNumber, AfterName, AfterProtocol
  <2>4. Told("name")' /\ Told("protocol")'
    BY <1>0, <2>1, <2>3, ToldStays
  <2>5. FieldsTold'
    BY <2>1, <2>2, <2>4 DEF FieldsTold, AfterOnline, AfterMotd, AfterFavicon
  <2>. QED BY <1>1, <2>1, <2>5 DEF SpInv
<1>4. ASSUME TakeNumber("online", "online_players", "motd"), spPc' # "failed"
      PROVE  SpInv'
  <2>. DEFINE lookup == "online"
              field == "online_players"
  <2>1. /\ spDoc' = spDoc /\ spHeap = {"doc", "name"} /\ spHeap' = spHeap /\ spPc' = "motd"
        /\ spConfig' = [other \in Fields |-> spConfig'[other]]
        /\ \A other \in Fields \ {field} : spConfig'[other] = spConfig[other]
        /\ spConfig'[field] = GetInt(spDoc[lookup].value)
    BY <1>0, <1>4, TakeNumberStep
  <2>2. Told(field)'
    <3>1. spConfig'[field] = GetInt(Said(field)')
      BY <2>1 DEF Said
    <3>. QED BY <3>1, GetIntOfInt DEF Told
  <2>3. Told("name") /\ Told("protocol") /\ Told("max_players")
    BY <1>0, <1>4 DEF FieldsTold, TakeNumber, AfterName, AfterProtocol, AfterMax
  <2>4. Told("name")' /\ Told("protocol")' /\ Told("max_players")'
    BY <1>0, <2>1, <2>3, ToldStays
  <2>5. FieldsTold'
    BY <2>1, <2>2, <2>4 DEF FieldsTold, AfterMotd, AfterFavicon
  <2>. QED BY <1>1, <2>1, <2>5 DEF SpInv
<1>5. ASSUME spPc' = "failed" PROVE SpInv'
  <2>1. "max" # "failed" /\ "online" # "failed" /\ "motd" # "failed"
    OBVIOUS
  <2>2. CASE TakeNumber("protocol", "protocol", "max")
    BY <1>0, <1>5, <2>1, <2>2, TakeNumberStep
  <2>3. CASE TakeNumber("max", "max_players", "online")
    BY <1>0, <1>5, <2>1, <2>3, TakeNumberStep
  <2>4. CASE TakeNumber("online", "online_players", "motd")
    BY <1>0, <1>5, <2>1, <2>4, TakeNumberStep
  <2>. QED BY <2>2, <2>3, <2>4
<1>. QED BY <1>2, <1>3, <1>4, <1>5

\* The description: a text, or the text of an object.
LEMMA TakeMotdStep == ASSUME SpInv, TakeMotd PROVE SpInv'
<1>. USE DEF TakeMotd
<1>0. /\ spConfig = [field \in Fields |-> spConfig[field]] /\ spDoc' = spDoc
      /\ spHeap = {"doc", "name"} /\ FieldsTold /\ spPc = "motd"
      /\ {"name", "protocol", "max_players", "online_players", "motd"} \subseteq Fields
  BY DEF SpInv, Allocated, Fields
<1>1. ASSUME spPc' = "failed", spConfig' = [field \in Fields |-> spConfig'[field]],
             spHeap' \subseteq {"name"},
             "name" \in spHeap' => Is("description", "object") /\ ~Is("text", "text"),
             spMemory' => ~Usable
      PROVE  SpInv'
  <2>1. FailureFrees'
    BY <1>0, <1>1 DEF FailureFrees, Is
  <2>. QED BY <1>0, <1>1, <2>1, FailStep
<1>2. ASSUME HasMotd, spHeap' = spHeap \cup {"motd"}, spPc' = "favicon",
             spConfig' = [spConfig EXCEPT !["motd"] = Said("motd")]
      PROVE  SpInv'
  <2>1. /\ spConfig' = [field \in Fields |-> spConfig'[field]]
        /\ spConfig'["motd"] = Said("motd")
        /\ \A field \in Fields \ {"motd"} : spConfig'[field] = spConfig[field]
    BY <1>0, <1>2, SetField
  <2>2. Told("motd")' /\ HasMotd'
    <3>1. Said("motd")' = Said("motd") /\ HasMotd' = HasMotd
      BY <1>0 DEF Said, HasMotd, Is
    <3>. QED BY <1>2, <2>1, <3>1 DEF Told
  <2>3. Told("name") /\ Told("protocol") /\ Told("max_players") /\ Told("online_players")
    BY <1>0 DEF FieldsTold, AfterName, AfterProtocol, AfterMax, AfterOnline
  <2>4. Told("name")' /\ Told("protocol")' /\ Told("max_players")' /\ Told("online_players")'
    BY <1>0, <2>1, <2>3, ToldStays
  <2>5. Allocated'
    BY <1>0, <1>2 DEF Allocated, FailureFrees
  <2>6. FieldsTold'
    BY <1>2, <2>2, <2>4 DEF FieldsTold, AfterFavicon
  <2>. QED BY <1>2, <2>1, <2>5, <2>6 DEF SpInv
<1>3. ASSUME NEW text, Cut(text) = Said("motd"), HasMotd,
             CopyOut(text, "motd", "favicon", {"name"})
      PROVE  SpInv'
  <2>1. CASE Fail({"name"}) /\ spMemory' = FALSE /\ UNCHANGED spConfig
    BY <1>0, <1>1, <2>1 DEF Fail
  <2>. QED BY <1>2, <1>3, <2>1 DEF CopyOut
<1>4. CASE Is("description", "text")
  BY <1>3, <1>4 DEF Said, HasMotd
<1>5. CASE ~Is("description", "text") /\ Is("description", "object") /\ Is("text", "text")
  BY <1>3, <1>5 DEF Said, HasMotd
<1>6. CASE ~Is("description", "text") /\ Is("description", "object") /\ ~Is("text", "text")
  BY <1>0, <1>1, <1>6 DEF Refuse, Fail, FreedWithoutText, Usable, HasMotd
<1>7. CASE ~Is("description", "text") /\ ~Is("description", "object")
  <2>1. Fail({"name"}) /\ spMemory' = spMemory
    BY <1>7
  <2>2. spConfig' = [field \in Fields |-> spConfig'[field]]
    <3>1. \/ spConfig' = [spConfig EXCEPT !.motd = Null]
          \/ spConfig' = spConfig
      BY <1>7
    <3>. QED BY <1>0, <3>1
  <2>. QED BY <1>0, <1>1, <1>7, <2>1, <2>2 DEF Fail, Usable, HasMotd
<1>. QED BY <1>4, <1>5, <1>6, <1>7

LEMMA TakeFaviconStep == ASSUME SpInv, TakeFavicon PROVE SpInv'
<1>. USE DEF TakeFavicon
<1>0. /\ spConfig = [field \in Fields |-> spConfig[field]] /\ spDoc' = spDoc
      /\ spHeap = {"doc", "name", "motd"} /\ FieldsTold /\ spPc = "favicon"
      /\ Fields = {"name", "protocol", "max_players", "online_players", "motd", "favicon"}
  BY DEF SpInv, Allocated, Fields
<1>1. ASSUME spPc' = "failed", spConfig' = spConfig, spHeap' = {}, spMemory' => ~Usable
      PROVE  SpInv'
  <2>1. FailureFrees'
    BY <1>1 DEF FailureFrees
  <2>. QED BY <1>0, <1>1, <2>1, FailStep
<1>2. CASE Is("favicon", "text")
  <2>1. PICK text \in BehindHeader(spDoc["favicon"].value) :
               CopyOut(text, "favicon", "done", {"name", "motd"})
    BY <1>2
  <2>2. CASE Fail({"name", "motd"}) /\ spMemory' = FALSE /\ UNCHANGED spConfig
    BY <1>0, <1>1, <2>2 DEF Fail
  <2>3. CASE /\ spConfig' = [spConfig EXCEPT !["favicon"] = Cut(text)]
             /\ spHeap' = spHeap \cup {"favicon"} /\ spPc' = "done"
    <3>1. /\ spConfig' = [field \in Fields |-> spConfig'[field]]
          /\ spConfig'["favicon"] = Cut(text)
          /\ \A field \in Fields \ {"favicon"} : spConfig'[field] = spConfig[field]
      BY <1>0, <2>3, SetField
    <3>2. Told("favicon")'
      <4>1. CASE Len(spDoc["favicon"].value) < Len(Header)
        BY <1>0, <4>1 DEF Told
      <4>2. CASE ~(Len(spDoc["favicon"].value) < Len(Header))
        <5>1. Cut(text) = Said("favicon")
          BY <2>1, <4>2 DEF BehindHeader, Said
        <5>2. Said("favicon")' = Said("favicon")
          BY <1>0 DEF Said
        <5>. QED BY <3>1, <5>1, <5>2 DEF Told
      <4>. QED BY <4>1, <4>2
    <3>3. /\ Told("name") /\ Told("protocol") /\ Told("max_players")
          /\ Told("online_players") /\ Told("motd") /\ HasMotd
      BY <1>0 DEF FieldsTold, AfterName, AfterProtocol, AfterMax, AfterOnline, AfterMotd
    <3>4. /\ Told("name")' /\ Told("protocol")' /\ Told("max_players")'
          /\ Told("online_players")' /\ Told("motd")'
      BY <1>0, <3>1, <3>3, ToldStays
    <3>5. HasMotd' /\ Is("favicon", "text")'
      BY <1>0, <1>2, <3>3 DEF HasMotd, Is
    <3>6. Allocated'
      BY <1>0, <2>3 DEF Allocated, FailureFrees
    <3>7. FieldsTold'
      BY <3>2, <3>4, <3>5 DEF FieldsTold
    <3>. QED BY <2>3, <3>1, <3>6, <3>7 DEF SpInv
  <2>. QED BY <2>1, <2>2, <2>3 DEF CopyOut
<1>3. CASE ~Is("favicon", "text")
  BY <1>0, <1>1, <1>3 DEF Refuse, Fail, Usable
<1>. QED BY <1>2, <1>3

LEMMA SpStay ==
  ASSUME SpInv, UNCHANGED spvars
  PROVE  SpInv'
<1>. USE DEF spvars
<1>1. \A field \in Fields : Told(field)' = Told(field)
  BY DEF Told, Said, Is
<1>2. /\ HasMotd' = HasMotd /\ Is("favicon", "text")' = Is("favicon", "text")
      /\ Usable' = Usable
  BY DEF Usable, HasMotd, HasObjects, HasNumbers, Is
<1>3. Allocated'
  BY DEF SpInv, Allocated, FailureFrees, Is
<1>4. FieldsTold'
  BY <1>1, <1>2 DEF SpInv, FieldsTold, Fields
<1>. QED BY <1>2, <1>3, <1>4 DEF SpInv

LEMMA ParseDoneStep == ASSUME SpInv, ParseDone PROVE SpInv'
<1>. USE DEF ParseDone
<1>1. \A field \in Fields : Told(field)' = Told(field)
  BY DEF Told, Said, Is
<1>2. HasMotd' = HasMotd /\ Is("favicon", "text")' = Is("favicon", "text")
  BY DEF HasMotd, Is
<1>3. Allocated'
  BY DEF SpInv, Allocated, FailureFrees
<1>4. FieldsTold'
  BY <1>1, <1>2 DEF SpInv, FieldsTold, Fields, AfterName, AfterProtocol, AfterMax,
    AfterOnline, AfterMotd, AfterFavicon
<1>. QED BY <1>3, <1>4 DEF SpInv

LEMMA SpStep == SpInv /\ [SpNext]_spvars => SpInv'
<1>. SUFFICES ASSUME SpInv, [SpNext]_spvars PROVE SpInv'
  OBVIOUS
<1>. QED
  BY ReadDocStep, TakeObjectsStep, TakeNameStep, SpNumbersStep, TakeMotdStep,
     TakeFaviconStep, ParseDoneStep, SpStay DEF SpNext

\* Whatever document json2config is given and whichever malloc fails: a config
\* it returns is what the document says and owns its texts, and a failure frees
\* what it had, but for the name when the description has no text.
THEOREM ParsedAsWritten == SpSpec => []ConfigIsSaid
<1>1. SpInv => ConfigIsSaid
  <2>. SUFFICES ASSUME SpInv PROVE ConfigIsSaid
    OBVIOUS
  <2>1. FailureFrees
    BY DEF SpInv, Allocated
  <2>2. ASSUME spPc = "parsed", NEW field \in Fields PROVE Told(field)
    BY <2>2 DEF SpInv, FieldsTold, Fields, AfterName, AfterProtocol, AfterMax, AfterOnline,
      AfterMotd, AfterFavicon
  <2>. QED BY <2>1, <2>2 DEF ConfigIsSaid, Told
<1>. QED BY <1>1, SpStart, SpStep, PTL DEF SpSpec

\* A config with a motd and a favicon is read back as it was written, and is
\* refused only for want of memory.
THEOREM OwnTextIsReadBack == SpSpec => []OwnReadBack
<1>1. ASSUME SpInv, NEW config \in Configs, spDoc = OwnDocument(config), spPc = "parsed"
      PROVE  spConfig = config
  <2>1. /\ Told("name") /\ Told("protocol") /\ Told("max_players") /\ Told("online_players")
        /\ Told("motd") /\ HasMotd /\ Told("favicon") /\ Is("favicon", "text")
    BY <1>1 DEF SpInv, FieldsTold, AfterName, AfterProtocol, AfterMax, AfterOnline, AfterMotd,
      AfterFavicon
  <2>2. /\ config = [field \in Fields |-> config[field]]
        /\ config["name"] \in Seq(Nat \ {0})
        /\ config["protocol"] \in -IntLimit .. (IntLimit - 1)
        /\ config["max_players"] \in -IntLimit .. (IntLimit - 1)
        /\ config["online_players"] \in -IntLimit .. (IntLimit - 1)
        /\ config["motd"] = Unset \/ config["motd"] \in Seq(Nat \ {0})
        /\ config["favicon"] = Unset \/ config["favicon"] \in Seq(Nat \ {0})
    BY StatusParseAssumption
  <2>3. /\ spDoc["name"].value = config["name"] /\ spDoc["protocol"].value = config["protocol"]
        /\ spDoc["max"].value = config["max_players"]
        /\ spDoc["online"].value = config["online_players"]
    BY <1>1 DEF OwnDocument, Lookups, Text, Number
  <2>4. spConfig["name"] = config["name"]
    BY <2>1, <2>2, <2>3, CutOfText DEF Told, Said
  <2>5. spConfig["protocol"] = config["protocol"]
    BY <2>1, <2>2, <2>3 DEF Told, Said
  <2>6. spConfig["max_players"] = config["max_players"]
    BY <2>1, <2>2, <2>3 DEF Told, Said
  <2>7. spConfig["online_players"] = config["online_players"]
    BY <2>1, <2>2, <2>3 DEF Told, Said
  <2>8. spConfig["motd"] = config["motd"]
    <3>1. spDoc["text"].type = "missing"
      BY <1>1 DEF OwnDocument, Lookups, Absent
    <3>2. Is("description", "text")
      BY <2>1, <3>1 DEF HasMotd, Is
    <3>3. config["motd"] # Unset
      BY <1>1, <3>2 DEF OwnDocument, Lookups, Absent, Is
    <3>4. spDoc["description"].value = config["motd"]
      BY <1>1, <3>3 DEF OwnDocument, Lookups, Text
    <3>. QED BY <2>1, <2>2, <3>2, <3>3, <3>4, CutOfText DEF Told, Said
  <2>9. spConfig["favicon"] = config["favicon"]
    <3>1. config["favicon"] # Unset
      BY <1>1, <2>1 DEF OwnDocument, Lookups, Absent, Is
    <3>2. spDoc["favicon"].value = Header \o config["favicon"]
      BY <1>1, <3>1 DEF OwnDocument, Lookups, Text
    <3>3. Said("favicon") = config["favicon"]
      BY <2>2, <3>1, <3>2, BehindOwnHeader, CutOfText DEF Said
    <3>. QED BY <2>1, <2>2, <3>1, <3>2, <3>3, BehindOwnHeader DEF Told
  <2>10. \A field \in Fields : spConfig[field] = config[field]
    BY <2>4, <2>5, <2>6, <2>7, <2>8, <2>9 DEF Fields
  <2>11. spConfig = [field \in Fields |-> spConfig[field]]
    BY <1>1 DEF SpInv
  <2>. QED BY <2>2, <2>10, <2>11
<1>2. ASSUME SpInv, NEW config \in Configs, spDoc = OwnDocument(config),
             spPc = "failed", spMemory
      PROVE  Unset \in {config.motd, config.favicon}
  <2>. SUFFICES ASSUME config.motd # Unset, config.favicon # Unset PROVE Usable
    BY <1>2 DEF SpInv
  <2>1. HasObjects /\ HasNumbers /\ Is("name", "text")
    BY <1>2 DEF OwnDocument, Lookups, HasObjects, HasNumbers, Is, Object, Number, Text
  <2>2. Is("description", "text") /\ Is("favicon", "text")
    BY <1>2 DEF OwnDocument, Lookups, Is, Text
  <2>. QED BY <2>1, <2>2 DEF Usable, HasMotd
<1>3. SpInv => OwnReadBack
  BY <1>1, <1>2 DEF OwnReadBack
<1>. QED BY <1>3, SpStart, SpStep, PTL DEF SpSpec

-----------------------------------------------------------------------------
(* The log.                                                                *)

\* Where a message is on its way to its sinks.
AtSink == {"init_event", "prefix", "text", "newline"}
Times == {<<>>} \cup (Threads \X Nat)
PieceType == [of : Threads \X Nat, kind : {"prefix", "text", "newline"}, time : Times]
EventType == [at : {"idle", "lock", "unlock"} \cup AtSink, line : Nat, level : Nat,
              timed : BOOLEAN, sink : Nat]

LogTypeOK ==
  /\ L \in [lock : BOOLEAN, level : Nat, quiet : BOOLEAN, callbacks : Seq(Levels)]
  /\ Len(L.callbacks) <= MaxCallbacks
  /\ began \in BOOLEAN
  /\ mutex \in Threads \cup {Nobody}
  /\ tm \in Times
  /\ ev \in [Threads -> EventType]
  /\ out \in [0..MaxCallbacks -> Seq(PieceType)]

\* Nothing is logged before the settings stay.
Unused ==
  ~began => /\ mutex = Nobody /\ ev = [t \in Threads |-> Idle]
            /\ out = [s \in 0..MaxCallbacks |-> <<>>]

\* A message is at a sink that wants it; its time is read at the first.
WantedThere ==
  /\ \A t \in Threads :
       /\ ev[t].at \in AtSink =>
            ev[t].sink <= Len(L.callbacks) /\ Admits(ev[t].sink, ev[t].level)
       /\ ev[t].at = "lock" => ~ev[t].timed
       /\ ev[t].at = "prefix" => ev[t].timed
  /\ \A s \in 0..MaxCallbacks : s > Len(L.callbacks) => out[s] = <<>>

\* A thread has written nothing of its next messages.
NoneLater ==
  \A t \in Threads, s \in 0..MaxCallbacks : \A i \in PiecesOf(t, s) :
    out[s][i].of[2] <= ev[t].line

\* Of a line that is not finished, how many pieces are in the sink.
Part(e, s) == IF e.sink # s THEN 0
              ELSE IF e.at = "text" THEN 1 ELSE IF e.at = "newline" THEN 2 ELSE 0

\* The pieces of its message that a thread has written to a sink.
Due(e, s) ==
  IF e.at = "lock" THEN 0
  ELSE IF e.at \in AtSink /\ s >= e.sink THEN Part(e, s)
  ELSE IF Admits(s, e.level) THEN 3 ELSE 0

Logged(t) == ev[t].at = "idle" => ev[t].line > 0

LinesDue ==
  \A t \in Threads : Logged(t) =>
    \A s \in 0..Len(L.callbacks) : Cardinality(LineOf(Message(t), s)) = Due(ev[t], s)

PartsDue ==
  \A t \in Threads, s \in 0..MaxCallbacks :
    Cardinality(PiecesOf(t, s)) % 3 = Part(ev[t], s)

\* A thread's pieces are in their order in every sink.
InTurn ==
  \A t \in Threads, s \in 0..MaxCallbacks : \A i \in PiecesOf(t, s) :
    out[s][i].kind = KindAfter(Cardinality({j \in PiecesOf(t, s) : j < i}))

\* With a lock, one thread is between the lock and the unlock, and localtime's
\* structure is filled for its message.
Held ==
  L.lock => \A t \in Threads :
    /\ mutex = t <=> ev[t].at \notin {"idle", "lock"}
    /\ mutex = t /\ ev[t].timed => tm = Message(t)

\* The part of a line a sink ends with.
Rest(s) == IF mutex = Nobody THEN 0 ELSE Part(ev[mutex], s)

\* With a lock, lines are whole but for the one that is being written.
WholeLines ==
  L.lock => \A s \in 0..MaxCallbacks :
    /\ Unmixed(out[s])
    /\ Len(out[s]) % 3 = Rest(s)
    /\ Rest(s) > 0 => out[s][Len(out[s]) + 1 - Rest(s)].of = Message(mutex)

\* With a lock, no two sinks have two lines in different orders.
SameOrder ==
  L.lock => \A s, r \in 0..MaxCallbacks : \A i, j \in Heads(s) :
    i < j => ~Before(r, out[s][j].of, out[s][i].of)

\* The line that is being written is the last of every sink it is in.
Latest ==
  L.lock /\ mutex # Nobody =>
    \A s \in 0..MaxCallbacks : \A i, j \in Heads(s) :
      out[s][i].of = Message(mutex) => j <= i

LogInv ==
  /\ LogTypeOK /\ Unused /\ WantedThere /\ NoneLater /\ LinesDue /\ PartsDue /\ InTurn
  /\ Held /\ WholeLines /\ SameOrder /\ Latest

-----------------------------------------------------------------------------

\* A sequence with one more piece.
LEMMA OnePieceMore ==
  ASSUME NEW S, NEW q \in Seq(S), NEW p \in S
  PROVE  /\ Append(q, p) \in Seq(S) /\ Len(q) \in Nat
         /\ DOMAIN q = 1..Len(q) /\ DOMAIN Append(q, p) = 1..(Len(q) + 1)
         /\ Len(Append(q, p)) = Len(q) + 1
         /\ \A i \in 1..Len(q) : Append(q, p)[i] = q[i]
         /\ Append(q, p)[Len(q) + 1] = p
OBVIOUS

\* The pieces of a sink are finitely many, and so are any of them.
LEMMA FinitelyMany ==
  ASSUME NEW S, NEW q \in Seq(S), NEW T, T \subseteq DOMAIN q
  PROVE  IsFiniteSet(T) /\ Cardinality(T) \in Nat
<1>1. IsFiniteSet(1..Len(q))
  BY FS_Interval
<1>2. T \subseteq 1..Len(q)
  OBVIOUS
<1>. QED BY <1>1, <1>2, FS_Subset, FS_CardinalityType

\* NextSink: the sinks that are passed over do not want the message.
LEMMA NextSinkIs ==
  ASSUME LogTypeOK, NEW level \in Nat, NEW from \in 0..(Len(L.callbacks) + 1)
  PROVE  /\ NextSink(level, from) \in from..(Len(L.callbacks) + 1)
         /\ NextSink(level, from) <= Len(L.callbacks) => Admits(NextSink(level, from), level)
         /\ \A s \in from..Len(L.callbacks) : s < NextSink(level, from) => ~Admits(s, level)
<1>. DEFINE W == Wanting(level, from)
            n == Len(L.callbacks)
<1>0. n \in Nat
  BY DEF LogTypeOK
<1>1. W \subseteq from..n /\ W \subseteq Nat /\ \A s \in W : Admits(s, level)
  BY <1>0 DEF Wanting
<1>2. \A s \in from..n : s \notin W => ~Admits(s, level)
  BY DEF Wanting
<1>3. CASE W = {}
  <2>1. NextSink(level, from) = n + 1
    BY <1>3 DEF NextSink
  <2>. HIDE DEF W
  <2>. QED BY <1>0, <1>2, <1>3, <2>1
<1>4. CASE W # {}
  <2>1. NextSink(level, from) = CHOOSE s \in W : \A r \in W : s <= r
    BY <1>4 DEF NextSink
  <2>. HIDE DEF W
  <2>2. \E s \in W : \A r \in W : s <= r
    BY <1>1, <1>4, LeastNumber
  <2>. DEFINE m == CHOOSE s \in W : \A r \in W : s <= r
  <2>3. m \in W /\ \A r \in W : m <= r
    BY <2>2
  <2>. HIDE DEF m
  <2>4. NextSink(level, from) = m
    BY <2>1 DEF m
  <2>5. \A s \in from..n : s < m => ~Admits(s, level)
    BY <1>0, <1>1, <1>2, <2>3
  <2>6. m \in from..n /\ Admits(m, level)
    BY <1>1, <2>3
  <2>. QED BY <1>0, <2>4, <2>5, <2>6
<1>. QED BY <1>3, <1>4

\* Enter: what a message is due where it goes on at a sink.
Entered(e, from, f) ==
  /\ f \in EventType /\ f.line = e.line /\ f.level = e.level /\ f.timed = e.timed
  /\ f.at \in {"init_event", "prefix", "unlock"}
  /\ f.at = "prefix" => f.timed
  /\ f.at # "unlock" => f.sink <= Len(L.callbacks) /\ Admits(f.sink, f.level)
  /\ \A s \in 0..Len(L.callbacks) :
       Due(f, s) = IF s < from /\ Admits(s, f.level) THEN 3 ELSE 0
  /\ \A s : Part(f, s) = 0

\* Enter: from a sink on, the message has nothing yet in a sink that wants it.
LEMMA EnterIs ==
  ASSUME LogTypeOK, NEW e \in EventType, NEW from \in 0..(Len(L.callbacks) + 1)
  PROVE  Entered(e, from, Enter(e, from))
<1>. DEFINE n == Len(L.callbacks)
            s == NextSink(e.level, from)
            f == Enter(e, from)
<1>0. n \in Nat /\ e.level \in Nat
  BY DEF LogTypeOK, EventType
<1>1. /\ s \in from..(n + 1) /\ (s <= n => Admits(s, e.level))
      /\ \A r \in from..n : r < s => ~Admits(r, e.level)
  BY <1>0, NextSinkIs
<1>2. f = [e EXCEPT !.sink = s, !.at = IF s > n THEN "unlock"
                                       ELSE IF e.timed THEN "prefix" ELSE "init_event"]
  BY DEF Enter
<1>. HIDE DEF s
<1>3. f \in EventType /\ f.line = e.line /\ f.level = e.level /\ f.timed = e.timed
      /\ f.sink = s /\ f.at = IF s > n THEN "unlock"
                              ELSE IF e.timed THEN "prefix" ELSE "init_event"
  <2>. DEFINE a == IF s > n THEN "unlock" ELSE IF e.timed THEN "prefix" ELSE "init_event"
  <2>1. s \in Nat /\ a \in {"unlock", "prefix", "init_event"}
    BY <1>0, <1>1
  <2>2. f = [e EXCEPT !.sink = s, !.at = a]
    BY <1>2
  <2>. HIDE DEF a, f
  <2>3. f \in EventType /\ f.line = e.line /\ f.level = e.level /\ f.timed = e.timed
        /\ f.sink = s /\ f.at = a
    BY <2>1, <2>2 DEF EventType, AtSink
  <2>. QED BY <2>3 DEF a
<1>. HIDE DEF f
<1>4. f.at \in {"init_event", "prefix", "unlock"} /\ (f.at = "prefix" => f.timed)
      /\ (f.at # "unlock" <=> f.sink <= n)
  BY <1>0, <1>1, <1>3
<1>5. f.at # "unlock" => f.sink <= n /\ Admits(f.sink, f.level)
  BY <1>1, <1>3, <1>4
<1>6. \A r : Part(f, r) = 0
  BY <1>4 DEF Part
<1>7. ASSUME NEW r \in 0..n
      PROVE  Due(f, r) = IF r < from /\ Admits(r, f.level) THEN 3 ELSE 0
  <2>1. CASE f.at = "unlock"
    <3>1. r >= from => ~Admits(r, f.level)
      BY <1>0, <1>1, <1>3, <1>4, <2>1
    <3>2. Due(f, r) = IF Admits(r, f.level) THEN 3 ELSE 0
      BY <2>1 DEF Due, AtSink
    <3>. QED BY <1>0, <3>1, <3>2
  <2>2. CASE f.at # "unlock"
    <3>1. f.at \in AtSink /\ f.at # "lock"
      BY <1>4, <2>2 DEF AtSink
    <3>2. r >= from /\ r < s => ~Admits(r, f.level)
      BY <1>0, <1>1, <1>3
    <3>3. Due(f, r) = IF r >= s THEN 0 ELSE IF Admits(r, f.level) THEN 3 ELSE 0
      BY <1>3, <1>6, <3>1 DEF Due
    <3>. QED BY <1>0, <1>1, <3>2, <3>3
  <2>. QED BY <2>1, <2>2
<1>8. Entered(e, from, f)
  BY <1>3, <1>4, <1>5, <1>6, <1>7 DEF Entered
<1>. QED BY <1>8 DEF f

\* Before a thread has logged, what is known of a log that is in use holds.
LEMMA NotYetUsed == LogTypeOK /\ Unused /\ ~began => LogInv
<1>. SUFFICES ASSUME LogTypeOK, Unused, ~began PROVE LogInv
  OBVIOUS
<1>1. /\ mutex = Nobody
      /\ \A t \in Threads : ev[t] = Idle
      /\ \A s \in 0..MaxCallbacks : out[s] = <<>> /\ DOMAIN out[s] = {} /\ Len(out[s]) = 0
  BY DEF Unused
<1>2. \A t, s : s \in 0..MaxCallbacks => PiecesOf(t, s) = {} /\ Heads(s) = {}
  BY <1>1 DEF PiecesOf, Heads
<1>3. Idle.at = "idle" /\ Idle.line = 0 /\ \A s : Part(Idle, s) = 0
  BY DEF Idle, Part
<1>4. WantedThere
  BY <1>1, <1>3 DEF WantedThere, AtSink
<1>5. NoneLater /\ InTurn
  BY <1>2 DEF NoneLater, InTurn
<1>6. LinesDue
  BY <1>1, <1>3 DEF LinesDue, Logged
<1>7. PartsDue
  <2>1. Cardinality({}) % 3 = 0
    BY FS_EmptySet
  <2>. QED BY <1>1, <1>2, <1>3, <2>1 DEF PartsDue
<1>8. Held
  <2>. SUFFICES ASSUME NEW t \in Threads
                PROVE  mutex # t /\ ev[t].at \in {"idle", "lock"}
    BY DEF Held
  <2>1. ev[t] = Idle /\ mutex # t
    BY <1>1, LogAssumption
  <2>. QED BY <1>3, <2>1
<1>9. WholeLines
  <2>. SUFFICES ASSUME NEW s \in 0..MaxCallbacks
                PROVE  Unmixed(out[s]) /\ Len(out[s]) % 3 = Rest(s) /\ ~(Rest(s) > 0)
    BY DEF WholeLines
  <2>1. Rest(s) = 0
    BY <1>1 DEF Rest
  <2>2. Unmixed(out[s])
    BY <1>1 DEF Unmixed
  <2>3. Len(out[s]) = 0
    BY <1>1
  <2>. QED BY <2>1, <2>2, <2>3
<1>10. SameOrder /\ Latest
  BY <1>1, <1>2 DEF SameOrder, Latest
<1>. QED BY <1>4, <1>5, <1>6, <1>7, <1>8, <1>9, <1>10 DEF LogInv

\* A step of a thread that writes nothing.
Silent(t, f) ==
  /\ f \in EventType /\ ev' = [ev EXCEPT ![t] = f] /\ UNCHANGED <<L, out>>
  /\ began'
  /\ f.line >= ev[t].line
  /\ \A s : Part(f, s) = 0 /\ Part(ev[t], s) = 0
  /\ (f.at = "idle" => f.line > 0) =>
       \A s \in 0..Len(L.callbacks) : Cardinality(LineOf(<<t, f.line>>, s)) = Due(f, s)
  /\ \/ mutex' = mutex /\ (L.lock /\ mutex = t => f.line = ev[t].line)
     \/ mutex = Nobody /\ mutex' = t /\ \A s \in 0..MaxCallbacks : LineOf(<<t, f.line>>, s) = {}
     \/ mutex = t /\ mutex' = Nobody

\* What such a step keeps, but for the lock and where the messages are.
LEMMA SilentStep ==
  ASSUME LogInv, NEW t \in Threads, NEW f, Silent(t, f)
  PROVE  NoneLater' /\ LinesDue' /\ PartsDue' /\ InTurn' /\ WholeLines' /\ SameOrder' /\ Latest'
<1>1. /\ L' = L /\ out' = out /\ f \in EventType /\ ev'[t] = f
      /\ \A u \in Threads : ev[u] \in EventType /\ (u # t => ev'[u] = ev[u])
  BY DEF Silent, LogInv, LogTypeOK
<1>2. /\ \A u, s : PiecesOf(u, s)' = PiecesOf(u, s)
      /\ \A m, s : LineOf(m, s)' = LineOf(m, s)
      /\ \A s : Heads(s)' = Heads(s)
      /\ \A s, m, n : Before(s, m, n)' = Before(s, m, n)
      /\ \A s, k : Admits(s, k)' = Admits(s, k)
  BY <1>1 DEF PiecesOf, LineOf, Heads, Before, Admits
<1>3. NoneLater'
  <2>. SUFFICES ASSUME NEW u \in Threads, NEW s \in 0..MaxCallbacks, NEW i \in PiecesOf(u, s)
                PROVE  out[s][i].of[2] <= ev'[u].line
    BY <1>1, <1>2 DEF NoneLater
  <2>1. out[s][i].of[2] <= ev[u].line
    BY DEF LogInv, NoneLater
  <2>2. i \in DOMAIN out[s] /\ out[s] \in Seq(PieceType)
    <3>1. i \in DOMAIN out[s]
      BY DEF PiecesOf
    <3>2. out[s] \in Seq(PieceType)
      BY DEF LogInv, LogTypeOK
    <3>. QED BY <3>1, <3>2
  <2>3. out[s][i].of[2] \in Nat
    <3>1. out[s][i] \in PieceType
      BY <2>2
    <3>2. out[s][i].of \in Threads \X Nat
      BY <3>1 DEF PieceType
    <3>. QED BY <3>2
  <2>4. ev'[u].line \in Nat /\ ev[u].line \in Nat /\ ev'[u].line >= ev[u].line
    BY <1>1 DEF EventType, Silent
  <2>. QED BY <2>1, <2>3, <2>4
<1>4. LinesDue'
  <2>. SUFFICES ASSUME NEW u \in Threads, Logged(u)', NEW s \in 0..Len(L.callbacks)
                PROVE  (Cardinality(LineOf(Message(u), s)) = Due(ev[u], s))'
    BY <1>1 DEF LinesDue
  <2>0. /\ LineOf(Message(u), s)' = LineOf(<<u, ev'[u].line>>, s)
        /\ Due(ev[u], s)' = Due(ev'[u], s)
        /\ ev'[u].at = "idle" => ev'[u].line > 0
    BY <1>1 DEF LineOf, Message, Due, Part, Admits, Logged
  <2>1. CASE u = t
    BY <1>1, <2>0, <2>1 DEF Silent
  <2>2. CASE u # t
    <3>1. Logged(u)
      BY <1>1, <2>0, <2>2 DEF Logged
    <3>2. Cardinality(LineOf(<<u, ev[u].line>>, s)) = Due(ev[u], s)
      BY <3>1 DEF LogInv, LinesDue, Message
    <3>. QED BY <1>1, <2>0, <2>2, <3>2
  <2>. QED BY <2>1, <2>2
<1>5. PartsDue'
  <2>. SUFFICES ASSUME NEW u \in Threads, NEW s \in 0..MaxCallbacks
                PROVE  Cardinality(PiecesOf(u, s)) % 3 = Part(ev'[u], s)
    BY <1>2 DEF PartsDue, Part
  <2>1. Cardinality(PiecesOf(u, s)) % 3 = Part(ev[u], s)
    BY DEF LogInv, PartsDue
  <2>2. Part(ev'[u], s) = Part(ev[u], s)
    BY <1>1 DEF Silent
  <2>. QED BY <2>1, <2>2
<1>6. InTurn'
  BY <1>1, <1>2 DEF LogInv, InTurn
<1>7. \A s : Rest(s)' = Rest(s)
  <2>. SUFFICES ASSUME NEW s PROVE Rest(s)' = Rest(s)
    OBVIOUS
  <2>1. Part(ev'[t], s) = 0 /\ Part(ev[t], s) = 0 /\ t # Nobody
    BY <1>1, LogAssumption DEF Silent
  <2>2. Rest(s)' = IF mutex' = Nobody THEN 0 ELSE Part(ev'[mutex'], s)
    BY DEF Rest, Part
  <2>3. mutex \in Threads \cup {Nobody}
    BY DEF LogInv, LogTypeOK
  <2>4. CASE mutex' = mutex
    <3>1. CASE mutex \in {t, Nobody}
      BY <2>1, <2>2, <2>4, <3>1 DEF Rest
    <3>2. CASE mutex \notin {t, Nobody}
      BY <1>1, <2>2, <2>3, <2>4, <3>2 DEF Rest
    <3>. QED BY <3>1, <3>2
  <2>5. CASE mutex' # mutex
    BY <2>1, <2>2, <2>5 DEF Silent, Rest
  <2>. QED BY <2>4, <2>5
<1>8. WholeLines'
  <2>. SUFFICES ASSUME L.lock, NEW s \in 0..MaxCallbacks
                PROVE  /\ Unmixed(out[s]) /\ Len(out[s]) % 3 = Rest(s)
                       /\ Rest(s) > 0 =>
                            out[s][Len(out[s]) + 1 - Rest(s)].of = Message(mutex)'
    BY <1>1, <1>7 DEF WholeLines, Unmixed
  <2>1. /\ Unmixed(out[s]) /\ Len(out[s]) % 3 = Rest(s)
        /\ Rest(s) > 0 => out[s][Len(out[s]) + 1 - Rest(s)].of = Message(mutex)
    BY DEF LogInv, WholeLines
  <2>2. Rest(s) > 0 => mutex # Nobody /\ mutex # t /\ mutex' = mutex
    <3>1. mutex \in {t, Nobody} => Rest(s) = 0
      BY DEF Rest, Silent
    <3>. QED BY <3>1 DEF Silent
  <2>3. Rest(s) > 0 => Message(mutex)' = Message(mutex)
    <3>1. mutex \in Threads \cup {Nobody}
      BY DEF LogInv, LogTypeOK
    <3>. QED BY <1>1, <2>2, <3>1 DEF Message
  <2>. QED BY <2>1, <2>3
<1>9. SameOrder'
  BY <1>1, <1>2 DEF LogInv, SameOrder
<1>10. Latest'
  <2>. SUFFICES ASSUME L.lock, mutex' # Nobody, NEW s \in 0..MaxCallbacks,
                       NEW i \in Heads(s), NEW j \in Heads(s), out[s][i].of = Message(mutex)'
                PROVE  j <= i
    BY <1>1, <1>2 DEF Latest
  <2>1. CASE mutex' = mutex /\ (mutex = t => f.line = ev[t].line)
    <3>1. mutex \in Threads
      BY <2>1 DEF LogInv, LogTypeOK
    <3>2. Message(mutex)' = Message(mutex)
      BY <1>1, <2>1, <3>1 DEF Message
    <3>. QED BY <2>1, <3>2 DEF LogInv, Latest
  <2>2. CASE mutex' = t /\ LineOf(<<t, f.line>>, s) = {}
    <3>1. Message(mutex)' = <<t, f.line>>
      BY <1>1, <2>2 DEF Message
    <3>2. i \in LineOf(<<t, f.line>>, s)
      BY <3>1 DEF LineOf, Heads
    <3>. QED BY <2>2, <3>2
  <2>. QED BY <2>1, <2>2 DEF Silent
<1>. QED BY <1>3, <1>4, <1>5, <1>6, <1>8, <1>9, <1>10

\* A step of a thread that writes piece p to sink k.
Writes(t, f, k, p) ==
  /\ f \in EventType /\ ev' = [ev EXCEPT ![t] = f]
  /\ k \in 0..Len(L.callbacks) /\ p \in PieceType
  /\ out' = [out EXCEPT ![k] = Append(out[k], p)]
  /\ UNCHANGED <<L, began, mutex, tm>>
  /\ began /\ ev[t].at \notin {"idle", "lock"} /\ f.at \notin {"idle", "lock"}
  /\ f.line = ev[t].line /\ f.timed = ev[t].timed
  /\ p.of = Message(t) /\ p.kind = KindAfter(Part(ev[t], k))
  /\ p.kind = "prefix" => Due(ev[t], k) = 0
  /\ Part(f, k) = (Part(ev[t], k) + 1) % 3
  /\ \A s \in 0..MaxCallbacks : s # k => Part(f, s) = 0 /\ Part(ev[t], s) = 0
  /\ \A s \in 0..Len(L.callbacks) : Due(f, s) = IF s = k THEN Due(ev[t], s) + 1 ELSE Due(ev[t], s)
  /\ L.lock => mutex = t /\ p.time = Message(t)

\* Sink k is one piece longer after it, and the others are as they were.
OneLonger(k, p) ==
  LET n == Len(out[k])
  IN /\ n \in Nat /\ Len(out'[k]) = n + 1
     /\ DOMAIN out[k] = 1..n /\ DOMAIN out'[k] = 1..(n + 1)
     /\ \A i \in 1..n : out'[k][i] = out[k][i]
     /\ out'[k][n + 1] = p
     /\ \A s \in 0..MaxCallbacks : s # k => out'[s] = out[s]

\* The sinks after a step that writes.
LEMMA SinksAfter ==
  ASSUME LogInv, NEW t \in Threads, NEW f, NEW k, NEW p, Writes(t, f, k, p)
  PROVE  /\ k \in 0..MaxCallbacks /\ OneLonger(k, p)
         /\ out' \in [0..MaxCallbacks -> Seq(PieceType)]
<1>1. out \in [0..MaxCallbacks -> Seq(PieceType)]
  BY DEF LogInv, LogTypeOK
<1>2. k \in 0..MaxCallbacks
  <2>1. k \in 0..Len(L.callbacks) /\ Len(L.callbacks) <= MaxCallbacks
    BY DEF Writes, LogInv, LogTypeOK
  <2>2. Len(L.callbacks) \in Nat
    BY DEF LogInv, LogTypeOK
  <2>. QED BY <2>1, <2>2, LogAssumption
<1>. DEFINE q == out[k]
<1>3. q \in Seq(PieceType) /\ p \in PieceType
  BY <1>1, <1>2 DEF Writes
<1>4. /\ out'[k] = Append(q, p)
      /\ \A s \in 0..MaxCallbacks : s # k => out'[s] = out[s]
      /\ out' \in [0..MaxCallbacks -> Seq(PieceType)]
  <2>1. out' = [out EXCEPT ![k] = Append(q, p)]
    BY DEF Writes
  <2>2. Append(q, p) \in Seq(PieceType)
    BY <1>3, OnePieceMore
  <2>. HIDE DEF q
  <2>. QED BY <1>1, <1>2, <2>1, <2>2
<1>. HIDE DEF q
<1>5. /\ Len(q) \in Nat /\ DOMAIN q = 1..Len(q) /\ DOMAIN Append(q, p) = 1..(Len(q) + 1)
      /\ Len(Append(q, p)) = Len(q) + 1
      /\ \A i \in 1..Len(q) : Append(q, p)[i] = q[i]
      /\ Append(q, p)[Len(q) + 1] = p
  BY <1>3, OnePieceMore
<1>. QED BY <1>2, <1>4, <1>5 DEF OneLonger, q

\* What is known of a sink's pieces after it.
HasGrown(t, k, p) ==
  LET n == Len(out[k])
  IN /\ n + 1 \notin DOMAIN out[k]
     /\ \A u \in Threads, s \in 0..MaxCallbacks :
          PiecesOf(u, s)' = IF s = k /\ u = t THEN PiecesOf(u, s) \cup {n + 1} ELSE PiecesOf(u, s)
     /\ \A m, s : s \in 0..MaxCallbacks =>
          LineOf(m, s)' = IF s = k /\ m = p.of THEN LineOf(m, s) \cup {n + 1} ELSE LineOf(m, s)
     /\ \A s \in 0..MaxCallbacks :
          Heads(s)' = IF s = k /\ p.kind = "prefix" THEN Heads(s) \cup {n + 1} ELSE Heads(s)
     /\ \A s \in 0..MaxCallbacks : \A i \in DOMAIN out[s] : out'[s][i] = out[s][i]
     /\ out'[k][n + 1] = p

\* The pieces of each thread and message, and the heads, after it.
LEMMA PiecesAfter ==
  ASSUME LogInv, NEW t \in Threads, NEW f, NEW k, NEW p, Writes(t, f, k, p)
  PROVE  HasGrown(t, k, p)
<1>. DEFINE n == Len(out[k])
<1>1. k \in 0..MaxCallbacks /\ OneLonger(k, p)
  BY SinksAfter
<1>2. /\ n \in Nat /\ DOMAIN out[k] = 1..n /\ DOMAIN out'[k] = (1..n) \cup {n + 1}
      /\ n + 1 \notin 1..n
      /\ \A i \in 1..n : out'[k][i] = out[k][i]
      /\ out'[k][n + 1] = p
      /\ \A s \in 0..MaxCallbacks : s # k => out'[s] = out[s]
  BY <1>1 DEF OneLonger
<1>3. p.of[1] = t
  BY DEF Writes, Message
<1>. HIDE DEF n
<1>4. \A u \in Threads, s \in 0..MaxCallbacks :
        PiecesOf(u, s)' = IF s = k /\ u = t THEN PiecesOf(u, s) \cup {n + 1} ELSE PiecesOf(u, s)
  <2>. SUFFICES ASSUME NEW u \in Threads, NEW s \in 0..MaxCallbacks
                PROVE  PiecesOf(u, s)' = IF s = k /\ u = t THEN PiecesOf(u, s) \cup {n + 1}
                                                           ELSE PiecesOf(u, s)
    OBVIOUS
  <2>1. CASE s = k
    BY <1>2, <1>3, <2>1 DEF PiecesOf
  <2>2. CASE s # k
    BY <1>2, <2>2 DEF PiecesOf
  <2>. QED BY <2>1, <2>2
<1>5. \A m, s : s \in 0..MaxCallbacks =>
        LineOf(m, s)' = IF s = k /\ m = p.of THEN LineOf(m, s) \cup {n + 1} ELSE LineOf(m, s)
  <2>. SUFFICES ASSUME NEW m, NEW s \in 0..MaxCallbacks
                PROVE  LineOf(m, s)' = IF s = k /\ m = p.of THEN LineOf(m, s) \cup {n + 1}
                                                            ELSE LineOf(m, s)
    OBVIOUS
  <2>1. CASE s = k
    BY <1>2, <2>1 DEF LineOf
  <2>2. CASE s # k
    BY <1>2, <2>2 DEF LineOf
  <2>. QED BY <2>1, <2>2
<1>6. \A s \in 0..MaxCallbacks :
        Heads(s)' = IF s = k /\ p.kind = "prefix" THEN Heads(s) \cup {n + 1} ELSE Heads(s)
  <2>. SUFFICES ASSUME NEW s \in 0..MaxCallbacks
                PROVE  Heads(s)' = IF s = k /\ p.kind = "prefix" THEN Heads(s) \cup {n + 1}
                                                                 ELSE Heads(s)
    OBVIOUS
  <2>1. CASE s = k
    BY <1>2, <2>1 DEF Heads
  <2>2. CASE s # k
    BY <1>2, <2>2 DEF Heads
  <2>. QED BY <2>1, <2>2
<1>7. \A s \in 0..MaxCallbacks : \A i \in DOMAIN out[s] : out'[s][i] = out[s][i]
  BY <1>2
<1>. QED BY <1>2, <1>4, <1>5, <1>6, <1>7 DEF HasGrown, n

\* The events after it: a thread's message stays the same.
LEMMA EventsAfter ==
  ASSUME LogInv, NEW t \in Threads, NEW f, NEW k, NEW p, Writes(t, f, k, p)
  PROVE  /\ \A u \in Threads : ev'[u] = IF u = t THEN f ELSE ev[u]
         /\ \A u \in Threads : ev'[u].line = ev[u].line /\ Message(u)' = Message(u)
         /\ \A u \in Threads : u # t => Message(u) # p.of
         /\ L' = L /\ mutex' = mutex
<1>1. \A u \in Threads : ev'[u] = IF u = t THEN f ELSE ev[u]
  BY DEF Writes, LogInv, LogTypeOK
<1>2. f.line = ev[t].line /\ p.of = <<t, ev[t].line>>
  BY DEF Writes, Message
<1>3. \A u \in Threads : ev'[u].line = ev[u].line /\ Message(u)' = Message(u)
  BY <1>1, <1>2 DEF Message
<1>4. \A u \in Threads : u # t => Message(u) # p.of
  BY <1>2 DEF Message
<1>. QED BY <1>1, <1>3, <1>4 DEF Writes

\* No piece is of a message that is still to come.
LEMMA NoneLaterAfter ==
  ASSUME LogInv, NEW t \in Threads, NEW f, NEW k, NEW p, Writes(t, f, k, p)
  PROVE  NoneLater'
<1>. SUFFICES ASSUME NEW u \in Threads, NEW s \in 0..MaxCallbacks, NEW i \in PiecesOf(u, s)'
              PROVE  out'[s][i].of[2] <= ev[u].line
  BY EventsAfter DEF NoneLater
<1>1. HasGrown(t, k, p)
  BY PiecesAfter
<1>2. CASE i \in PiecesOf(u, s)
  <2>1. out[s][i].of[2] <= ev[u].line
    BY <1>2 DEF LogInv, NoneLater
  <2>2. i \in DOMAIN out[s]
    BY <1>2 DEF PiecesOf
  <2>. QED BY <1>1, <2>1, <2>2 DEF HasGrown
<1>3. CASE i \notin PiecesOf(u, s)
  <2>1. s = k /\ u = t /\ out'[s][i] = p
    BY <1>1, <1>3 DEF HasGrown
  <2>2. p.of[2] = ev[t].line
    BY DEF Writes, Message
  <2>3. ev[t].line \in Nat
    BY DEF LogInv, LogTypeOK, EventType
  <2>. QED BY <2>1, <2>2, <2>3
<1>. QED BY <1>2, <1>3

\* A finite set with one more element.
LEMMA OneElementMore ==
  ASSUME NEW S, NEW x, IsFiniteSet(S), x \notin S
  PROVE  Cardinality(S \cup {x}) = Cardinality(S) + 1
BY FS_AddElement

\* How many pieces there are after it.
LEMMA CountsAfter ==
  ASSUME LogInv, NEW t \in Threads, NEW f, NEW k, NEW p, Writes(t, f, k, p)
  PROVE  /\ \A u \in Threads, s \in 0..MaxCallbacks :
              /\ Cardinality(PiecesOf(u, s)) \in Nat
              /\ Cardinality(PiecesOf(u, s))' =
                   Cardinality(PiecesOf(u, s)) + (IF s = k /\ u = t THEN 1 ELSE 0)
         /\ \A m, s : s \in 0..MaxCallbacks =>
              Cardinality(LineOf(m, s))' =
                Cardinality(LineOf(m, s)) + (IF s = k /\ m = p.of THEN 1 ELSE 0)
<1>. DEFINE n == Len(out[k])
<1>1. HasGrown(t, k, p)
  BY PiecesAfter
<1>2. \A s \in 0..MaxCallbacks : out[s] \in Seq(PieceType)
  BY DEF LogInv, LogTypeOK
<1>3. ASSUME NEW u \in Threads, NEW s \in 0..MaxCallbacks
      PROVE  /\ Cardinality(PiecesOf(u, s)) \in Nat
             /\ Cardinality(PiecesOf(u, s)') =
                  Cardinality(PiecesOf(u, s)) + (IF s = k /\ u = t THEN 1 ELSE 0)
  <2>1. PiecesOf(u, s) \subseteq DOMAIN out[s]
    BY DEF PiecesOf
  <2>2. IsFiniteSet(PiecesOf(u, s)) /\ Cardinality(PiecesOf(u, s)) \in Nat
    BY <1>2, <2>1, FinitelyMany
  <2>3. CASE s = k /\ u = t
    <3>1. n + 1 \notin PiecesOf(u, s) /\ PiecesOf(u, s)' = PiecesOf(u, s) \cup {n + 1}
      BY <1>1, <2>1, <2>3 DEF HasGrown
    <3>2. Cardinality(PiecesOf(u, s) \cup {n + 1}) = Cardinality(PiecesOf(u, s)) + 1
      BY <2>2, <3>1, OneElementMore
    <3>. QED BY <2>2, <2>3, <3>1, <3>2
  <2>4. CASE ~(s = k /\ u = t)
    BY <1>1, <2>2, <2>4 DEF HasGrown
  <2>. QED BY <2>2, <2>3, <2>4
<1>4. ASSUME NEW m, NEW s \in 0..MaxCallbacks
      PROVE  Cardinality(LineOf(m, s)') =
               Cardinality(LineOf(m, s)) + (IF s = k /\ m = p.of THEN 1 ELSE 0)
  <2>1. LineOf(m, s) \subseteq DOMAIN out[s]
    BY DEF LineOf
  <2>2. IsFiniteSet(LineOf(m, s)) /\ Cardinality(LineOf(m, s)) \in Nat
    BY <1>2, <2>1, FinitelyMany
  <2>3. CASE s = k /\ m = p.of
    <3>1. n + 1 \notin LineOf(m, s) /\ LineOf(m, s)' = LineOf(m, s) \cup {n + 1}
      BY <1>1, <2>1, <2>3 DEF HasGrown
    <3>2. Cardinality(LineOf(m, s) \cup {n + 1}) = Cardinality(LineOf(m, s)) + 1
      BY <2>2, <3>1, OneElementMore
    <3>. QED BY <2>2, <2>3, <3>1, <3>2
  <2>4. CASE ~(s = k /\ m = p.of)
    BY <1>1, <2>2, <2>4 DEF HasGrown
  <2>. QED BY <2>3, <2>4
<1>. QED BY <1>3, <1>4

\* A thread has written what is due.
LEMMA DueAfter ==
  ASSUME LogInv, NEW t \in Threads, NEW f, NEW k, NEW p, Writes(t, f, k, p)
  PROVE  LinesDue' /\ PartsDue'
<1>1. /\ \A u \in Threads : ev'[u] = IF u = t THEN f ELSE ev[u]
      /\ \A u \in Threads : ev'[u].line = ev[u].line
      /\ \A u \in Threads : u # t => Message(u) # p.of
      /\ L' = L
  BY EventsAfter
<1>2. LinesDue'
  <2>. SUFFICES ASSUME NEW u \in Threads, Logged(u)', NEW s \in 0..Len(L.callbacks)
                PROVE  (Cardinality(LineOf(Message(u), s)) = Due(ev[u], s))'
    BY <1>1 DEF LinesDue
  <2>1. s \in 0..MaxCallbacks
    <3>1. Len(L.callbacks) \in Nat /\ Len(L.callbacks) <= MaxCallbacks
      BY DEF LogInv, LogTypeOK
    <3>. QED BY <3>1, LogAssumption
  <2>2. PICK m : m = Message(u)
    OBVIOUS
  <2>3. /\ LineOf(Message(u), s)' = LineOf(m, s)'
        /\ Due(ev[u], s)' = Due(ev'[u], s)
        /\ ev'[u].at = "idle" => ev'[u].line > 0
    BY <1>1, <2>2 DEF LineOf, Message, Due, Part, Admits, Logged
  <2>4. Logged(u)
    BY <1>1, <2>3 DEF Logged, Writes
  <2>5. Cardinality(LineOf(m, s)) = Due(ev[u], s)
    BY <2>2, <2>4 DEF LogInv, LinesDue
  <2>6. Cardinality(LineOf(m, s))' =
          Cardinality(LineOf(m, s)) + (IF s = k /\ m = p.of THEN 1 ELSE 0)
    BY <2>1, CountsAfter
  <2>7. Due(ev'[u], s) = Due(ev[u], s) + (IF s = k /\ m = p.of THEN 1 ELSE 0)
    <3>1. Due(ev[u], s) \in Nat
      BY DEF Due, Part
    <3>2. CASE u = t
      <4>1. m = p.of
        BY <2>2, <3>2 DEF Writes
      <4>. QED BY <1>1, <3>1, <3>2, <4>1 DEF Writes
    <3>3. CASE u # t
      BY <1>1, <2>2, <3>1, <3>3
    <3>. QED BY <3>2, <3>3
  <2>. QED BY <2>3, <2>5, <2>6, <2>7
<1>3. PartsDue'
  <2>. SUFFICES ASSUME NEW u \in Threads, NEW s \in 0..MaxCallbacks
                PROVE  (Cardinality(PiecesOf(u, s)) % 3 = Part(ev[u], s))'
    BY DEF PartsDue
  <2>. DEFINE c == Cardinality(PiecesOf(u, s))
  <2>1. c \in Nat /\ c' = c + (IF s = k /\ u = t THEN 1 ELSE 0)
    BY CountsAfter
  <2>2. c % 3 = Part(ev[u], s)
    BY DEF LogInv, PartsDue
  <2>3. Part(ev[u], s)' = Part(ev'[u], s)
    BY DEF Part
  <2>4. Part(ev'[u], s) = IF s = k /\ u = t THEN (Part(ev[u], s) + 1) % 3 ELSE Part(ev[u], s)
    BY <1>1 DEF Writes
  <2>. HIDE DEF c
  <2>5. (c + 1) % 3 = ((c % 3) + 1) % 3
    BY <2>1
  <2>6. (c % 3 = Part(ev[u], s))'
    BY <2>1, <2>2, <2>3, <2>4, <2>5
  <2>. QED BY <2>6 DEF c
<1>. QED BY <1>2, <1>3

\* A piece has the kind its number among its thread's pieces says.
LEMMA InTurnAfter ==
  ASSUME LogInv, NEW t \in Threads, NEW f, NEW k, NEW p, Writes(t, f, k, p)
  PROVE  InTurn'
<1>. DEFINE n == Len(out[k])
<1>. SUFFICES ASSUME NEW u \in Threads, NEW s \in 0..MaxCallbacks, NEW i \in PiecesOf(u, s)'
              PROVE  out'[s][i].kind = KindAfter(Cardinality({j \in PiecesOf(u, s)' : j < i}))
  BY DEF InTurn, KindAfter, PieceKinds
<1>1. HasGrown(t, k, p)
  BY PiecesAfter
<1>2. PiecesOf(u, s) \subseteq DOMAIN out[s] /\ DOMAIN out[s] = 1..Len(out[s])
      /\ Len(out[s]) \in Nat
  BY DEF PiecesOf, LogInv, LogTypeOK
<1>3. CASE i \in PiecesOf(u, s)
  <2>1. out[s][i].kind = KindAfter(Cardinality({j \in PiecesOf(u, s) : j < i}))
    BY <1>3 DEF LogInv, InTurn
  <2>2. s = k => i < n + 1
    BY <1>2, <1>3
  <2>3. {j \in PiecesOf(u, s)' : j < i} = {j \in PiecesOf(u, s) : j < i}
    <3>1. CASE s = k
      <4>1. \A j \in PiecesOf(u, s)' : j \in PiecesOf(u, s) \/ j = n + 1
        BY <1>1 DEF HasGrown
      <4>2. \A j \in PiecesOf(u, s) : j \in PiecesOf(u, s)'
        BY <1>1 DEF HasGrown
      <4>3. n \in Nat /\ i \in 1..n
        BY <1>2, <1>3, <3>1
      <4>4. \A j \in PiecesOf(u, s)' : j < i => j \in PiecesOf(u, s)
        BY <4>1, <4>3
      <4>. QED BY <4>2, <4>4
    <3>2. CASE s # k
      BY <1>1, <3>2 DEF HasGrown
    <3>. QED BY <3>1, <3>2
  <2>4. out'[s][i] = out[s][i]
    BY <1>1, <1>2, <1>3 DEF HasGrown
  <2>. QED BY <2>1, <2>3, <2>4
<1>4. CASE i \notin PiecesOf(u, s)
  <2>1. s = k /\ u = t /\ i = n + 1 /\ out'[s][i] = p
    BY <1>1, <1>4 DEF HasGrown
  <2>2. {j \in PiecesOf(u, s)' : j < i} = PiecesOf(u, s)
    <3>1. PiecesOf(u, s)' = PiecesOf(u, s) \cup {n + 1}
      BY <1>1, <2>1 DEF HasGrown
    <3>2. \A j \in PiecesOf(u, s) : j < n + 1
      BY <1>2, <2>1
    <3>3. n \in Nat
      BY <1>2, <2>1
    <3>. QED BY <2>1, <3>1, <3>2, <3>3
  <2>3. Cardinality(PiecesOf(u, s)) % 3 = Part(ev[t], k)
    BY <2>1 DEF LogInv, PartsDue
  <2>4. p.kind = KindAfter(Part(ev[t], k)) /\ Part(ev[t], k) \in 0..2
    BY DEF Writes, Part
  <2>5. KindAfter(Cardinality(PiecesOf(u, s))) = KindAfter(Part(ev[t], k))
    <3>1. Part(ev[t], k) % 3 = Part(ev[t], k)
      BY <2>4
    <3>. QED BY <2>3, <3>1 DEF KindAfter
  <2>. QED BY <2>1, <2>2, <2>4, <2>5
<1>. QED BY <1>3, <1>4

\* With a lock, the piece goes on with the line its sink ends with.
LEMMA WholeAfter ==
  ASSUME LogInv, NEW t \in Threads, NEW f, NEW k, NEW p, Writes(t, f, k, p)
  PROVE  WholeLines'
<1>. DEFINE n == Len(out[k])
            c == Part(ev[t], k)
<1>. SUFFICES ASSUME L.lock, NEW s \in 0..MaxCallbacks
              PROVE  (/\ Unmixed(out[s])
                      /\ Len(out[s]) % 3 = Rest(s)
                      /\ Rest(s) > 0 => out[s][Len(out[s]) + 1 - Rest(s)].of = Message(mutex))'
  BY EventsAfter DEF WholeLines
<1>1. /\ mutex = t /\ mutex' = t /\ t # Nobody /\ p.time = Message(t) /\ p.of = Message(t)
      /\ Message(mutex)' = Message(t)
  BY EventsAfter, LogAssumption DEF Writes, Message
<1>2. /\ Rest(s) = Part(ev[t], s)
      /\ Rest(s)' = IF s = k THEN (c + 1) % 3 ELSE Part(ev[t], s)
  <2>1. ev'[t] = f
    BY EventsAfter
  <2>2. Rest(s)' = Part(f, s)
    BY <1>1, <2>1 DEF Rest, Part
  <2>. QED BY <1>1, <2>2 DEF Rest, Writes
<1>3. /\ Unmixed(out[s]) /\ Len(out[s]) % 3 = Rest(s)
      /\ Rest(s) > 0 => out[s][Len(out[s]) + 1 - Rest(s)].of = Message(t)
  BY <1>1 DEF LogInv, WholeLines
<1>4. OneLonger(k, p)
  BY SinksAfter
<1>5. CASE s # k
  <2>1. out'[s] = out[s] /\ Rest(s)' = Rest(s)
    BY <1>2, <1>4, <1>5 DEF OneLonger
  <2>. QED BY <1>1, <1>3, <2>1 DEF Unmixed
<1>6. CASE s = k
  <2>. DEFINE q == out'[k]
  <2>1. /\ n \in Nat /\ Len(q) = n + 1 /\ DOMAIN q = 1..(n + 1) /\ DOMAIN out[k] = 1..n
        /\ \A i \in 1..n : q[i] = out[k][i]
        /\ q[n + 1] = p
    BY <1>4 DEF OneLonger
  <2>2. /\ c \in 0..2 /\ n % 3 = c /\ Rest(s)' = (c + 1) % 3
        /\ c > 0 => out[k][n + 1 - c].of = Message(t)
    <3>1. c \in 0..2
      BY DEF Part
    <3>2. n % 3 = c /\ Rest(s) = c
      BY <1>2, <1>3, <1>6
    <3>3. c > 0 => out[k][n + 1 - c].of = Message(t)
      BY <1>3, <1>6, <3>2
    <3>. QED BY <1>2, <1>6, <3>1, <3>2, <3>3
  <2>3. \A i \in 1..n : /\ out[k][i].kind = KindAfter(i - 1)
                        /\ out[k][i].of = out[k][i - ((i - 1) % 3)].of
                        /\ out[k][i].time = out[k][i].of
    BY <1>3, <1>6, <2>1 DEF Unmixed
  <2>4. p.kind = KindAfter(c)
    BY DEF Writes
  <2>. HIDE DEF n, c, q
  <2>5. ASSUME NEW i \in 1..n
        PROVE  /\ q[i].kind = KindAfter(i - 1)
               /\ q[i].of = q[i - ((i - 1) % 3)].of
               /\ q[i].time = q[i].of
    <3>1. i - ((i - 1) % 3) \in 1..n
      BY <2>1
    <3>2. q[i - ((i - 1) % 3)] = out[k][i - ((i - 1) % 3)] /\ q[i] = out[k][i]
      BY <2>1, <3>1
    <3>. QED BY <2>3, <3>2
  <2>6. c > 0 => n + 1 - c \in 1..n
    BY <2>1, <2>2
  <2>7. q[n + 1 - c].of = Message(t)
    <3>1. CASE c = 0
      BY <1>1, <2>1, <3>1
    <3>2. CASE c > 0
      BY <2>1, <2>2, <2>6, <3>2
    <3>. QED BY <2>2, <3>1, <3>2
  <2>8. /\ p.kind = KindAfter((n + 1) - 1)
        /\ (n + 1) - (((n + 1) - 1) % 3) = n + 1 - c
    <3>1. (n + 1) - 1 = n /\ c % 3 = c
      BY <2>1, <2>2
    <3>2. KindAfter(n) = KindAfter(c)
      BY <2>2, <3>1 DEF KindAfter
    <3>3. p.kind = KindAfter((n + 1) - 1)
      BY <2>4, <3>1, <3>2
    <3>4. (n + 1) - (((n + 1) - 1) % 3) = n + 1 - c
      BY <2>1, <2>2
    <3>. QED BY <3>3, <3>4
  <2>9. Unmixed(q)
    <3>. SUFFICES ASSUME NEW i \in 1..(n + 1)
                  PROVE  /\ q[i].kind = KindAfter(i - 1)
                         /\ q[i].of = q[i - ((i - 1) % 3)].of
                         /\ q[i].time = q[i].of
      BY <2>1 DEF Unmixed
    <3>1. CASE i \in 1..n
      BY <2>5, <3>1
    <3>2. CASE i = n + 1
      BY <1>1, <2>1, <2>7, <2>8, <3>2
    <3>. QED BY <2>1, <3>1, <3>2
  <2>10. Len(q) % 3 = Rest(s)'
    BY <2>1, <2>2
  <2>11. Rest(s)' > 0 => q[Len(q) + 1 - Rest(s)'].of = Message(t)
    <3>1. Rest(s)' > 0 => Len(q) + 1 - Rest(s)' = n + 1 - c
      BY <2>1, <2>2
    <3>. QED BY <2>7, <3>1
  <2>12. Unmixed(out[s])'
    <3>1. out'[s] = q
      BY <1>6 DEF q
    <3>. QED BY <2>9, <3>1 DEF Unmixed, KindAfter, PieceKinds
  <2>13. out'[s] = q
    BY <1>6 DEF q
  <2>. QED BY <1>1, <2>10, <2>11, <2>12, <2>13
<1>. QED BY <1>5, <1>6

\* With a lock, the line that is begun comes last, so that no order changes.
LEMMA OrderAfter ==
  ASSUME LogInv, NEW t \in Threads, NEW f, NEW k, NEW p, Writes(t, f, k, p)
  PROVE  SameOrder' /\ Latest'
<1>. DEFINE n == Len(out[k])
<1>. SUFFICES ASSUME L.lock PROVE SameOrder' /\ Latest'
  BY EventsAfter DEF SameOrder, Latest
<1>1. /\ mutex = t /\ mutex' = t /\ t # Nobody /\ p.of = Message(t)
      /\ Message(mutex)' = p.of
  BY EventsAfter, LogAssumption DEF Writes, Message
<1>2. HasGrown(t, k, p) /\ k \in 0..MaxCallbacks
  BY PiecesAfter, SinksAfter
<1>3. \A s \in 0..MaxCallbacks :
        /\ Heads(s) \subseteq DOMAIN out[s] /\ DOMAIN out[s] = 1..Len(out[s])
        /\ Len(out[s]) \in Nat
  BY DEF Heads, LogInv, LogTypeOK
<1>. DEFINE New(s, i) == s = k /\ i = n + 1 /\ p.kind = "prefix"
<1>4. /\ \A s \in 0..MaxCallbacks : \A i \in Heads(s)' : i \in Heads(s) \/ New(s, i)
      /\ \A s \in 0..MaxCallbacks : \A i \in Heads(s) :
           /\ out'[s][i] = out[s][i] /\ i \in Nat
           /\ s = k => i < n + 1
      /\ \A s, i : New(s, i) => out'[s][i].of = p.of
  BY <1>2, <1>3 DEF HasGrown
<1>5. p.kind = "prefix" => \A i \in Heads(k) : out[k][i].of # p.of
  <2>. SUFFICES ASSUME p.kind = "prefix" PROVE LineOf(p.of, k) = {}
    BY DEF LineOf, Heads
  <2>1. Cardinality(LineOf(p.of, k)) = 0
    BY <1>1 DEF Writes, LogInv, LinesDue, Logged
  <2>2. IsFiniteSet(LineOf(p.of, k))
    <3>1. out[k] \in Seq(PieceType) /\ LineOf(p.of, k) \subseteq DOMAIN out[k]
      BY <1>2 DEF LogInv, LogTypeOK, LineOf
    <3>. QED BY <3>1, FinitelyMany
  <2>. QED BY <2>1, <2>2, FS_EmptySet
<1>6. \A s \in 0..MaxCallbacks : \A i, j \in Heads(s) : out[s][i].of = p.of => j <= i
  BY <1>1 DEF LogInv, Latest
<1>. HIDE DEF n
<1>. HIDE DEF New
<1>7. Latest'
  <2>. SUFFICES ASSUME NEW s \in 0..MaxCallbacks, NEW i \in Heads(s)', NEW j \in Heads(s)',
                       out'[s][i].of = p.of
                PROVE  j <= i
    BY <1>1 DEF Latest
  <2>1. CASE New(s, i)
    BY <1>3, <1>4, <2>1 DEF n, New
  <2>2. CASE ~New(s, i)
    <3>1. i \in Heads(s) /\ out[s][i].of = p.of
      BY <1>4, <2>2
    <3>2. j \in Heads(s)
      BY <1>4, <1>5, <3>1 DEF New
    <3>. QED BY <1>6, <3>1, <3>2
  <2>. QED BY <2>1, <2>2
<1>8. SameOrder'
  <2>. SUFFICES ASSUME NEW s \in 0..MaxCallbacks, NEW r \in 0..MaxCallbacks,
                       NEW i \in Heads(s)', NEW j \in Heads(s)', i < j,
                       NEW a \in Heads(r)', NEW b \in Heads(r)', a < b,
                       out'[r][a].of = out'[s][j].of, out'[r][b].of = out'[s][i].of
                PROVE  FALSE
    BY DEF SameOrder, Before
  <2>1. i \in Heads(s) /\ a \in Heads(r)
    BY <1>3, <1>4 DEF n, New
  <2>2. CASE j \in Heads(s) /\ b \in Heads(r)
    BY <1>4, <2>1, <2>2 DEF LogInv, SameOrder, Before
  <2>3. CASE New(s, j) /\ b \in Heads(r)
    <3>1. out[r][a].of = p.of
      BY <1>4, <2>1, <2>3
    <3>2. b <= a
      BY <1>6, <2>1, <2>3, <3>1
    <3>. QED BY <1>4, <2>1, <2>3, <3>2
  <2>4. CASE j \in Heads(s) /\ New(r, b)
    <3>1. out[s][i].of = p.of
      BY <1>4, <2>1, <2>4
    <3>2. j <= i
      BY <1>6, <2>1, <2>4, <3>1
    <3>. QED BY <1>4, <2>1, <2>4, <3>2
  <2>5. CASE New(s, j) /\ New(r, b)
    <3>1. s = k /\ p.kind = "prefix" /\ out[s][i].of = p.of
      BY <1>4, <2>1, <2>5 DEF New
    <3>. QED BY <1>5, <2>1, <3>1
  <2>. QED BY <1>4, <2>2, <2>3, <2>4, <2>5
<1>. QED BY <1>7, <1>8

\* A message is nowhere before it is written.
LEMMA NotYetLogged ==
  ASSUME LogInv, NEW t \in Threads, NEW l \in Nat, NEW s \in 0..MaxCallbacks,
         \/ l > ev[t].line
         \/ l = ev[t].line /\ ev[t].at = "lock"
  PROVE  LineOf(<<t, l>>, s) = {} /\ Cardinality(LineOf(<<t, l>>, s)) = 0
<1>1. LineOf(<<t, l>>, s) = {}
  <2>1. CASE l > ev[t].line
    <3>1. \A i \in LineOf(<<t, l>>, s) : i \in PiecesOf(t, s) /\ out[s][i].of[2] = l
      BY DEF LineOf, PiecesOf
    <3>2. \A i \in PiecesOf(t, s) : out[s][i].of[2] <= ev[t].line
      BY DEF LogInv, NoneLater
    <3>3. ev[t].line \in Nat
      BY DEF LogInv, LogTypeOK, EventType
    <3>. QED BY <2>1, <3>1, <3>2, <3>3
  <2>2. CASE l = ev[t].line /\ ev[t].at = "lock"
    <3>1. CASE s <= Len(L.callbacks)
      <4>1. s \in 0..Len(L.callbacks)
        BY <3>1 DEF LogInv, LogTypeOK
      <4>2. Cardinality(LineOf(<<t, l>>, s)) = 0
        BY <2>2, <4>1 DEF LogInv, LinesDue, Logged, Due, Message
      <4>3. out[s] \in Seq(PieceType) /\ LineOf(<<t, l>>, s) \subseteq DOMAIN out[s]
        BY DEF LogInv, LogTypeOK, LineOf
      <4>4. IsFiniteSet(LineOf(<<t, l>>, s))
        BY <4>3, FinitelyMany
      <4>. QED BY <4>2, <4>4, FS_EmptySet
    <3>2. CASE ~(s <= Len(L.callbacks))
      <4>1. s > Len(L.callbacks)
        BY <3>2 DEF LogInv, LogTypeOK
      <4>2. out[s] = <<>>
        BY <4>1 DEF LogInv, WantedThere
      <4>. QED BY <4>2 DEF LineOf
    <3>. QED BY <3>1, <3>2
  <2>. QED BY <2>1, <2>2
<1>. QED BY <1>1, FS_EmptySet

\* A step that changes the event of t alone.
OnlyThe(t, f) == ev' = [ev EXCEPT ![t] = f] /\ f \in EventType

\* Such a step keeps the types and leaves every message at a sink that wants it.
LEMMA EventsStep ==
  ASSUME LogInv, NEW t \in Threads, NEW f, OnlyThe(t, f), L' = L, out' = out,
         f.at \in AtSink => f.sink <= Len(L.callbacks) /\ Admits(f.sink, f.level),
         f.at = "lock" => ~f.timed,
         f.at = "prefix" => f.timed,
         mutex' \in Threads \cup {Nobody}, tm' \in Times, began' = TRUE
  PROVE  LogTypeOK' /\ Unused' /\ WantedThere'
<1>1. \A u \in Threads : ev'[u] = IF u = t THEN f ELSE ev[u]
  BY DEF OnlyThe, LogInv, LogTypeOK
<1>2. LogTypeOK'
  <2>1. ev' \in [Threads -> EventType]
    BY DEF OnlyThe, LogInv, LogTypeOK
  <2>. QED BY <2>1 DEF LogInv, LogTypeOK
<1>3. \A s, k : Admits(s, k)' = Admits(s, k)
  BY DEF Admits
<1>4. WantedThere'
  <2>1. ASSUME NEW u \in Threads
        PROVE  (/\ ev[u].at \in AtSink =>
                     ev[u].sink <= Len(L.callbacks) /\ Admits(ev[u].sink, ev[u].level)
                /\ ev[u].at = "lock" => ~ev[u].timed
                /\ ev[u].at = "prefix" => ev[u].timed)'
    <3>1. Admits(ev[u].sink, ev[u].level)' = Admits(ev'[u].sink, ev'[u].level)
      BY DEF Admits
    <3>2. CASE u = t
      BY <1>1, <3>1, <3>2
    <3>3. CASE u # t
      <4>1. /\ ev[u].at \in AtSink =>
                  ev[u].sink <= Len(L.callbacks) /\ Admits(ev[u].sink, ev[u].level)
            /\ ev[u].at = "lock" => ~ev[u].timed
            /\ ev[u].at = "prefix" => ev[u].timed
        BY DEF LogInv, WantedThere
      <4>. QED BY <1>1, <3>1, <3>3, <4>1
    <3>. QED BY <3>2, <3>3
  <2>2. \A s \in 0..MaxCallbacks : s > Len(L.callbacks) => out[s] = <<>>
    BY DEF LogInv, WantedThere
  <2>. QED BY <2>1, <2>2 DEF WantedThere
<1>. QED BY <1>2, <1>4 DEF Unused

\* log_log is called: the message is new.
LEMMA LogCallStep ==
  ASSUME LogInv, NEW t \in Threads, NEW level \in Levels, LogCall(t, level)
  PROVE  LogInv'
<1>. DEFINE f == [Idle EXCEPT !.at = "lock", !.line = ev[t].line + 1, !.level = level]
<1>0. ev[t] \in EventType /\ ev[t].line \in Nat /\ level \in Nat
  BY LogAssumption DEF LogInv, LogTypeOK, EventType
<1>1. /\ f \in EventType /\ f.at = "lock" /\ f.line = ev[t].line + 1 /\ f.timed = FALSE
  <2>1. Idle \in EventType /\ Idle.timed = FALSE
    BY DEF Idle, EventType
  <2>2. PICK n \in Nat : n = ev[t].line + 1
    BY <1>0
  <2>3. f = [Idle EXCEPT !.at = "lock", !.line = n, !.level = level]
    BY <2>2
  <2>. HIDE DEF f
  <2>. QED BY <1>0, <2>1, <2>2, <2>3 DEF EventType
<1>2. /\ ev' = [ev EXCEPT ![t] = f] /\ ev[t].at = "idle" /\ began' = TRUE
      /\ UNCHANGED <<L, mutex, tm, out>>
  BY DEF LogCall
<1>. HIDE DEF f
<1>3. \A u \in Threads : ev'[u] = IF u = t THEN f ELSE ev[u]
  BY <1>2 DEF LogInv, LogTypeOK
<1>4. L.lock => mutex # t
  BY <1>2 DEF LogInv, Held
<1>5. LogTypeOK' /\ Unused' /\ WantedThere'
  <2>1. OnlyThe(t, f) /\ f.at \notin AtSink
    BY <1>1, <1>2 DEF OnlyThe, AtSink
  <2>2. mutex' \in Threads \cup {Nobody} /\ tm' \in Times
    BY <1>2 DEF LogInv, LogTypeOK
  <2>. QED BY <1>1, <1>2, <2>1, <2>2, EventsStep
<1>6. Held'
  <2>. SUFFICES ASSUME L.lock, NEW u \in Threads
                PROVE  /\ mutex = u <=> ev'[u].at \notin {"idle", "lock"}
                       /\ mutex = u /\ ev'[u].timed => tm = <<u, ev'[u].line>>
    BY <1>2 DEF Held, Message
  <2>1. /\ mutex = u <=> ev[u].at \notin {"idle", "lock"}
        /\ mutex = u /\ ev[u].timed => tm = <<u, ev[u].line>>
    BY DEF LogInv, Held, Message
  <2>. QED BY <1>1, <1>3, <1>4, <2>1
<1>7. Silent(t, f)
  <2>1. \A s : Part(f, s) = 0 /\ Part(ev[t], s) = 0
    BY <1>1, <1>2 DEF Part
  <2>2. ASSUME NEW s \in 0..Len(L.callbacks)
        PROVE  Cardinality(LineOf(<<t, f.line>>, s)) = Due(f, s)
    <3>1. s \in 0..MaxCallbacks
      <4>1. Len(L.callbacks) \in Nat /\ Len(L.callbacks) <= MaxCallbacks
        BY DEF LogInv, LogTypeOK
      <4>. QED BY <4>1, LogAssumption
    <3>2. f.line \in Nat /\ f.line > ev[t].line
      BY <1>0, <1>1
    <3>3. Cardinality(LineOf(<<t, f.line>>, s)) = 0
      BY <3>1, <3>2, NotYetLogged
    <3>. QED BY <1>1, <3>3 DEF Due
  <2>3. f.line >= ev[t].line
    BY <1>0, <1>1
  <2>. QED BY <1>1, <1>2, <1>4, <2>1, <2>2, <2>3 DEF Silent
<1>8. NoneLater' /\ LinesDue' /\ PartsDue' /\ InTurn' /\ WholeLines' /\ SameOrder' /\ Latest'
  BY <1>7, SilentStep
<1>. QED BY <1>5, <1>6, <1>8 DEF LogInv

\* The lock is taken when nobody has it, and nothing of the message is written.
LEMMA LockStep ==
  ASSUME LogInv, NEW t \in Threads, Lock(t)
  PROVE  LogInv'
<1>. DEFINE e == ev[t]
            f == Enter(e, 0)
<1>0. /\ e \in EventType /\ e.line \in Nat /\ e.at = "lock" /\ ~e.timed
      /\ LogTypeOK /\ 0 \in 0..(Len(L.callbacks) + 1) /\ t # Nobody
  <2>1. e \in EventType /\ LogTypeOK /\ Len(L.callbacks) \in Nat
    BY DEF LogInv, LogTypeOK
  <2>2. e.at = "lock" /\ ~e.timed
    BY DEF Lock, LogInv, WantedThere
  <2>. QED BY <2>1, <2>2, LogAssumption DEF EventType
<1>1. Entered(e, 0, f)
  BY <1>0, EnterIs
<1>2. /\ ev' = [ev EXCEPT ![t] = f] /\ UNCHANGED <<L, began, tm, out>>
      /\ L.lock => mutex = Nobody /\ mutex' = t
      /\ ~L.lock => mutex' = mutex
  BY DEF Lock
<1>. HIDE DEF f
<1>3. \A u \in Threads : ev'[u] = IF u = t THEN f ELSE ev[u]
  BY <1>2 DEF LogInv, LogTypeOK
<1>4. /\ f \in EventType /\ f.line = e.line /\ ~f.timed /\ f.at \in {"init_event", "unlock"}
      /\ f.at # "unlock" => f.sink <= Len(L.callbacks) /\ Admits(f.sink, f.level)
  BY <1>0, <1>1 DEF Entered
<1>5. LogTypeOK' /\ Unused' /\ WantedThere'
  <2>1. OnlyThe(t, f)
    BY <1>2, <1>4 DEF OnlyThe
  <2>2. mutex' \in Threads \cup {Nobody} /\ tm' \in Times
    BY <1>2 DEF LogInv, LogTypeOK
  <2>3. began' = TRUE
    <3>1. began \in BOOLEAN
      BY DEF LogInv, LogTypeOK
    <3>2. began
      BY <1>0 DEF LogInv, Unused, Idle
    <3>. QED BY <1>2, <3>1, <3>2
  <2>4. f.at \in AtSink => f.at # "unlock"
    BY DEF AtSink
  <2>. QED BY <1>2, <1>4, <2>1, <2>2, <2>3, <2>4, EventsStep
<1>6. Held'
  <2>. SUFFICES ASSUME L.lock, NEW u \in Threads
                PROVE  /\ t = u <=> ev'[u].at \notin {"idle", "lock"}
                       /\ t = u /\ ev'[u].timed => tm = <<u, ev'[u].line>>
    BY <1>2 DEF Held, Message
  <2>1. Nobody = u <=> ev[u].at \notin {"idle", "lock"}
    BY <1>2 DEF LogInv, Held
  <2>. QED BY <1>3, <1>4, <2>1, LogAssumption
<1>7. Silent(t, f)
  <2>1. \A s : Part(f, s) = 0 /\ Part(ev[t], s) = 0
    BY <1>0, <1>1 DEF Part, Entered
  <2>2. \A s \in 0..MaxCallbacks :
          LineOf(<<t, f.line>>, s) = {} /\ Cardinality(LineOf(<<t, f.line>>, s)) = 0
    BY <1>0, <1>4, NotYetLogged
  <2>3. \A s \in 0..Len(L.callbacks) : s \in 0..MaxCallbacks /\ Due(f, s) = 0
    <3>1. Len(L.callbacks) \in Nat /\ Len(L.callbacks) <= MaxCallbacks
      BY DEF LogInv, LogTypeOK
    <3>2. \A s \in 0..Len(L.callbacks) : Due(f, s) = 0
      BY <1>1, <3>1 DEF Entered
    <3>. QED BY <3>1, <3>2, LogAssumption
  <2>4. f.line >= ev[t].line
    BY <1>0, <1>4
  <2>5. began'
    BY <1>0, <1>2 DEF LogInv, Unused, Idle
  <2>. QED BY <1>2, <1>4, <2>1, <2>2, <2>3, <2>4, <2>5 DEF Silent
<1>8. NoneLater' /\ LinesDue' /\ PartsDue' /\ InTurn' /\ WholeLines' /\ SameOrder' /\ Latest'
  BY <1>7, SilentStep
<1>. QED BY <1>5, <1>6, <1>8 DEF LogInv

\* localtime: with a lock its structure is kept for this message.
LEMMA InitEventStep ==
  ASSUME LogInv, NEW t \in Threads, InitEvent(t)
  PROVE  LogInv'
<1>. DEFINE e == ev[t]
            f == [e EXCEPT !.timed = TRUE, !.at = "prefix"]
<1>0. /\ e \in EventType /\ e.line \in Nat /\ e.at = "init_event" /\ t # Nobody
      /\ e.sink <= Len(L.callbacks) /\ Admits(e.sink, e.level)
  <2>1. e \in EventType /\ e.at = "init_event"
    BY DEF InitEvent, LogInv, LogTypeOK
  <2>2. e.sink <= Len(L.callbacks) /\ Admits(e.sink, e.level)
    BY <2>1 DEF LogInv, WantedThere, AtSink
  <2>. QED BY <2>1, <2>2, LogAssumption DEF EventType
<1>1. /\ ev' = [ev EXCEPT ![t] = f] /\ UNCHANGED <<L, began, mutex, out>>
      /\ tm' = <<t, e.line>>
  BY <1>0 DEF InitEvent, Message, LogInv, LogTypeOK
<1>. HIDE DEF e
<1>2. /\ f \in EventType /\ f.at = "prefix" /\ f.timed /\ f.line = e.line
      /\ f.sink = e.sink /\ f.level = e.level
  BY <1>0 DEF EventType, AtSink
<1>. HIDE DEF f
<1>3. \A u \in Threads : ev'[u] = IF u = t THEN f ELSE ev[u]
  BY <1>1 DEF LogInv, LogTypeOK
<1>4. began' = TRUE
  <2>1. began \in BOOLEAN
    BY DEF LogInv, LogTypeOK
  <2>2. began
    BY <1>0 DEF LogInv, Unused, Idle, e
  <2>. QED BY <1>1, <2>1, <2>2
<1>5. LogTypeOK' /\ Unused' /\ WantedThere'
  <2>1. OnlyThe(t, f)
    BY <1>1, <1>2 DEF OnlyThe
  <2>2. mutex' \in Threads \cup {Nobody} /\ tm' \in Times
    BY <1>0, <1>1 DEF LogInv, LogTypeOK, Times
  <2>3. f.sink <= Len(L.callbacks) /\ Admits(f.sink, f.level)
    BY <1>0, <1>2
  <2>. QED BY <1>1, <1>2, <1>4, <2>1, <2>2, <2>3, EventsStep
<1>6. Held'
  <2>. SUFFICES ASSUME L.lock, NEW u \in Threads
                PROVE  /\ mutex = u <=> ev'[u].at \notin {"idle", "lock"}
                       /\ mutex = u /\ ev'[u].timed => tm' = <<u, ev'[u].line>>
    BY <1>1 DEF Held, Message
  <2>1. mutex = u <=> ev[u].at \notin {"idle", "lock"}
    BY DEF LogInv, Held
  <2>2. mutex = t
    BY <1>0 DEF LogInv, Held, e
  <2>3. CASE u = t
    BY <1>1, <1>2, <1>3, <2>2, <2>3
  <2>4. CASE u # t
    BY <1>3, <2>1, <2>2, <2>4
  <2>. QED BY <2>3, <2>4
<1>7. Silent(t, f)
  <2>1. \A s : Part(f, s) = 0 /\ Part(ev[t], s) = 0
    BY <1>0, <1>2 DEF Part, e
  <2>2. \A s : Due(f, s) = Due(ev[t], s)
    BY <1>0, <1>2, <2>1 DEF Due, AtSink, e
  <2>3. \A s \in 0..Len(L.callbacks) : Cardinality(LineOf(<<t, f.line>>, s)) = Due(ev[t], s)
    BY <1>0, <1>2 DEF LogInv, LinesDue, Logged, Message, e
  <2>4. f.line >= ev[t].line /\ f.line = ev[t].line
    BY <1>0, <1>2 DEF e
  <2>. QED BY <1>1, <1>2, <1>4, <2>1, <2>2, <2>3, <2>4 DEF Silent
<1>8. NoneLater' /\ LinesDue' /\ PartsDue' /\ InTurn' /\ WholeLines' /\ SameOrder' /\ Latest'
  BY <1>7, SilentStep
<1>. QED BY <1>5, <1>6, <1>8 DEF LogInv

\* The lock is given back when every sink that wants the message has it.
LEMMA UnlockStep ==
  ASSUME LogInv, NEW t \in Threads, Unlock(t)
  PROVE  LogInv'
<1>. DEFINE e == ev[t]
            f == [e EXCEPT !.at = "idle"]
<1>0. e \in EventType /\ e.line \in Nat /\ e.at = "unlock" /\ t # Nobody
  BY LogAssumption DEF Unlock, LogInv, LogTypeOK, EventType
<1>1. /\ ev' = [ev EXCEPT ![t] = f] /\ UNCHANGED <<L, began, tm, out>>
      /\ mutex' = IF L.lock THEN Nobody ELSE mutex
  BY <1>0 DEF Unlock, LogInv, LogTypeOK
<1>. HIDE DEF e
<1>2. /\ f \in EventType /\ f.at = "idle" /\ f.line = e.line /\ f.level = e.level
  BY <1>0 DEF EventType, AtSink
<1>. HIDE DEF f
<1>3. \A u \in Threads : ev'[u] = IF u = t THEN f ELSE ev[u]
  BY <1>1 DEF LogInv, LogTypeOK
<1>4. began' = TRUE
  <2>1. began \in BOOLEAN
    BY DEF LogInv, LogTypeOK
  <2>2. began
    BY <1>0 DEF LogInv, Unused, Idle, e
  <2>. QED BY <1>1, <2>1, <2>2
<1>5. LogTypeOK' /\ Unused' /\ WantedThere'
  <2>1. OnlyThe(t, f)
    BY <1>1, <1>2 DEF OnlyThe
  <2>2. mutex' \in Threads \cup {Nobody} /\ tm' \in Times
    BY <1>1 DEF LogInv, LogTypeOK
  <2>3. f.at \notin AtSink
    BY <1>2 DEF AtSink
  <2>. QED BY <1>1, <1>2, <1>4, <2>1, <2>2, <2>3, EventsStep
<1>6. L.lock => mutex = t
  BY <1>0 DEF LogInv, Held, e
<1>7. Held'
  <2>. SUFFICES ASSUME L.lock, NEW u \in Threads
                PROVE  Nobody # u /\ ev'[u].at \in {"idle", "lock"}
    BY <1>1 DEF Held, Message
  <2>1. mutex = u <=> ev[u].at \notin {"idle", "lock"}
    BY DEF LogInv, Held
  <2>. QED BY <1>2, <1>3, <1>6, <2>1, LogAssumption
<1>8. Silent(t, f)
  <2>1. \A s : Part(f, s) = 0 /\ Part(ev[t], s) = 0
    BY <1>0, <1>2 DEF Part, e
  <2>2. \A s : Due(f, s) = Due(ev[t], s)
    BY <1>0, <1>2 DEF Due, AtSink, e
  <2>3. \A s \in 0..Len(L.callbacks) : Cardinality(LineOf(<<t, f.line>>, s)) = Due(ev[t], s)
    BY <1>0, <1>2 DEF LogInv, LinesDue, Logged, Message, e
  <2>4. f.line >= ev[t].line /\ f.line = ev[t].line
    BY <1>0, <1>2 DEF e
  <2>. QED BY <1>1, <1>2, <1>4, <1>6, <2>1, <2>2, <2>3, <2>4 DEF Silent
<1>9. NoneLater' /\ LinesDue' /\ PartsDue' /\ InTurn' /\ WholeLines' /\ SameOrder' /\ Latest'
  BY <1>8, SilentStep
<1>. QED BY <1>5, <1>7, <1>9 DEF LogInv

\* The rest of the invariant after a step that writes.
LEMMA WritesStep ==
  ASSUME LogInv, NEW t \in Threads, NEW f, NEW k, NEW p, Writes(t, f, k, p),
         f.at \in AtSink => f.sink <= Len(L.callbacks) /\ Admits(f.sink, f.level),
         f.at = "prefix" => f.timed
  PROVE  LogInv'
<1>1. \A u \in Threads : ev'[u] = IF u = t THEN f ELSE ev[u]
  BY EventsAfter
<1>0. L' = L /\ mutex' = mutex /\ tm' = tm /\ began' = began
  BY DEF Writes
<1>2. LogTypeOK'
  <2>1. ev' \in [Threads -> EventType]
    BY DEF Writes, LogInv, LogTypeOK
  <2>2. out' \in [0..MaxCallbacks -> Seq(PieceType)]
    BY SinksAfter
  <2>. QED BY <1>0, <2>1, <2>2 DEF LogInv, LogTypeOK
<1>3. Unused'
  BY DEF Writes, Unused
<1>4. WantedThere'
  <2>1. ASSUME NEW u \in Threads
        PROVE  (/\ ev[u].at \in AtSink =>
                     ev[u].sink <= Len(L.callbacks) /\ Admits(ev[u].sink, ev[u].level)
                /\ ev[u].at = "lock" => ~ev[u].timed
                /\ ev[u].at = "prefix" => ev[u].timed)'
    <3>1. Admits(ev[u].sink, ev[u].level)' = Admits(ev'[u].sink, ev'[u].level) /\ L' = L
      BY DEF Admits, Writes
    <3>2. CASE u = t
      BY <1>1, <3>1, <3>2 DEF Writes
    <3>3. CASE u # t
      <4>1. /\ ev[u].at \in AtSink =>
                  ev[u].sink <= Len(L.callbacks) /\ Admits(ev[u].sink, ev[u].level)
            /\ ev[u].at = "lock" => ~ev[u].timed
            /\ ev[u].at = "prefix" => ev[u].timed
        BY DEF LogInv, WantedThere
      <4>. QED BY <1>1, <3>1, <3>3, <4>1
    <3>. QED BY <3>2, <3>3
  <2>2. ASSUME NEW s \in 0..MaxCallbacks, s > Len(L.callbacks) PROVE out'[s] = <<>>
    <3>1. out[s] = <<>>
      BY <2>2 DEF LogInv, WantedThere
    <3>2. s # k
      <4>1. k \in 0..Len(L.callbacks) /\ Len(L.callbacks) \in Nat
        BY DEF Writes, LogInv, LogTypeOK
      <4>. QED BY <2>2, <4>1
    <3>. QED BY <3>1, <3>2, SinksAfter DEF OneLonger
  <2>3. L' = L
    BY DEF Writes
  <2>. QED BY <2>1, <2>2, <2>3 DEF WantedThere
<1>5. Held'
  <2>. SUFFICES ASSUME L.lock, NEW u \in Threads
                PROVE  /\ mutex = u <=> ev'[u].at \notin {"idle", "lock"}
                       /\ mutex = u /\ ev'[u].timed => tm = Message(u)
    <3>1. \A v \in Threads : Message(v)' = Message(v)
      BY EventsAfter
    <3>. QED BY <1>0, <3>1 DEF Held
  <2>1. /\ mutex = u <=> ev[u].at \notin {"idle", "lock"}
        /\ mutex = u /\ ev[u].timed => tm = Message(u)
    BY DEF LogInv, Held
  <2>. QED BY <1>1, <2>1 DEF Writes
<1>. QED BY <1>2, <1>3, <1>4, <1>5, NoneLaterAfter, DueAfter, InTurnAfter, WholeAfter, OrderAfter
         DEF LogInv

\* What the callbacks write next.
LEMMA KindsInTurn ==
  /\ KindAfter(0) = "prefix" /\ KindAfter(1) = "text" /\ KindAfter(2) = "newline"
  /\ (0 + 1) % 3 = 1 /\ (1 + 1) % 3 = 2 /\ (2 + 1) % 3 = 0
<1>1. 0 % 3 = 0 /\ 1 % 3 = 1 /\ 2 % 3 = 2 /\ (0 + 1) % 3 = 1 /\ (1 + 1) % 3 = 2 /\ (2 + 1) % 3 = 0
  OBVIOUS
<1>. QED BY <1>1 DEF KindAfter, PieceKinds

\* What a thread writes to the sink its message is at.
PieceFrom(t, kind) ==
  [of |-> Message(t), kind |-> kind, time |-> IF kind = "prefix" THEN tm ELSE Message(t)]

\* The piece is the message's next, and with a lock it has its own time.
LEMMA AtPieceIs ==
  ASSUME LogInv, NEW t \in Threads, NEW kind \in {"prefix", "text", "newline"},
         ev[t].at = kind
  PROVE  /\ ev[t] \in EventType /\ Len(L.callbacks) \in Nat
         /\ ev[t].sink \in 0..Len(L.callbacks) /\ Admits(ev[t].sink, ev[t].level)
         /\ began
         /\ PieceFrom(t, kind) \in PieceType
         /\ PieceFrom(t, kind).of = Message(t) /\ PieceFrom(t, kind).kind = kind
         /\ L.lock => mutex = t /\ PieceFrom(t, kind).time = Message(t)
         /\ kind = KindAfter(Part(ev[t], ev[t].sink))
         /\ \A s : s # ev[t].sink => Part(ev[t], s) = 0
         /\ \A s \in 0..Len(L.callbacks) :
              Due(ev[t], s) = IF s >= ev[t].sink THEN Part(ev[t], s)
                              ELSE IF Admits(s, ev[t].level) THEN 3 ELSE 0
<1>1. /\ ev[t] \in EventType /\ Len(L.callbacks) \in Nat /\ tm \in Times
  BY DEF LogInv, LogTypeOK
<1>2. ev[t].sink \in 0..Len(L.callbacks) /\ Admits(ev[t].sink, ev[t].level)
  <2>1. ev[t].sink <= Len(L.callbacks) /\ Admits(ev[t].sink, ev[t].level)
    BY DEF LogInv, WantedThere, AtSink
  <2>. QED BY <1>1, <2>1 DEF EventType
<1>3. began
  BY DEF LogInv, Unused, Idle
<1>4. Message(t) \in Threads \X Nat
  BY <1>1 DEF Message, EventType
<1>5. /\ PieceFrom(t, kind) \in PieceType
      /\ PieceFrom(t, kind).of = Message(t) /\ PieceFrom(t, kind).kind = kind
      /\ PieceFrom(t, kind).time = IF kind = "prefix" THEN tm ELSE Message(t)
  BY <1>1, <1>4 DEF PieceFrom, PieceType, Times
<1>6. L.lock => mutex = t /\ PieceFrom(t, kind).time = Message(t)
  <2>. SUFFICES ASSUME L.lock
                PROVE  mutex = t /\ PieceFrom(t, kind).time = Message(t)
    OBVIOUS
  <2>1. mutex = t
    BY DEF LogInv, Held
  <2>2. kind = "prefix" => tm = Message(t)
    BY <2>1 DEF LogInv, Held, WantedThere
  <2>. QED BY <1>5, <2>1, <2>2
<1>7. kind = KindAfter(Part(ev[t], ev[t].sink)) /\ \A s : s # ev[t].sink => Part(ev[t], s) = 0
  BY KindsInTurn DEF Part
<1>8. \A s \in 0..Len(L.callbacks) :
        Due(ev[t], s) = IF s >= ev[t].sink THEN Part(ev[t], s)
                        ELSE IF Admits(s, ev[t].level) THEN 3 ELSE 0
  BY DEF Due, AtSink
<1>. QED BY <1>1, <1>2, <1>3, <1>5, <1>6, <1>7, <1>8

\* The prefix and the text: the message stays at its sink.
LEMMA PieceStep ==
  ASSUME LogInv, NEW t \in Threads, NEW kind, NEW goesTo,
         \/ kind = "prefix" /\ goesTo = "text"
         \/ kind = "text" /\ goesTo = "newline",
         Piece(t, kind, [ev[t] EXCEPT !.at = goesTo])
  PROVE  LogInv'
<1>. DEFINE e == ev[t]
            k == ev[t].sink
            f == [ev[t] EXCEPT !.at = goesTo]
            p == PieceFrom(t, kind)
<1>1. kind \in {"prefix", "text", "newline"} /\ e.at = kind
  BY DEF Piece
<1>2. /\ e \in EventType /\ Len(L.callbacks) \in Nat
      /\ k \in 0..Len(L.callbacks) /\ Admits(k, e.level)
      /\ began /\ p \in PieceType /\ p.of = Message(t) /\ p.kind = kind
      /\ L.lock => mutex = t /\ p.time = Message(t)
      /\ kind = KindAfter(Part(e, k))
      /\ \A s : s # k => Part(e, s) = 0
      /\ \A s \in 0..Len(L.callbacks) :
           Due(e, s) = IF s >= k THEN Part(e, s) ELSE IF Admits(s, e.level) THEN 3 ELSE 0
  BY <1>1, AtPieceIs
<1>3. ev' = [ev EXCEPT ![t] = f] /\ UNCHANGED <<L, began, mutex, tm>>
  BY DEF Piece
<1>4. out' = [out EXCEPT ![k] = Append(out[k], p)]
  <2>1. k \in 0..MaxCallbacks
    <3>1. Len(L.callbacks) <= MaxCallbacks
      BY DEF LogInv, LogTypeOK
    <3>. QED BY <1>2, <3>1, LogAssumption
  <2>. QED BY <2>1 DEF Piece, PieceFrom, LogInv, LogTypeOK
<1>. HIDE DEF p
<1>5. /\ f \in EventType /\ f.at = goesTo /\ f.line = e.line /\ f.timed = e.timed
      /\ f.sink = k /\ f.level = e.level
  BY <1>2 DEF EventType, AtSink
<1>. HIDE DEF f
<1>6. /\ Part(f, k) = Part(e, k) + 1 /\ Part(f, k) = (Part(e, k) + 1) % 3
      /\ \A s : s # k => Part(f, s) = 0
      /\ kind = "prefix" => Part(e, k) = 0
  BY <1>1, <1>5, KindsInTurn DEF Part
<1>7. \A s \in 0..Len(L.callbacks) :
        Due(f, s) = IF s >= k THEN Part(f, s) ELSE IF Admits(s, e.level) THEN 3 ELSE 0
  BY <1>5 DEF Due, AtSink
<1>8. \A s \in 0..Len(L.callbacks) : Due(f, s) = IF s = k THEN Due(e, s) + 1 ELSE Due(e, s)
  <2>. SUFFICES ASSUME NEW s \in 0..Len(L.callbacks)
                PROVE  Due(f, s) = IF s = k THEN Due(e, s) + 1 ELSE Due(e, s)
    OBVIOUS
  <2>1. CASE s = k
    BY <1>2, <1>6, <1>7, <2>1
  <2>2. CASE s # k
    BY <1>2, <1>6, <1>7, <2>2
  <2>. QED BY <2>1, <2>2
<1>9. kind = "prefix" => Due(e, k) = 0
  BY <1>2, <1>6
<1>10. e.at \notin {"idle", "lock"} /\ f.at \notin {"idle", "lock"} /\ f.at # "prefix"
  BY <1>1, <1>5
<1>. HIDE DEF e
<1>11. Writes(t, f, k, p)
  BY <1>2, <1>3, <1>4, <1>5, <1>6, <1>8, <1>9, <1>10 DEF Writes, e
<1>12. f.sink <= Len(L.callbacks) /\ Admits(f.sink, f.level)
  BY <1>2, <1>5
<1>. QED BY <1>10, <1>11, <1>12, WritesStep

\* The newline: the message goes on at the next sink.
LEMMA NewlineStep ==
  ASSUME LogInv, NEW t \in Threads, NewlinePiece(t)
  PROVE  LogInv'
<1>. DEFINE e == ev[t]
            k == ev[t].sink
            f == Enter(ev[t], ev[t].sink + 1)
            p == PieceFrom(t, "newline")
<1>1. e.at = "newline"
  BY DEF NewlinePiece, Piece
<1>2. /\ e \in EventType /\ Len(L.callbacks) \in Nat
      /\ k \in 0..Len(L.callbacks) /\ Admits(k, e.level)
      /\ began /\ p \in PieceType /\ p.of = Message(t) /\ p.kind = "newline"
      /\ L.lock => mutex = t /\ p.time = Message(t)
      /\ "newline" = KindAfter(Part(e, k))
      /\ \A s : s # k => Part(e, s) = 0
      /\ \A s \in 0..Len(L.callbacks) :
           Due(e, s) = IF s >= k THEN Part(e, s) ELSE IF Admits(s, e.level) THEN 3 ELSE 0
  BY <1>1, AtPieceIs
<1>3. ev' = [ev EXCEPT ![t] = f] /\ UNCHANGED <<L, began, mutex, tm>>
  BY DEF NewlinePiece, Piece
<1>4. out' = [out EXCEPT ![k] = Append(out[k], p)]
  <2>1. k \in 0..MaxCallbacks
    <3>1. Len(L.callbacks) <= MaxCallbacks
      BY DEF LogInv, LogTypeOK
    <3>. QED BY <1>2, <3>1, LogAssumption
  <2>. QED BY <2>1 DEF NewlinePiece, Piece, PieceFrom, LogInv, LogTypeOK
<1>. HIDE DEF p
<1>5. Entered(e, k + 1, f)
  <2>1. LogTypeOK /\ k + 1 \in 0..(Len(L.callbacks) + 1)
    BY <1>2 DEF LogInv
  <2>. QED BY <1>2, <2>1, EnterIs
<1>. HIDE DEF f
<1>6. Part(e, k) = 2 /\ Part(f, k) = (Part(e, k) + 1) % 3
      /\ \A s : Part(f, s) = 0
  <2>1. Part(e, k) = 2
    BY <1>1 DEF Part
  <2>2. \A s : Part(f, s) = 0
    BY <1>5 DEF Entered
  <2>. QED BY <2>1, <2>2, KindsInTurn
<1>7. ASSUME NEW s \in 0..Len(L.callbacks)
      PROVE  Due(f, s) = IF s = k THEN Due(e, s) + 1 ELSE Due(e, s)
  <2>1. Due(f, s) = IF s < k + 1 /\ Admits(s, e.level) THEN 3 ELSE 0
    BY <1>5 DEF Entered
  <2>2. Due(e, s) = IF s >= k THEN Part(e, s) ELSE IF Admits(s, e.level) THEN 3 ELSE 0
    BY <1>2
  <2>3. CASE s = k
    BY <1>2, <1>6, <2>1, <2>2, <2>3
  <2>4. CASE s > k
    <3>1. Part(e, s) = 0
      BY <1>2, <2>4
    <3>. QED BY <1>2, <2>1, <2>2, <2>4, <3>1
  <2>5. CASE s < k
    BY <1>2, <2>1, <2>2, <2>5
  <2>. QED BY <1>2, <2>3, <2>4, <2>5
<1>8. /\ f \in EventType /\ f.line = e.line /\ f.timed = e.timed
      /\ f.at \in {"init_event", "prefix", "unlock"} /\ (f.at = "prefix" => f.timed)
      /\ f.at # "unlock" => f.sink <= Len(L.callbacks) /\ Admits(f.sink, f.level)
  BY <1>5 DEF Entered
<1>. HIDE DEF e
<1>9. Writes(t, f, k, p)
  BY <1>1, <1>2, <1>3, <1>4, <1>6, <1>7, <1>8 DEF Writes, e
<1>10. f.at \in AtSink => f.at # "unlock"
  BY DEF AtSink
<1>. QED BY <1>8, <1>9, <1>10, WritesStep

\* The settings, which stay once a thread has logged.
LEMMA SettingsStep ==
  ASSUME LogInv,
         \/ SetLock \/ SetQuiet(TRUE)
         \/ \E level \in Levels : SetLevel(level) \/ AddCallback(level)
  PROVE  LogInv'
<1>1. ~began /\ began' = began /\ mutex' = mutex /\ tm' = tm /\ ev' = ev /\ out' = out
  BY DEF SetLock, SetQuiet, SetLevel, AddCallback
<1>2. /\ L \in [lock : BOOLEAN, level : Nat, quiet : BOOLEAN, callbacks : Seq(Levels)]
      /\ Len(L.callbacks) \in Nat /\ Len(L.callbacks) <= MaxCallbacks
  BY DEF LogInv, LogTypeOK
<1>3. /\ L' \in [lock : BOOLEAN, level : Nat, quiet : BOOLEAN, callbacks : Seq(Levels)]
      /\ Len(L'.callbacks) <= MaxCallbacks
  <2>1. CASE SetLock \/ SetQuiet(TRUE)
    BY <1>2, <2>1 DEF SetLock, SetQuiet
  <2>2. ASSUME NEW level \in Levels, SetLevel(level)
        PROVE  /\ L' \in [lock : BOOLEAN, level : Nat, quiet : BOOLEAN, callbacks : Seq(Levels)]
               /\ Len(L'.callbacks) <= MaxCallbacks
    BY <1>2, <2>2, LogAssumption DEF SetLevel
  <2>3. ASSUME NEW level \in Levels, AddCallback(level)
        PROVE  /\ L' \in [lock : BOOLEAN, level : Nat, quiet : BOOLEAN, callbacks : Seq(Levels)]
               /\ Len(L'.callbacks) <= MaxCallbacks
    <3>. DEFINE cs == Append(L.callbacks, level)
    <3>1. L.callbacks \in Seq(Levels)
      BY <1>2
    <3>2. cs \in Seq(Levels) /\ Len(cs) = Len(L.callbacks) + 1
      BY <3>1
    <3>3. L' = [L EXCEPT !.callbacks = cs] /\ Len(L.callbacks) < MaxCallbacks
      BY <2>3 DEF AddCallback
    <3>. HIDE DEF cs
    <3>4. L' \in [lock : BOOLEAN, level : Nat, quiet : BOOLEAN, callbacks : Seq(Levels)]
          /\ L'.callbacks = cs
      BY <1>2, <3>2, <3>3
    <3>. QED BY <1>2, <3>2, <3>3, <3>4, LogAssumption
  <2>. QED BY <2>1, <2>2, <2>3
<1>4. LogTypeOK'
  BY <1>1, <1>3 DEF LogInv, LogTypeOK
<1>5. Unused' /\ ~began'
  BY <1>1 DEF LogInv, Unused
<1>6. (LogTypeOK /\ Unused /\ ~began => LogInv)'
  BY NotYetUsed, PTL
<1>. QED BY <1>4, <1>5, <1>6

\* Nothing is logged at the start.
LEMMA LogBegins == LogInit => LogInv
<1>. SUFFICES ASSUME LogInit PROVE LogInv
  OBVIOUS
<1>1. Idle \in EventType
  BY DEF Idle, EventType
<1>2. LogTypeOK
  <2>1. L \in [lock : BOOLEAN, level : Nat, quiet : BOOLEAN, callbacks : Seq(Levels)]
        /\ Len(L.callbacks) <= MaxCallbacks
    BY LogAssumption DEF LogInit
  <2>2. ev \in [Threads -> EventType]
    BY <1>1 DEF LogInit
  <2>3. out \in [0..MaxCallbacks -> Seq(PieceType)] /\ tm \in Times
    BY DEF LogInit, Times
  <2>. QED BY <2>1, <2>2, <2>3 DEF LogInit, LogTypeOK
<1>3. Unused /\ ~began
  BY DEF LogInit, Unused
<1>. QED BY <1>2, <1>3, NotYetUsed

\* Every step keeps the invariant.
LEMMA LogStays == LogInv /\ [LogNext]_logVars => LogInv'
<1>. SUFFICES ASSUME LogInv, [LogNext]_logVars PROVE LogInv'
  OBVIOUS
<1>1. CASE \/ SetLock \/ SetQuiet(TRUE)
           \/ \E level \in Levels : SetLevel(level) \/ AddCallback(level)
  BY <1>1, SettingsStep
<1>2. ASSUME NEW t \in Threads, NEW level \in Levels, LogCall(t, level) PROVE LogInv'
  BY <1>2, LogCallStep
<1>3. ASSUME NEW t \in Threads, LogStep(t) PROVE LogInv'
  <2>1. CASE Lock(t)
    BY <2>1, LockStep
  <2>2. CASE InitEvent(t)
    BY <2>2, InitEventStep
  <2>3. CASE PrefixPiece(t)
    BY <2>3, PieceStep DEF PrefixPiece
  <2>4. CASE TextPiece(t)
    BY <2>4, PieceStep DEF TextPiece
  <2>5. CASE NewlinePiece(t)
    BY <2>5, NewlineStep
  <2>6. CASE Unlock(t)
    BY <2>6, UnlockStep
  <2>. QED BY <1>3, <2>1, <2>2, <2>3, <2>4, <2>5, <2>6 DEF LogStep
<1>4. CASE UNCHANGED logVars
  <2>1. L' = L /\ began' = began /\ mutex' = mutex /\ tm' = tm /\ ev' = ev /\ out' = out
    BY <1>4 DEF logVars
  <2>2. /\ LogTypeOK' = LogTypeOK /\ Unused' = Unused
        /\ WantedThere' = WantedThere
    BY <2>1 DEF LogTypeOK, Unused, WantedThere, Admits
  <2>3. NoneLater' = NoneLater /\ PartsDue' = PartsDue /\ InTurn' = InTurn
    BY <2>1 DEF NoneLater, PartsDue, InTurn, PiecesOf, Part
  <2>4. LinesDue' = LinesDue
    BY <2>1 DEF LinesDue, LineOf, Logged, Message, Due, Part, Admits
  <2>5. Held' = Held /\ WholeLines' = WholeLines
    BY <2>1 DEF Held, WholeLines, Rest, Part, Message
  <2>6. SameOrder' = SameOrder /\ Latest' = Latest
    BY <2>1 DEF SameOrder, Latest, Heads, Before, Message
  <2>. QED BY <2>2, <2>3, <2>4, <2>5, <2>6 DEF LogInv
<1>. QED BY <1>1, <1>2, <1>3, <1>4 DEF LogNext

\* However many threads log, to however many sinks: with a lock lines are whole
\* and in one order, and always each message is where it belongs, once.
THEOREM LinesAreWhole == LogSpec => []LinesWhole
<1>1. LogInv => LinesWhole
  <2>. SUFFICES ASSUME LogInv PROVE LinesWhole
    OBVIOUS
  <2>1. DOMAIN out = 0..MaxCallbacks
    BY DEF LogInv, LogTypeOK
  <2>2. L.lock => \A s \in DOMAIN out : Unmixed(out[s])
    BY <2>1 DEF LogInv, WholeLines
  <2>3. L.lock => \A s, r \in DOMAIN out : \A i, j \in Heads(s) :
                    i < j => ~Before(r, out[s][j].of, out[s][i].of)
    BY <2>1 DEF LogInv, SameOrder
  <2>4. \A t \in Threads : \A s \in DOMAIN out : \A i \in PiecesOf(t, s) :
          out[s][i].kind = KindAfter(Cardinality({j \in PiecesOf(t, s) : j < i}))
    BY <2>1 DEF LogInv, InTurn
  <2>5. ASSUME NEW t \in Threads, ev[t].at = "idle", ev[t].line > 0,
               NEW s \in 0..Len(L.callbacks)
        PROVE  Cardinality(LineOf(Message(t), s)) = IF Admits(s, ev[t].level) THEN 3 ELSE 0
    <3>1. Cardinality(LineOf(Message(t), s)) = Due(ev[t], s)
      BY <2>5 DEF LogInv, LinesDue, Logged
    <3>. QED BY <2>5, <3>1 DEF Due, AtSink
  <2>. QED BY <2>2, <2>3, <2>4, <2>5 DEF LinesWhole
<1>. QED BY <1>1, LogBegins, LogStays, PTL DEF LogSpec

-----------------------------------------------------------------------------
(* The connection queue.  Its properties are inductive together, once it is  *)
(* said that a node in a caller's hands already ends the list it is going to *)
(* be linked into.                                                           *)

QueueInv == TypeOK /\ QueueIntact /\ NodesExact /\ NodeReady

-------------------------------------------------------------------------------
LEMMA QueueInvInit == Init => QueueInv
<1> SUFFICES ASSUME Init PROVE QueueInv
  OBVIOUS
<1>1. TypeOK
  <2>1. list \in Seq(Nodes) /\ used \subseteq Nodes
    BY DEF Init
  <2>2. QED
    BY <2>1 DEF Init, TypeOK
<1>2. QueueIntact /\ NodesExact /\ NodeReady
  BY ConnQueueAssumption DEF Init, QueueIntact, NodesExact, NodeReady
<1>3. QED
  BY <1>1, <1>2 DEF QueueInv

\* A node of the list is allocated and in no caller's hands.
LEMMA Linked ==
  ASSUME QueueInv, ~destroyed, NEW k \in 1 .. Len(list)
  PROVE  list[k] \in used /\ list[k] \in Nodes /\ list[k] # NoNode
BY ConnQueueAssumption DEF QueueInv, TypeOK, NodesExact

\* A set of rounds that is not empty has a least one.
LEMMA First ==
  ASSUME NEW n \in Nat, NEW Rounds, Rounds \subseteq 0 .. (n - 1), Rounds # {}
  PROVE  \E k \in Rounds : k - 1 \notin Rounds
<1> DEFINE All == 0 .. (n - 1)
           Below == {0 .. k : k \in Rounds}
<1>1. IsWellFoundedOn(StrictSubsetOrdering(All), SUBSET All)
  <2>1. IsFiniteSet(All)
    BY FS_Interval
  <2>2. QED
    BY <2>1, FS_FiniteSubsetsOfFinite, FS_StrictSubsetOrderingWellFounded
<1>2. Below \subseteq SUBSET All /\ Below # {}
  <2>1. \A k \in Rounds : 0 .. k \subseteq All
    OBVIOUS
  <2>2. QED
    BY <2>1
<1>3. PICK least \in Below :
        \A b \in Below : <<b, least>> \notin StrictSubsetOrdering(All)
  <2> HIDE DEF Below, All
  <2> QED
    BY <1>1, <1>2, WFMin
<1>4. PICK k \in Rounds : least = 0 .. k
  OBVIOUS
<1>5. SUFFICES ASSUME k - 1 \in Rounds PROVE FALSE
  BY <1>4
<1>6. 0 .. (k - 1) \in Below /\ least \in Below
  BY <1>5
<1>7. 0 .. (k - 1) \subseteq 0 .. k /\ k \notin 0 .. (k - 1) /\ k \in 0 .. k
  OBVIOUS
<1>8. <<0 .. (k - 1), least>> \in StrictSubsetOrdering(All)
  <2> HIDE DEF Below, All
  <2>1. 0 .. (k - 1) \in SUBSET All /\ least \in SUBSET All
    BY <1>2, <1>6
  <2>2. 0 .. (k - 1) # least
    BY <1>4, <1>7
  <2>3. QED
    BY <1>4, <1>7, <2>1, <2>2 DEF StrictSubsetOrdering
<1>9. QED
  BY <1>3, <1>6, <1>8

\* The walk of queue_destroy passes the nodes of the list, one a round: there
\* is no first round in which it would be somewhere else.
LEMMA WalksTheList ==
  ASSUME QueueInv, ~destroyed
  PROVE  \A k \in 0 .. (size - 1) : Walk[k] = list[k + 1]
<1> DEFINE D == 0 .. (size - 1)
           f == [k \in D |-> list[k + 1]]
           Wrong == {k \in D : Walk[k] # list[k + 1]}
<1>1. /\ size = Len(list) /\ size \in Nat
      /\ size > 0 => head = list[1]
      /\ \A k \in 1 .. size : next[list[k]] = IF k < size THEN list[k + 1] ELSE NoNode
  BY DEF QueueInv, TypeOK, QueueIntact
<1>2. f = [k \in D |-> IF k = 0 THEN head ELSE next[f[k - 1]]]
  <2>1. \A k \in D : f[k] = IF k = 0 THEN head ELSE next[f[k - 1]]
    BY <1>1
  <2>2. QED
    BY <2>1
<1>3. \A k \in D : Walk[k] = IF k = 0 THEN head ELSE next[Walk[k - 1]]
  <2>1. Walk = [k \in D |-> IF k = 0 THEN head ELSE next[Walk[k - 1]]]
    BY <1>2 DEF Walk
  <2> HIDE DEF D
  <2>2. QED
    BY <2>1
<1>4. Wrong = {}
  <2> SUFFICES ASSUME Wrong # {} PROVE FALSE
    OBVIOUS
  <2>1. PICK k \in Wrong : k - 1 \notin Wrong
    BY <1>1, First
  <2>2. k \in D /\ Walk[k] # list[k + 1]
    OBVIOUS
  <2>3. k = 0 => Walk[k] = list[k + 1]
    BY <1>1, <1>3, <2>2
  <2>4. k # 0 => Walk[k] = list[k + 1]
    <3> SUFFICES ASSUME k # 0 PROVE Walk[k] = list[k + 1]
      OBVIOUS
    <3>1. k - 1 \in D
      BY <1>1, <2>2
    <3>2. Walk[k - 1] = list[k]
      BY <2>1, <3>1
    <3>3. Walk[k] = next[list[k]]
      BY <1>3, <2>2, <3>2
    <3>4. QED
      BY <1>1, <2>2, <3>3
  <2>5. QED
    BY <2>2, <2>3, <2>4
<1>5. QED
  BY <1>4

LEMMA NewNodeKeeps ==
  ASSUME QueueInv, NEW p \in Callers, NEW d \in Data, NewNode(p, d)
  PROVE  QueueInv'
<1>1. PICK n \in Nodes \ used :
        /\ node' = [node EXCEPT ![p] = n]
        /\ used' = used \cup {n}
        /\ data' = [data EXCEPT ![n] = d]
        /\ next' = [next EXCEPT ![n] = NoNode]
  BY DEF NewNode
<1>2. /\ ~destroyed /\ node[p] = NoNode
      /\ UNCHANGED <<head, tail, size, got, destroyed, list>>
  BY DEF NewNode
<1>3. \A k \in 1 .. Len(list) : list[k] # n /\ list[k] \in Nodes
  BY <1>1, <1>2, Linked
<1>4. \A q \in Callers : node[q] # n
  BY <1>1, <1>2, ConnQueueAssumption DEF QueueInv, NodesExact
<1>5. TypeOK'
  BY <1>1, <1>2 DEF QueueInv, TypeOK
<1>6. QueueIntact'
  BY <1>1, <1>2, <1>3 DEF QueueInv, TypeOK, QueueIntact
<1>7. NodesExact'
  <2>1. node \in [Callers -> Nodes \cup {NoNode}]
    BY DEF QueueInv, TypeOK
  <2>2. \A q \in Callers : node'[q] = IF q = p THEN n ELSE node[q]
    BY <1>1, <2>1
  <2>3. \A q, r \in Callers : node'[q] = node'[r] /\ node'[q] # NoNode => q = r
    BY <1>2, <1>4, <2>2 DEF QueueInv, NodesExact
  <2>4. \A q \in Callers, k \in 1 .. Len(list) : node'[q] # list[k]
    BY <1>2, <1>3, <2>2 DEF QueueInv, NodesExact
  <2>5. \A m \in Nodes : m \in used' <=> \/ \E k \in 1 .. Len(list) : list[k] = m
                                         \/ \E q \in Callers : node'[q] = m
    BY <1>1, <1>2, <2>2, ConnQueueAssumption DEF QueueInv, NodesExact
  <2>6. QED
    BY <1>2, <2>3, <2>4, <2>5 DEF QueueInv, NodesExact
<1>8. NodeReady'
  BY <1>1, <1>2, <1>4 DEF QueueInv, TypeOK, NodeReady
<1>9. QED
  BY <1>5, <1>6, <1>7, <1>8 DEF QueueInv

LEMMA EnqueueKeeps ==
  ASSUME QueueInv, NEW p \in Callers, Enqueue(p)
  PROVE  QueueInv'
<1> DEFINE m == node[p]
           n == Len(list)
<1>0. ~destroyed
  BY DEF QueueInv, NodeReady, Enqueue
<1>1. /\ m \in Nodes /\ m # NoNode /\ n \in Nat
      /\ list \in Seq(Nodes) /\ node \in [Callers -> Nodes \cup {NoNode}]
      /\ next \in [Nodes -> Nodes \cup {NoNode}]
  BY DEF QueueInv, TypeOK, Enqueue
<1>2. /\ list' = Append(list, m) /\ Len(list') = n + 1
      /\ list'[n + 1] = m /\ \A k \in 1 .. n : list'[k] = list[k]
      /\ size' = size + 1
      /\ node' = [node EXCEPT ![p] = NoNode]
      /\ UNCHANGED <<data, used, got, destroyed>>
  BY <1>1 DEF Enqueue, Grown
<1>3. \A k \in 1 .. n : list[k] # m /\ list[k] \in Nodes /\ list[k] # NoNode
  BY <1>0, Linked DEF QueueInv, NodesExact
<1>4. TypeOK'
  BY <1>1, <1>2 DEF QueueInv, TypeOK, Enqueue, Link
<1>5. NodesExact'
  <2>1. \A j, k \in 1 .. n : list[j] = list[k] => j = k
    BY <1>0 DEF QueueInv, NodesExact
  <2>2. \A k \in 1 .. n + 1 : k \in 1 .. n \/ k = n + 1
    BY ONLY <1>1
  <2>3. \A j, k \in 1 .. n + 1 : list'[j] = list'[k] => j = k
    BY ONLY <1>1, <1>2, <1>3, <2>1, <2>2
  <2>4. \A q \in Callers : node'[q] = IF q = p THEN NoNode ELSE node[q]
    BY <1>1, <1>2
  <2>5. \A q, r \in Callers : node'[q] = node'[r] /\ node'[q] # NoNode => q = r
    BY <1>0, <2>4 DEF QueueInv, NodesExact
  <2>6. \A q \in Callers, k \in 1 .. n + 1 : node'[q] # list'[k]
    <3> TAKE q \in Callers, k \in 1 .. n + 1
    <3>1. CASE q = p
      BY <1>1, <1>2, <1>3, <2>2, <2>4, <3>1
    <3>2. CASE q # p
      <4>1. node'[q] = node[q] /\ (node[q] = m => FALSE)
        BY <1>0, <1>1, <2>4, <3>2 DEF QueueInv, NodesExact
      <4>2. k \in 1 .. n => node[q] # list[k]
        BY <1>0 DEF QueueInv, NodesExact
      <4>3. QED
        BY <1>2, <2>2, <4>1, <4>2
    <3>3. QED
      BY <3>1, <3>2
  <2>7. \A v \in Nodes : v \in used <=> \/ \E k \in 1 .. n : list[k] = v
                                        \/ \E q \in Callers : node[q] = v
    BY <1>0 DEF QueueInv, NodesExact
  <2>8. \A v : (\E k \in 1 .. n + 1 : list'[k] = v) <=>
                 v = m \/ \E k \in 1 .. n : list[k] = v
    BY ONLY <1>1, <1>2
  <2>9. \A v \in Nodes : (\E q \in Callers : node'[q] = v) <=>
                           \E q \in Callers : q # p /\ node[q] = v
    BY <2>4, ConnQueueAssumption
  <2>10. \A v \in Nodes : (\E q \in Callers : node[q] = v) <=>
                            v = m \/ \E q \in Callers : q # p /\ node[q] = v
    OBVIOUS
  <2>11. \A v \in Nodes : v \in used' <=> \/ \E k \in 1 .. n + 1 : list'[k] = v
                                          \/ \E q \in Callers : node'[q] = v
    BY <1>2, <2>7, <2>8, <2>9, <2>10
  <2>12. QED
    BY ONLY <1>0, <1>2, <2>3, <2>5, <2>6, <2>11 DEF NodesExact
<1>6. QueueIntact'
  <2>1. /\ size = n
        /\ n = 0 => head = NoNode /\ tail = NoNode
        /\ n > 0 => head = list[1] /\ tail = list[n]
        /\ \A k \in 1 .. n : next[list[k]] = IF k < n THEN list[k + 1] ELSE NoNode
    BY <1>0, <1>1 DEF QueueInv, QueueIntact
  <2>2. next[m] = NoNode
    BY <1>1 DEF QueueInv, NodeReady
  <2>3. tail' = m /\ size' = n + 1 /\ list' # <<>>
    BY <1>1, <1>2, <2>1 DEF Enqueue, Link
  <2>4. CASE n = 0
    <3>1. head' = m /\ next' = next
      BY <1>1, <2>1, <2>4 DEF Enqueue, Link
    <3>2. QED
      BY ONLY <1>1, <1>2, <2>2, <2>3, <2>4, <3>1 DEF QueueIntact
  <2>5. CASE n > 0
    <3>1. tail = list[n] /\ tail # NoNode /\ head = list[1] /\ n \in 1 .. n
      BY <1>1, <1>3, <2>1, <2>5
    <3>2. head' = head /\ next' = [next EXCEPT ![list[n]] = m]
      BY <3>1 DEF Enqueue, Link
    <3>3. \A k \in 1 .. n : next'[list[k]] = IF k = n THEN m ELSE list[k + 1]
      <4>1. \A j, k \in 1 .. n : list[j] = list[k] => j = k
        BY <1>0 DEF QueueInv, NodesExact
      <4>2. \A k \in 1 .. n : next[list[k]] = IF k < n THEN list[k + 1] ELSE NoNode
        BY <2>1
      <4>3. QED
        BY ONLY <1>1, <1>3, <3>1, <3>2, <4>1, <4>2
    <3>4. next'[m] = NoNode
      BY <1>1, <1>3, <2>2, <3>1, <3>2
    <3>5. \A k \in 1 .. n + 1 :
            next'[list'[k]] = IF k < n + 1 THEN list'[k + 1] ELSE NoNode
      BY ONLY <1>1, <1>2, <3>3, <3>4
    <3>6. head' = list'[1]
      BY <1>2, <3>1, <3>2
    <3>7. QED
      BY ONLY <1>1, <1>2, <2>3, <3>5, <3>6 DEF QueueIntact
  <2>6. QED
    BY <1>1, <2>4, <2>5
<1>7. NodeReady'
  <2> SUFFICES ASSUME NEW q \in Callers, node'[q] # NoNode
               PROVE  next'[node'[q]] = NoNode /\ data'[node'[q]] \in Data
    BY <1>0, <1>2 DEF NodeReady
  <2>1. node'[q] = node[q] /\ q # p /\ node[q] \in Nodes
    BY <1>1, <1>2
  <2>2. node[q] # tail /\ next[node[q]] = NoNode /\ data[node[q]] \in Data
    <3>1. n > 0 => tail = list[n] /\ n \in 1 .. n
      BY <1>0, <1>1 DEF QueueInv, QueueIntact
    <3>2. n = 0 => tail = NoNode
      BY <1>0, <1>1 DEF QueueInv, QueueIntact
    <3>3. \A k \in 1 .. n : node[q] # list[k]
      BY <1>0 DEF QueueInv, NodesExact
    <3>4. QED
      BY <1>1, <2>1, <3>1, <3>2, <3>3, ConnQueueAssumption
         DEF QueueInv, NodeReady
  <2>3. QED
    BY <1>1, <1>2, <2>1, <2>2 DEF Enqueue, Link
<1>8. QED
  BY <1>4, <1>5, <1>6, <1>7 DEF QueueInv

LEMMA DequeueKeeps ==
  ASSUME QueueInv, NEW p \in Callers, Dequeue(p)
  PROVE  QueueInv'
<1> DEFINE m == head
           n == Len(list)
<1>1. /\ ~destroyed /\ head # NoNode /\ n \in Nat /\ list \in Seq(Nodes)
      /\ size = n
      /\ n = 0 => head = NoNode /\ tail = NoNode
      /\ n > 0 => head = list[1] /\ tail = list[n]
      /\ \A k \in 1 .. n : next[list[k]] = IF k < n THEN list[k + 1] ELSE NoNode
  BY DEF QueueInv, TypeOK, QueueIntact, Dequeue, Freed
<1>2. n > 0 /\ m = list[1] /\ m \in Nodes /\ m \in used
  <2>1. n > 0
    BY ONLY <1>1
  <2>2. QED
    BY <1>1, <2>1, Linked
<1>3. /\ list' = Tail(list) /\ Len(list') = n - 1
      /\ \A k \in 1 .. n - 1 : list'[k] = list[k + 1]
      /\ size' = n - 1 /\ used' = used \ {m}
      /\ head' = next[m] /\ tail' = IF next[m] = NoNode THEN NoNode ELSE tail
      /\ got' = [got EXCEPT ![p] = data[m]]
      /\ UNCHANGED <<next, data, node, destroyed>>
  BY <1>1, <1>2 DEF Dequeue, TailAfter, Freed
<1>4. next[m] = IF n > 1 THEN list[2] ELSE NoNode
  BY ONLY <1>1, <1>2
<1>5. \A k \in 1 .. n : list[k] \in Nodes /\ list[k] # NoNode
  BY <1>1, Linked
<1>6. TypeOK'
  BY <1>1, <1>2, <1>3 DEF QueueInv, TypeOK
<1>7. QueueIntact'
  <2>1. \A k \in 1 .. n - 1 :
          next'[list'[k]] = IF k < n - 1 THEN list'[k + 1] ELSE NoNode
    BY ONLY <1>1, <1>2, <1>3
  <2>2. CASE n = 1
    <3>1. list' = <<>> /\ head' = NoNode /\ tail' = NoNode
      <4>1. next[m] = NoNode
        BY ONLY <1>4, <2>2
      <4>2. list' = <<>>
        <5>1. list' \in Seq(Nodes) /\ Len(list') = 0
          BY <1>3, <1>6, <2>2 DEF TypeOK
        <5>2. QED
          BY ONLY <5>1
      <4>3. QED
        BY ONLY <1>3, <4>1, <4>2
    <3>2. QED
      BY ONLY <1>3, <2>1, <2>2, <3>1 DEF QueueIntact
  <2>3. CASE n > 1
    <3>1. list' # <<>> /\ 2 \in 1 .. n /\ 1 \in 1 .. n - 1 /\ n - 1 \in 1 .. n - 1
      <4>1. n - 1 # 0 /\ Len(list') # 0
        BY ONLY <1>1, <1>3, <2>3
      <4>2. list' # <<>>
        BY ONLY <4>1
      <4>3. QED
        BY ONLY <1>1, <2>3, <4>2
    <3>2. head' = list'[1] /\ tail' = list[n]
      BY ONLY <1>1, <1>2, <1>3, <1>4, <1>5, <2>3, <3>1
    <3>3. list'[n - 1] = list[n]
      BY ONLY <1>1, <1>3, <3>1
    <3>4. QED
      BY ONLY <1>3, <2>1, <3>1, <3>2, <3>3 DEF QueueIntact
  <2>4. QED
    BY ONLY <1>1, <1>2, <2>2, <2>3
<1>8. NodesExact'
  <2>1. \A j, k \in 1 .. n : list[j] = list[k] => j = k
    BY <1>1 DEF QueueInv, NodesExact
  <2>2. \A k \in 1 .. n - 1 : k + 1 \in 1 .. n /\ k + 1 # 1 /\ 1 \in 1 .. n
    BY ONLY <1>1, <1>2
  <2>3. \A j, k \in 1 .. n - 1 : list'[j] = list'[k] => j = k
    BY ONLY <1>1, <1>3, <2>1, <2>2
  <2>4. /\ \A q, r \in Callers : node[q] = node[r] /\ node[q] # NoNode => q = r
        /\ \A q \in Callers, k \in 1 .. n : node[q] # list[k]
        /\ \A v \in Nodes : v \in used <=> \/ \E k \in 1 .. n : list[k] = v
                                           \/ \E q \in Callers : node[q] = v
    BY <1>1 DEF QueueInv, NodesExact
  <2>5. \A q \in Callers, k \in 1 .. n - 1 : node'[q] # list'[k]
    BY ONLY <1>1, <1>3, <2>2, <2>4
  <2>6. ASSUME NEW v \in Nodes
        PROVE  (\E k \in 1 .. n - 1 : list'[k] = v) <=>
                 v # m /\ \E k \in 1 .. n : list[k] = v
    <3>1. ASSUME NEW k \in 1 .. n - 1, list'[k] = v
          PROVE  v # m /\ \E j \in 1 .. n : list[j] = v
      <4>1. k + 1 \in 1 .. n /\ list[k + 1] = v /\ k + 1 # 1 /\ 1 \in 1 .. n
        BY ONLY <1>3, <2>2, <3>1
      <4>2. QED
        BY ONLY <1>2, <2>1, <4>1
    <3>2. ASSUME NEW k \in 1 .. n, list[k] = v, v # m
          PROVE  \E j \in 1 .. n - 1 : list'[j] = v
      <4>1. k - 1 \in 1 .. n - 1 /\ list'[k - 1] = v
        BY ONLY <1>1, <1>2, <1>3, <3>2
      <4>2. QED
        BY ONLY <4>1
    <3>3. QED
      BY ONLY <3>1, <3>2
  <2>7. \A q \in Callers : node[q] # m
    BY ONLY <1>1, <1>2, <2>4
  <2>8. \A v \in Nodes : v \in used' <=> \/ \E k \in 1 .. n - 1 : list'[k] = v
                                         \/ \E q \in Callers : node'[q] = v
    BY ONLY <1>3, <2>4, <2>6, <2>7
  <2>9. QED
    BY ONLY <1>1, <1>3, <2>3, <2>4, <2>5, <2>8 DEF NodesExact
<1>9. NodeReady'
  BY <1>3 DEF QueueInv, NodeReady
<1>10. QED
  BY <1>6, <1>7, <1>8, <1>9 DEF QueueInv

LEMMA QueueInvNext == QueueInv /\ [Next]_vars => QueueInv'
<1> SUFFICES ASSUME QueueInv, [Next]_vars PROVE QueueInv'
  OBVIOUS
<1>1. ASSUME NEW p \in Callers, DequeueEmpty(p) PROVE QueueInv'
  BY <1>1 DEF DequeueEmpty, QueueInv, TypeOK, QueueIntact, NodesExact, NodeReady, nodeVars
<1>2. CASE Destroy
  <2>1. list' \in Seq(Nodes)
    BY <1>2 DEF Destroy
  <2>2. TypeOK'
    BY <1>2, <2>1 DEF Destroy, QueueInv, TypeOK
  <2>3. used' = {}
    <3>1. used = {list[k] : k \in 1 .. Len(list)} /\ size = Len(list) /\ Len(list) \in Nat
      BY <1>2, ConnQueueAssumption
         DEF Destroy, QueueInv, TypeOK, QueueIntact, NodesExact
    <3>2. {Walk[k] : k \in 0 .. (size - 1)} = {list[k] : k \in 1 .. Len(list)}
      <4>1. \A k \in 0 .. (size - 1) : Walk[k] = list[k + 1]
        BY <1>2, WalksTheList DEF Destroy
      <4>2. ASSUME NEW k \in 1 .. Len(list)
            PROVE  k - 1 \in 0 .. (size - 1) /\ Walk[k - 1] = list[k]
        <5>1. k - 1 \in 0 .. (size - 1) /\ (k - 1) + 1 = k
          BY <3>1
        <5>2. QED
          BY <4>1, <5>1
      <4>3. ASSUME NEW k \in 0 .. (size - 1)
            PROVE  k + 1 \in 1 .. Len(list) /\ Walk[k] = list[k + 1]
        BY <3>1, <4>1
      <4>4. QED
        BY ONLY <4>2, <4>3
    <3>3. QED
      BY <1>2, <3>1, <3>2 DEF Destroy
  <2>4. NodesExact'
    BY <1>2, <2>3 DEF Destroy, NodesExact
  <2>5. QED
    BY <1>2, <2>2, <2>4 DEF Destroy, QueueInv, QueueIntact, NodeReady
<1>3. CASE UNCHANGED vars
  BY <1>3 DEF vars, nodeVars, QueueInv, TypeOK, QueueIntact, NodesExact, NodeReady
<1>4. QED
  BY <1>1, <1>2, <1>3, NewNodeKeeps, EnqueueKeeps, DequeueKeeps DEF Next

-------------------------------------------------------------------------------
(* The theorems. *)

\* The inductive invariant holds in every state.
THEOREM QueueInvariance == Spec => []QueueInv
BY QueueInvInit, QueueInvNext, PTL DEF Spec

\* The links, the ends and the size of the queue agree.
THEOREM QueueIsIntact == Spec => []QueueIntact
<1>1. QueueInv => QueueIntact
  BY DEF QueueInv
<1>2. QED
  BY <1>1, QueueInvariance, PTL

\* No node is leaked, shared, or freed while it is linked in, and
\* queue_destroy frees them all.
THEOREM NodesAreExact == Spec => []NodesExact
<1>1. QueueInv => NodesExact
  BY DEF QueueInv
<1>2. QED
  BY <1>1, QueueInvariance, PTL

-------------------------------------------------------------------------------
(* The refinement: what FifoQueue promises. *)

LEMMA ItemsType ==
  ASSUME QueueInv
  PROVE  /\ Len(list) \in Nat /\ Items \in Seq(Data \cup {Nothing})
         /\ Len(Items) = Len(list)
         /\ \A k \in 1 .. Len(list) : Items[k] = data[list[k]] /\ list[k] \in Nodes
BY DEF QueueInv, TypeOK, Items

\* Two sequences are the same when they have the same elements.
LEMMA SameSeq ==
  ASSUME NEW S, NEW s \in Seq(S), NEW t \in Seq(S), Len(s) = Len(t),
         \A k \in 1 .. Len(s) : s[k] = t[k]
  PROVE  s = t
OBVIOUS

\* Nothing is seen of a step that leaves the list and its ints alone.
LEMMA ItemsSame ==
  ASSUME QueueInv, QueueInv', list' = list, \A k \in 1 .. Len(list) : data'[list[k]] = data[list[k]]
  PROVE  Items' = Items
BY DEF Items

LEMMA FifoNext ==
  ASSUME QueueInv, QueueInv', [Next]_vars
  PROVE  [Fifo!Next]_<<Items, got>>
<1> USE DEF Fifo!Next
<1>1. ASSUME NEW p \in Callers, NEW d \in Data, NewNode(p, d)
      PROVE  UNCHANGED <<Items, got>>
  <2>1. PICK m \in Nodes \ used : data' = [data EXCEPT ![m] = d]
    BY <1>1 DEF NewNode
  <2>2. \A k \in 1 .. Len(list) : list[k] # m /\ list[k] \in Nodes
    BY <1>1, <2>1, Linked DEF NewNode
  <2>3. \A k \in 1 .. Len(list) : data'[list[k]] = data[list[k]]
    BY <2>1, <2>2 DEF QueueInv, TypeOK
  <2>4. QED
    BY <1>1, <2>3, ItemsSame DEF NewNode
<1>2. ASSUME NEW p \in Callers, Enqueue(p)
      PROVE  \E d \in Data : Fifo!Enqueue(d)
  <2>1. data[node[p]] \in Data /\ node[p] \in Nodes
    BY <1>2 DEF Enqueue, QueueInv, NodeReady, TypeOK
  <2>2. list' = Append(list, node[p]) /\ UNCHANGED <<data, got>>
    BY <1>2 DEF Enqueue
  <2>3. Items' = Append(Items, data[node[p]])
    <3> DEFINE a == Append(Items, data[node[p]])
    <3>1. a \in Seq(Data \cup {Nothing}) /\ Len(a) = Len(list) + 1
          /\ \A k \in 1 .. Len(list) : a[k] = data[list[k]]
          /\ a[Len(list) + 1] = data[node[p]]
      BY <2>1, ItemsType
    <3>2. Len(list') = Len(list) + 1 /\ list'[Len(list) + 1] = node[p]
          /\ \A k \in 1 .. Len(list) : list'[k] = list[k]
      BY <2>1, <2>2 DEF QueueInv, TypeOK
    <3>3. /\ Items' \in Seq(Data \cup {Nothing}) /\ Len(Items') = Len(list')
          /\ \A k \in 1 .. Len(list') : Items'[k] = data'[list'[k]]
      BY ItemsType DEF QueueInv, TypeOK, Items
    <3>4. \A k \in 1 .. Len(list) + 1 : Items'[k] = a[k]
      <4> TAKE k \in 1 .. Len(list) + 1
      <4>1. k \in 1 .. Len(list) \/ k = Len(list) + 1
        BY ItemsType
      <4>2. QED
        BY ONLY <2>2, <3>1, <3>2, <3>3, <4>1
    <3>5. QED
      BY ONLY <3>1, <3>2, <3>3, <3>4, SameSeq
  <2>4. QED
    BY <2>1, <2>2, <2>3 DEF Fifo!Enqueue
<1>3. ASSUME NEW p \in Callers, Dequeue(p) PROVE Fifo!Dequeue(p)
  <2>1. ~destroyed /\ head # NoNode /\ list' = Tail(list) /\ data' = data
        /\ got' = [got EXCEPT ![p] = data[head]]
    BY <1>3 DEF Dequeue, Freed
  <2>2. list # <<>> /\ Len(list) > 0 /\ head = list[1]
    BY <2>1, ItemsType DEF QueueInv, QueueIntact, TypeOK
  <2>3. Items # <<>> /\ Head(Items) = data[head]
    BY <2>2, ItemsType
  <2>4. Items' = Tail(Items)
    <3>1. Tail(Items) \in Seq(Data \cup {Nothing}) /\ Len(Tail(Items)) = Len(list) - 1
          /\ \A k \in 1 .. Len(list) - 1 : Tail(Items)[k] = data[list[k + 1]]
      BY <2>2, <2>3, ItemsType
    <3>2. Len(list') = Len(list) - 1
          /\ \A k \in 1 .. Len(list) - 1 : list'[k] = list[k + 1]
      BY <2>1, <2>2 DEF QueueInv, TypeOK
    <3>3. /\ Items' \in Seq(Data \cup {Nothing}) /\ Len(Items') = Len(list')
          /\ \A k \in 1 .. Len(list') : Items'[k] = data'[list'[k]]
      BY ItemsType DEF QueueInv, TypeOK, Items
    <3>4. QED
      BY ONLY <2>1, <3>1, <3>2, <3>3, SameSeq
  <2>5. QED
    BY <2>1, <2>3, <2>4 DEF Fifo!Dequeue
<1>4. ASSUME NEW p \in Callers, DequeueEmpty(p) PROVE Fifo!DequeueEmpty(p)
  <2>1. list = <<>>
    BY <1>4, Linked, ItemsType DEF DequeueEmpty, QueueInv, QueueIntact
  <2>2. Items = <<>> /\ Items' = Items
    BY <1>4, <2>1, ItemsType, ItemsSame DEF DequeueEmpty, nodeVars
  <2>3. QED
    BY <1>4, <2>2 DEF DequeueEmpty, Fifo!DequeueEmpty
<1>5. CASE Destroy
  <2>1. list' = <<>> /\ got' = got
    BY <1>5 DEF Destroy
  <2>2. Items' = <<>>
    BY <2>1 DEF Items
  <2>3. QED
    BY <2>1, <2>2 DEF Fifo!Destroy
<1>6. CASE UNCHANGED vars
  BY <1>6, ItemsSame DEF vars, nodeVars
<1>7. QED
  BY <1>1, <1>2, <1>3, <1>4, <1>5, <1>6 DEF Next

\* queue_enqueue and queue_dequeue, called by any number of threads, are the
\* operations of a first-in first-out queue.
THEOREM QueueIsFifo == Spec => ImplementsFifoQueue
<1>1. Init => Fifo!Init
  <2>1. Init => Items = <<>>
    BY DEF Init, Items
  <2>2. QED
    BY <2>1 DEF Init, Fifo!Init
<1>2. QueueInv /\ QueueInv' /\ [Next]_vars => [Fifo!Next]_<<Items, got>>
  BY FifoNext
<1>3. QED
  BY <1>1, <1>2, QueueInvariance, PTL DEF Spec, ImplementsFifoQueue, Fifo!Spec

=============================================================================
