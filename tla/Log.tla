-------------------------------- MODULE Log --------------------------------
(***************************************************************************)
(* src/log/log.c: every thread of the server writes its messages to        *)
(* stderr, and to the files and callbacks that were added, in pieces; the  *)
(* time in a piece is read from the one structure localtime has.           *)
(***************************************************************************)
EXTENDS Integers, Sequences, FiniteSets

CONSTANTS Threads, Levels,
          MaxCallbacks,  \* MAX_CALLBACKS
          MaxLines       \* bound: the messages of a thread

VARIABLES L,         \* the settings: lock, level, quiet and callbacks' levels
          began,     \* whether a thread has logged: the settings stay
          mutex,     \* who holds log_lock
          tm,        \* localtime's structure: the message it was filled for
          ev,        \* a thread's message, and where log_log is with it
          out        \* the pieces in each sink; 0 is stderr

logVars == <<L, began, mutex, tm, ev, out>>

Nobody == 0

ASSUME LogAssumption ==
  /\ MaxCallbacks \in Nat /\ MaxLines \in Nat /\ Levels \subseteq Nat
  /\ Nobody \notin Threads

Idle == [at |-> "idle", line |-> 0, level |-> 0, timed |-> FALSE, sink |-> 0]
Message(t) == <<t, ev[t].line>>

\* Who gets a message: stderr unless L.quiet, and each callback by its level.
Admits(s, level) == IF s = 0 THEN ~L.quiet /\ level >= L.level
                    ELSE level >= L.callbacks[s]
Wanting(level, from) == {s \in from..Len(L.callbacks) : Admits(s, level)}
NextSink(level, from) ==
  LET w == Wanting(level, from)
  IN IF w = {} THEN Len(L.callbacks) + 1 ELSE CHOOSE s \in w : \A r \in w : s <= r

Enter(e, from) ==
  LET s == NextSink(e.level, from)
  IN [e EXCEPT !.sink = s,
               !.at = IF s > Len(L.callbacks) THEN "unlock"
                      ELSE IF e.timed THEN "prefix" ELSE "init_event"]

-----------------------------------------------------------------------------
SetLock == \* log_set_lock
  ~began /\ L' = [L EXCEPT !.lock = TRUE] /\ UNCHANGED <<began, mutex, tm, ev, out>>

SetLevel(level) == \* log_set_level
  ~began /\ L' = [L EXCEPT !.level = level] /\ UNCHANGED <<began, mutex, tm, ev, out>>

SetQuiet(enable) == \* log_set_quiet
  ~began /\ L' = [L EXCEPT !.quiet = enable] /\ UNCHANGED <<began, mutex, tm, ev, out>>

\* log_add_callback, log_add_fp
AddCallback(level) ==
  /\ ~began
  /\ Len(L.callbacks) < MaxCallbacks
  /\ L' = [L EXCEPT !.callbacks = Append(@, level)]
  /\ UNCHANGED <<began, mutex, tm, ev, out>>

-----------------------------------------------------------------------------
(* log_log                                                                 *)

LogCall(t, level) ==
  /\ ev[t].at = "idle" /\ ev[t].line < MaxLines
  /\ ev' = [ev EXCEPT ![t] = [Idle EXCEPT !.at = "lock", !.line = ev[t].line + 1,
                                          !.level = level]]
  /\ began' = TRUE
  /\ UNCHANGED <<L, mutex, tm, out>>

\* The test of the function is the wrong way round.
LockWithout(t) ==
  /\ ev[t].at = "lock"
  /\ L.lock \/ mutex = Nobody
  /\ mutex' = IF L.lock THEN mutex ELSE t
  /\ ev' = [ev EXCEPT ![t] = Enter(@, 0)]
  /\ UNCHANGED <<L, began, tm, out>>

Lock(t) ==
  /\ ev[t].at = "lock"
  /\ L.lock => mutex = Nobody
  /\ mutex' = IF L.lock THEN t ELSE mutex
  /\ ev' = [ev EXCEPT ![t] = Enter(@, 0)]
  /\ UNCHANGED <<L, began, tm, out>>

InitEvent(t) ==
  /\ ev[t].at = "init_event"
  /\ tm' = Message(t)
  /\ ev' = [ev EXCEPT ![t].timed = TRUE, ![t].at = "prefix"]
  /\ UNCHANGED <<L, began, mutex, out>>

\* stdout_callback, file_callback: three calls of printf
Piece(t, kind, next) ==
  /\ ev[t].at = kind
  /\ out' = [out EXCEPT ![ev[t].sink] =
               Append(@, [of |-> Message(t), kind |-> kind,
                          time |-> IF kind = "prefix" THEN tm ELSE Message(t)])]
  /\ ev' = [ev EXCEPT ![t] = next]
  /\ UNCHANGED <<L, began, mutex, tm>>

PrefixPiece(t) == Piece(t, "prefix", [ev[t] EXCEPT !.at = "text"])
TextPiece(t) == Piece(t, "text", [ev[t] EXCEPT !.at = "newline"])
NewlinePiece(t) == Piece(t, "newline", Enter(ev[t], ev[t].sink + 1))

Unlock(t) ==
  /\ ev[t].at = "unlock"
  /\ mutex' = IF L.lock THEN Nobody ELSE mutex
  /\ ev' = [ev EXCEPT ![t].at = "idle"]
  /\ UNCHANGED <<L, began, tm, out>>

-----------------------------------------------------------------------------
LogInit ==
  /\ L = [lock |-> FALSE, level |-> 0, quiet |-> FALSE, callbacks |-> <<>>]
  /\ began = FALSE /\ mutex = Nobody /\ tm = <<>>
  /\ ev = [t \in Threads |-> Idle]
  /\ out = [s \in 0..MaxCallbacks |-> <<>>]

LogStep(t) == Lock(t) \/ InitEvent(t) \/ PrefixPiece(t) \/ TextPiece(t) \/ NewlinePiece(t) \/ Unlock(t)

LogNext ==
  \/ SetLock \/ SetQuiet(TRUE)
  \/ \E level \in Levels : SetLevel(level) \/ AddCallback(level)
  \/ \E t \in Threads : LogStep(t) \/ \E level \in Levels : LogCall(t, level)

LogSpec == LogInit /\ [][LogNext]_logVars

-----------------------------------------------------------------------------
(* Properties.                                                             *)

PieceKinds == <<"prefix", "text", "newline">>

\* The kind of a piece that has n pieces before it.
KindAfter(n) == PieceKinds[(n % 3) + 1]

\* A sink whose lines are whole: three pieces of a message, with its own time.
Unmixed(pieces) ==
  \A i \in DOMAIN pieces :
    /\ pieces[i].kind = KindAfter(i - 1)
    /\ pieces[i].of = pieces[i - ((i - 1) % 3)].of
    /\ pieces[i].time = pieces[i].of

\* Where the lines of a sink begin, and whether one of m is before one of n.
Heads(s) == {i \in DOMAIN out[s] : out[s][i].kind = "prefix"}
Before(s, m, n) == \E i, j \in Heads(s) : i < j /\ out[s][i].of = m /\ out[s][j].of = n

\* The pieces in a sink of a thread, and of a message.
PiecesOf(t, s) == {i \in DOMAIN out[s] : out[s][i].of[1] = t}
LineOf(m, s) == {i \in DOMAIN out[s] : out[s][i].of = m}

\* With a lock function set, lines do not mix, show their own time and are in
\* the same order in every sink.  Without one, as the server runs, the pieces of
\* a thread's messages still are in their order; and in either case a message
\* is, once log_log returns, in the sinks that want it, once, and in no other.
LinesWhole ==
  /\ L.lock =>
       /\ \A s \in DOMAIN out : Unmixed(out[s])
       /\ \A s, r \in DOMAIN out : \A i, j \in Heads(s) :
            i < j => ~Before(r, out[s][j].of, out[s][i].of)
  /\ \A t \in Threads :
       /\ \A s \in DOMAIN out : \A i \in PiecesOf(t, s) :
            out[s][i].kind = KindAfter(Cardinality({j \in PiecesOf(t, s) : j < i}))
       /\ ev[t].at = "idle" /\ ev[t].line > 0 =>
            \A s \in 0..Len(L.callbacks) :
              Cardinality(LineOf(Message(t), s)) = IF Admits(s, ev[t].level) THEN 3 ELSE 0

=============================================================================
