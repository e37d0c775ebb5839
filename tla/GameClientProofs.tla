--------------------------- MODULE GameClientProofs ---------------------------
(***************************************************************************)
(* Safety of GameClient for any names, ids, words and keys and any number  *)
(* of objects, lines and restarts.                                         *)
(*                                                                         *)
(* Each property but the types has an invariant of its own: the reader of  *)
(* the keyboard needs that a key waits in the queue only until it is acted *)
(* on; what members send needs that only members accept a request; and     *)
(* the friends need that without a race only one thread saves, and that    *)
(* the client does not end itself in the middle of a save.  That what was  *)
(* received is shown, in order, needs that the five places on the way to   *)
(* the terminal are one line.                                              *)
(***************************************************************************)
EXTENDS GameClient, QueueLemmas, FiniteSetTheorems, TLAPS

USE DEF PushBackReq, ContainsReqIdx

\* Objects as the server sends them.
Sensible ==
    {o \in Objects : /\ o.type \in {"REG_ACCEPT", "LOGIN_ACCEPT"} => o.id \in Ids
                     /\ o.type = "ASK" => o.name \in Names
                     /\ o.type = "ACC" /\ o.name = NoName => o.about = 0}

Answers ==
    /\ rcvBuff \in Seq(Sensible)
    /\ game = "login" => cur.id \in Ids

TypeInv == TypeOK /\ Answers
-----------------------------------------------------------------------------
LEMMA QueuePushes ==
  ASSUME NEW S, NEW q \in Seq(S), NEW x \in S
  PROVE  Append(q, x) \in Seq(S)
  OBVIOUS

LEMMA QueuePops ==
  ASSUME NEW S, NEW q \in Seq(S), q # <<>>
  PROVE  Head(q) \in S /\ Tail(q) \in Seq(S)
  OBVIOUS

LEMMA ReceivedIsSensible ==
  ASSUME TypeOK, NEW o \in Received(objs + 1), objs < MaxObjs
  PROVE  o \in Sensible /\ o.about \in {0, objs + 1}
  BY ClientAssumption DEF TypeOK, Received, Obj, Sensible, Objects

LEMMA NoCurIsObject == NoCur \in Objects
  BY ClientAssumption DEF NoCur, Obj, Objects

LEMMA InitTypes == Init => TypeInv
  <1> SUFFICES ASSUME Init PROVE TypeInv
    OBVIOUS
  <1>1. NoData \in PlayerData
    BY DEF NoData, PlayerData
  <1>2. \A S : <<>> \in Seq(S)
    OBVIOUS
  <1>3. /\ 0 \in 0..MaxKeys /\ 0 \in 0..MaxObjs /\ 0 \in 0..MaxRestarts
        /\ 0 \in 0..MaxTtys
    BY ClientAssumption
  <1>4. TypeOK
    BY <1>1, <1>2, <1>3, NoCurIsObject DEF Init, TypeOK, Steps
  <1>5. Answers
    BY DEF Init, Answers
  <1> QED BY <1>4, <1>5 DEF TypeInv

LEMMA SaidIsTyped ==
  ASSUME TypeOK, NEW w \in Words, Say(w)
  PROVE  sysBuff' \in Seq(SysMsgs) /\ buff' \in Seq(Requests)
  <1>1. \A t \in {"OUTPUT", "FRIENDS", "REQUESTS"} : Msg(t, 0) \in SysMsgs
    BY ClientAssumption DEF Msg, SysMsgs
  <1>2. \A c \in DOMAIN Anyone : Anyone[c] \in Requests
    BY DEF Requests
  <1>3. \A c \in DOMAIN Members : Members[c] \in Requests
    BY DEF Requests
  <1>4. \A c \in DOMAIN Shows : Shows[c] \in {"OUTPUT", "FRIENDS", "REQUESTS"}
    BY DEF Shows
  <1> QED BY <1>1, <1>2, <1>3, <1>4, QueuePushes DEF Say, Push, Show, Refuse, TypeOK

LEMMA FriendIsTyped ==
  ASSUME player \in PlayerData, NEW n, NEW i \in Ids \cup {-1}, SetFriend(n, i)
  PROVE  player' \in PlayerData
  BY DEF SetFriend, PlayerData

LEMMA LoadedIsTyped ==
  ASSUME disk \in PlayerData \cup {Empty, Torn}
  PROVE  Loaded(disk) \in PlayerData
  BY DEF Loaded, NoData, PlayerData

LEMMA TellIsTyped ==
  ASSUME TypeOK, NEW k \in 0..MaxObjs, Tell(k)
  PROVE  sysBuff' \in Seq(SysMsgs)
  <1>1. Msg("OUTPUT", k) \in SysMsgs
    BY DEF Msg, SysMsgs
  <1> QED BY <1>1, QueuePushes DEF Tell, TypeOK

LEMMA LinesAreTyped == Lines \subseteq Seq(Words)
  <1> SUFFICES ASSUME NEW k \in 1..MaxWords, NEW line \in [1..k -> Words]
               PROVE  line \in Seq(Words)
    BY DEF Lines
  <1> QED BY ClientAssumption
-----------------------------------------------------------------------------
LEMMA TerminalKeepsTypes ==
  ASSUME TypeInv, TerminalStep
  PROVE  TypeInv'
  <1> USE DEF TypeInv
  <1>1. CASE Rest
    BY <1>1 DEF Rest, TypeOK, Answers, queues, data, past, counts
  <1>2. CASE HandleOutputMsg
    <2>1. outputMsg' \in Seq(0..MaxObjs)
      BY <1>2, QueuePops DEF HandleOutputMsg, TypeOK
    <2> QED BY <1>2, <2>1 DEF HandleOutputMsg, TypeOK, Answers, queues, data, counts
  <1>3. CASE HandleTalk
    BY <1>3 DEF HandleTalk, TypeOK, Answers, queues, data, past, counts
  <1>4. CASE SayWord
    <2>1. Head(ahead) \in Words /\ ahead' \in Seq(Words)
      BY <1>4, QueuePops DEF SayWord, TypeOK
    <2>2. sysBuff' \in Seq(SysMsgs) /\ buff' \in Seq(Requests)
      BY <1>4, <2>1, SaidIsTyped DEF SayWord
    <2> QED BY <1>4, <2>1, <2>2
          DEF SayWord, EndTalk, TypeOK, Answers, data, past, counts
  <1>5. CASE AcceptRequest
    <2> DEFINE n == reqBuff[Head(ahead).index]
    <2>1. ahead' \in Seq(Words)
      BY <1>5, QueuePops DEF AcceptRequest, TypeOK
    <2>2. sysBuff' \in Seq(SysMsgs)
      <3>1. Msg("OUTPUT", 0) \in SysMsgs
        BY ClientAssumption DEF Msg, SysMsgs
      <3> QED BY <1>5, <3>1, QueuePushes DEF AcceptRequest, TypeOK
    <2>3. buff' \in Seq(Requests)
      <3>1. "ACC" \in Requests
        BY DEF Requests
      <3> QED BY <1>5, <3>1, QueuePushes DEF AcceptRequest, TypeOK
    <2>4. player' \in PlayerData
      <3>1. -1 \in Ids \cup {-1}
        OBVIOUS
      <3> QED BY <1>5, <3>1, FriendIsTyped DEF AcceptRequest, TypeOK
    <2>5. /\ term' \in {"run", "asleep", "reading", "open", "write", "ended"}
          /\ lock' \in {None, "terminal"}
          /\ talking' \in BOOLEAN
          /\ raced' \in BOOLEAN
      BY <1>5 DEF AcceptRequest, EndTalk, RaceWith, TypeOK
    <2> QED BY <1>5, <2>1, <2>2, <2>3, <2>4, <2>5 DEF AcceptRequest, TypeOK, Answers, counts
  <1>6. CASE TerminalOpens
    <2>1. buff' \in Seq(Requests)
      <3>1. "ACC" \in Requests
        BY DEF Requests
      <3> QED BY <1>6, <3>1, QueuePushes DEF TerminalOpens, TypeOK
    <2> QED BY <1>6, <2>1
          DEF TerminalOpens, OpenFile, EndTalk, RaceWith, TypeOK, Answers, counts
  <1>7. CASE TerminalWrites
    <2>1. buff' \in Seq(Requests)
      <3>1. "ACC" \in Requests
        BY DEF Requests
      <3> QED BY <1>7, <3>1, QueuePushes DEF TerminalWrites, TypeOK
    <2> QED BY <1>7, <2>1
          DEF TerminalWrites, WriteFile, Friends, EndTalk, RaceWith, TypeOK, Answers, counts
  <1> QED BY <1>1, <1>2, <1>3, <1>4, <1>5, <1>6, <1>7 DEF TerminalStep

LEMMA HandlerKeepsTypes ==
  ASSUME TypeInv, HandleRecvMsg
  PROVE  TypeInv'
  <1> USE DEF TypeInv
  <1>1. rcvBuff' \in Seq(Objects) /\ rcvBuff' \in Seq(Sensible) /\ Head(rcvBuff) \in Sensible
    BY QueuePops DEF HandleRecvMsg, TypeOK, Answers
  <1> DEFINE o == Head(rcvBuff)
  <1>2. \/ HandleText(o) \/ HandleUserRegAccepted(o) \/ HandleUserLogAccepted(o)
        \/ HandleAskForFriend(o)
        \/ HandleAskForFriendTooLong(o) \/ HandleAskForFriendAccept(o)
    BY DEF HandleRecvMsg
  <1>3. o \in Objects /\ o.about \in 0..MaxObjs
    BY <1>1 DEF Sensible, Objects
  <1>4. /\ o.type \in {"REG_ACCEPT", "LOGIN_ACCEPT"} => o.id \in Ids
        /\ o.type = "ASK" => o.name \in Names
        /\ o.id \in Ids \cup {-1}
    BY <1>1 DEF Sensible, Objects
  <1>5. /\ game' \in {"sysInput", "login", "open"} /\ cur' \in Objects
        /\ game' = "login" => cur'.id \in Ids
        /\ logined' \in BOOLEAN /\ raced' \in BOOLEAN
    BY <1>2, <1>3, <1>4
       DEF HandleText, HandleUserRegAccepted, HandleUserLogAccepted, HandleAskForFriend,
           HandleAskForFriendTooLong, HandleAskForFriendAccept, Handled, Continue, RaceWith,
           TypeOK
  <1>6. sysBuff' \in Seq(SysMsgs)
    <2>1. Tell(o.about) \/ UNCHANGED sysBuff
      BY <1>2 DEF HandleText, HandleUserRegAccepted, HandleUserLogAccepted,
                  HandleAskForFriend, HandleAskForFriendTooLong, HandleAskForFriendAccept
    <2> QED BY <2>1, <1>3, TellIsTyped DEF TypeOK
  <1>7. reqBuff' \in Seq(Names)
    BY <1>2, <1>4, QueuePushes
       DEF HandleText, HandleUserRegAccepted, HandleUserLogAccepted, HandleAskForFriend,
           HandleAskForFriendTooLong, HandleAskForFriendAccept, TypeOK
  <1>8. player' \in PlayerData
    <2>1. CASE HandleUserRegAccepted(o)
      BY <2>1, <1>4 DEF HandleUserRegAccepted, TypeOK, PlayerData
    <2>2. CASE HandleAskForFriendAccept(o)
      BY <2>2, <1>4, FriendIsTyped DEF HandleAskForFriendAccept, TypeOK
    <2> QED BY <1>2, <2>1, <2>2
          DEF HandleText, HandleUserLogAccepted, HandleAskForFriend,
              HandleAskForFriendTooLong, TypeOK
  <1> QED BY <1>1, <1>5, <1>6, <1>7, <1>8 DEF HandleRecvMsg, TypeOK, Answers, Steps, counts

LEMMA GameKeepsTypes ==
  ASSUME TypeInv, GameStep
  PROVE  TypeInv'
  <1> USE DEF TypeInv
  <1>1. CASE HandleSysMsg
    <2>1. CASE sysBuff = <<>>
      BY <1>1, <2>1 DEF HandleSysMsg, TypeOK, Answers, Steps, data, counts
    <2>2. CASE sysBuff # <<>>
      <3>1. Head(sysBuff) \in SysMsgs /\ sysBuff' \in Seq(SysMsgs)
        <4>1. sysBuff \in Seq(SysMsgs) /\ sysBuff' = Tail(sysBuff)
          BY <1>1, <2>2 DEF HandleSysMsg, TypeOK
        <4> HIDE DEF TypeInv
        <4> QED BY <2>2, <4>1, QueuePops
      <3>2. cur' \in Objects
        BY <1>1, <2>2, <3>1, NoCurIsObject DEF HandleSysMsg, SysMsgs, Objects
      <3>3. raced' \in BOOLEAN /\ game' = "put"
        BY <1>1, <2>2 DEF HandleSysMsg, RaceWith, TypeOK
      <3> QED BY <1>1, <3>1, <3>2, <3>3 DEF HandleSysMsg, TypeOK, Answers, Steps, data, counts
    <2> QED BY <2>1, <2>2
  <1>2. CASE PutOutputMsg
    <2>1. outputMsg' \in Seq(0..MaxObjs)
      <3>1. cur.about \in 0..MaxObjs
        BY DEF TypeOK, Objects
      <3> QED BY <1>2, <3>1, QueuePushes DEF PutOutputMsg, TypeOK
    <2> QED BY <1>2, <2>1, NoCurIsObject
          DEF PutOutputMsg, NotifyTerminal, Woken, TypeOK, Answers, Steps, queues, data,
              past, counts
  <1>3. CASE HandleRecvMsg
    BY <1>3, HandlerKeepsTypes
  <1>4. CASE NothingReceived
    BY <1>4 DEF NothingReceived, TypeOK, Answers, Steps, queues, data, past, counts
  <1>5. CASE SetPlayerLogin
    <2>1. player' \in PlayerData
      BY <1>5 DEF SetPlayerLogin, TypeOK, Answers, PlayerData
    <2> QED BY <1>5, <2>1
          DEF SetPlayerLogin, RaceWith, TypeOK, Answers, Steps, queues, counts
  <1>6. CASE GameOpens
    <2>1. sysBuff' \in Seq(SysMsgs)
      <3>1. cur.about \in 0..MaxObjs
        BY DEF TypeOK, Objects
      <3>2. Tell(cur.about) \/ UNCHANGED sysBuff
        BY <1>6 DEF GameOpens
      <3> QED BY <3>1, <3>2, TellIsTyped DEF TypeOK
    <2>2. cur' \in Objects /\ game' \in {"write", "sysInput"}
      BY <1>6, NoCurIsObject DEF GameOpens, TypeOK
    <2> QED BY <1>6, <2>1, <2>2
          DEF GameOpens, OpenFile, RaceWith, TypeOK, Answers, Steps, counts
  <1>7. CASE GameWrites
    <2>1. sysBuff' \in Seq(SysMsgs)
      <3>1. cur.about \in 0..MaxObjs
        BY DEF TypeOK, Objects
      <3> QED BY <1>7, <3>1, TellIsTyped DEF GameWrites
    <2> QED BY <1>7, <2>1, NoCurIsObject
          DEF GameWrites, WriteFile, Friends, RaceWith, TypeOK, Answers, Steps, counts
  <1>8. CASE HandleSysInput
    <2>1. sysCmdQue' \in Seq({"enter", "map"})
      BY <1>8, QueuePops DEF HandleSysInput, TypeOK
    <2>2. talking' \in BOOLEAN /\ term' \in {"run", "asleep", "reading", "open", "write", "ended"}
      BY <1>8 DEF HandleSysInput, NotifyTerminal, Woken, TypeOK
    <2> QED BY <1>8, <2>1, <2>2
          DEF HandleSysInput, TypeOK, Answers, Steps, queues, data, past, counts
  <1>9. CASE ScanKeyBoard
    <2>1. ttys' = ttys \/ (ttys < MaxTtys /\ ttys' = ttys + 1)
      BY <1>9 DEF ScanKeyBoard, OpenTty, Abort, TtysLeft
    <2>2. ttys' \in 0..MaxTtys
      BY <2>1, ClientAssumption DEF TypeOK
    <2>3. /\ game' \in {"sysMsg", "keys", "ended"}
          /\ term' \in {"run", "asleep", "reading", "open", "write", "ended"}
      BY <1>9 DEF ScanKeyBoard, OpenTty, Abort, TypeOK
    <2> QED BY <1>9, <2>2, <2>3
          DEF ScanKeyBoard, TypeOK, Answers, Steps, queues, data, past, counts
  <1>10. ASSUME NEW key \in Keys, KeyFound(key)
         PROVE  TypeInv'
    <2>1. key # "move" => key \in {"enter", "map"}
      BY ClientAssumption DEF AllKeys
    <2>2. "CMD" \in Requests
      BY DEF Requests
    <2>3. buff' \in Seq(Requests) /\ sysCmdQue' \in Seq({"enter", "map"})
      BY <1>10, <2>1, <2>2, QueuePushes DEF KeyFound, TypeOK
    <2>4. keys' \in 0..MaxKeys
      <3>1. keys < MaxKeys /\ keys' = keys + 1 /\ keys \in 0..MaxKeys
        BY <1>10 DEF KeyFound, TypeOK
      <3> HIDE DEF TypeInv
      <3> QED BY <3>1, ClientAssumption
    <2> QED BY <1>10, <2>3, <2>4 DEF KeyFound, TypeOK, Answers, Steps, data, past
  <1>11. CASE NoKeyFound
    BY <1>11 DEF NoKeyFound, TypeOK, Answers, Steps, queues, data, past, counts
  <1> QED BY <1>1, <1>2, <1>3, <1>4, <1>5, <1>6, <1>7, <1>8, <1>9, <1>10, <1>11 DEF GameStep

LEMMA TypesKept ==
  ASSUME TypeInv, [Next]_vars
  PROVE  TypeInv'
  <1> USE DEF TypeInv
  <1>1. CASE SpuriousWakeup
    BY <1>1 DEF SpuriousWakeup, TypeOK, Answers, queues, data, past, counts
  <1>2. ASSUME NEW line \in Lines, Type(line)
        PROVE  TypeInv'
    BY <1>2, LinesAreTyped DEF Type, TypeOK, Answers, queues, data, past, counts
  <1>3. CASE SendOne
    <2>1. buff' \in Seq(Requests)
      BY <1>3, QueuePops DEF SendOne, TypeOK
    <2> QED BY <1>3, <2>1 DEF SendOne, TypeOK, Answers, ui, data, past, counts
  <1>4. ASSUME NEW o \in Received(objs + 1), RecvMsg(o)
        PROVE  TypeInv'
    <2>1. o \in Sensible /\ o \in Objects /\ o.about \in {0, objs + 1}
      BY <1>4, ReceivedIsSensible DEF RecvMsg, Sensible
    <2>2. rcvBuff' \in Seq(Objects) /\ rcvBuff' \in Seq(Sensible)
      BY <1>4, <2>1, QueuePushes DEF RecvMsg, TypeOK, Answers
    <2>3. objs' \in 0..MaxObjs /\ objs + 1 \in 1..MaxObjs
      <3>1. objs < MaxObjs /\ objs' = objs + 1 /\ objs \in 0..MaxObjs
        BY <1>4 DEF RecvMsg, TypeOK
      <3> HIDE DEF TypeInv
      <3> QED BY <3>1, ClientAssumption
    <2>4. pending' \in SUBSET (1..MaxObjs)
      BY <1>4, <2>1, <2>3 DEF RecvMsg, TypeOK
    <2> QED BY <1>4, <2>2, <2>3, <2>4 DEF RecvMsg, TypeOK, Answers, ui, data
  <1>5. CASE Restart
    <2>1. \A S : <<>> \in Seq(S)
      OBVIOUS
    <2>2. restarts' \in 0..MaxRestarts
      <3>1. restarts < MaxRestarts /\ restarts' = restarts + 1 /\ restarts \in 0..MaxRestarts
        BY <1>5 DEF Restart, TypeOK
      <3> HIDE DEF TypeInv
      <3> QED BY <3>1, ClientAssumption
    <2>3. player' \in PlayerData
      BY <1>5, LoadedIsTyped DEF Restart, TypeOK
    <2>4. unsaved' \in BOOLEAN /\ ttys' \in 0..MaxTtys
      BY <1>5, ClientAssumption DEF Restart, TypeOK
    <2>5. game' \in {"sysMsg", "ended"} /\ term' \in {"run", "ended"}
      BY <1>5 DEF Restart
    <2> QED BY <1>5, <2>1, <2>2, <2>3, <2>4, <2>5, NoCurIsObject
          DEF Restart, TypeOK, Answers, Steps
  <1>6. CASE UNCHANGED vars
    BY <1>6 DEF vars, ui, queues, data, past, counts, TypeOK, Answers
  <1> QED BY <1>1, <1>2, <1>3, <1>4, <1>5, <1>6, GameKeepsTypes, TerminalKeepsTypes DEF Next

LEMMA AlwaysTypeInv == Spec => []TypeInv
  <1> QED BY InitTypes, TypesKept, PTL DEF Spec

\* The variables of the client keep their types (IOManger.h:88-92,
\* ReadKey.h, SeqToBin.h, Player.h:137-148).
THEOREM TypeCorrect == Spec => []TypeOK
  <1>1. TypeInv => TypeOK
    BY DEF TypeInv
  <1> QED BY AlwaysTypeInv, <1>1, PTL
-----------------------------------------------------------------------------
(***************************************************************************)
(* One reader of the keyboard.                                             *)
(***************************************************************************)
ReaderInv ==
    /\ OneReader
    /\ game \in {"scan", "keys"} => sysCmdQue = <<>>

\* The terminal thread takes the mutex only to talk, and gives both back.
LEMMA TerminalTakesWhatItMay ==
  ASSUME TerminalStep
  PROVE  /\ UNCHANGED <<game, sysCmdQue>>
         /\ \/ UNCHANGED <<talking, lock>>
            \/ talking
            \/ talking' = FALSE /\ lock' = None
  BY DEF TerminalStep, Rest, HandleOutputMsg, HandleTalk, SayWord, AcceptRequest,
         TerminalOpens, TerminalWrites, EndTalk

LEMMA TalkingNeedsNoKeys ==
  ASSUME ReaderInv, talking
  PROVE  game # "keys" /\ sysCmdQue = <<>>
  BY DEF ReaderInv, OneReader

LEMMA ReaderKept ==
  ASSUME TypeOK, ReaderInv, [Next]_vars
  PROVE  ReaderInv'
  <1>1. CASE TerminalStep
    <2>1. game' = game /\ sysCmdQue' = sysCmdQue
      BY <1>1, TerminalTakesWhatItMay
    <2>2. CASE talking
      BY <2>1, <2>2, TalkingNeedsNoKeys DEF ReaderInv, OneReader
    <2>3. CASE talking' = FALSE /\ lock' = None
      BY <2>1, <2>3 DEF ReaderInv, OneReader
    <2>4. CASE UNCHANGED <<talking, lock>>
      BY <2>1, <2>4 DEF ReaderInv, OneReader
    <2> QED BY <1>1, <2>2, <2>3, <2>4, TerminalTakesWhatItMay
  <1>2. CASE HandleSysInput
    <2>1. sysCmdQue' = <<>>
      <3>1. CASE sysCmdQue = <<>>
        BY <1>2, <3>1 DEF HandleSysInput
      <3>2. CASE sysCmdQue # <<>>
        <4>1. sysCmdQue' = Tail(sysCmdQue)
          BY <1>2, <3>2 DEF HandleSysInput
        <4>2. Len(sysCmdQue) = 1 /\ sysCmdQue \in Seq({"enter", "map"})
          BY <3>2 DEF ReaderInv, OneReader, TypeOK
        <4> QED BY <4>1, <4>2
      <3> QED BY <3>1, <3>2
    <2>2. game' = "scan"
      BY <1>2 DEF HandleSysInput
    <2> QED BY <2>1, <2>2 DEF ReaderInv, OneReader
  <1>3. CASE ScanKeyBoard
    <2>1. sysCmdQue' = <<>> /\ UNCHANGED <<talking, lock>>
      BY <1>3 DEF ScanKeyBoard, ReaderInv
    <2>2. game' = "keys" => ~ talking /\ lock = None
      BY <1>3 DEF ScanKeyBoard, IsTimeToReadKey, Abort
    <2> QED BY <2>1, <2>2 DEF ReaderInv, OneReader
  <1>4. ASSUME NEW key \in Keys, KeyFound(key)
        PROVE  ReaderInv'
    <2>1. sysCmdQue = <<>> /\ ~ talking /\ lock = None
      BY <1>4 DEF KeyFound, ReaderInv, OneReader
    <2>2. Len(sysCmdQue') = 1 \/ sysCmdQue' = <<>>
      BY <1>4, <2>1 DEF KeyFound
    <2> QED BY <1>4, <2>1, <2>2 DEF KeyFound, ReaderInv, OneReader
  <1>5. CASE NoKeyFound
    BY <1>5 DEF NoKeyFound, ReaderInv, OneReader
  <1>6. CASE \/ HandleSysMsg \/ PutOutputMsg \/ HandleRecvMsg \/ NothingReceived
             \/ SetPlayerLogin \/ GameOpens \/ GameWrites
    <2>1. UNCHANGED <<sysCmdQue, talking, lock>>
      BY <1>6 DEF HandleSysMsg, PutOutputMsg, HandleRecvMsg, NothingReceived, SetPlayerLogin,
                  GameOpens, GameWrites
    <2>2. game' \notin {"scan", "keys"}
      BY <1>6 DEF HandleSysMsg, PutOutputMsg, HandleRecvMsg, NothingReceived, SetPlayerLogin,
                  GameOpens, GameWrites, HandleText, HandleUserRegAccepted,
                  HandleUserLogAccepted, HandleAskForFriend, HandleAskForFriendTooLong,
                  HandleAskForFriendAccept, Handled, Continue
    <2> QED BY <2>1, <2>2 DEF ReaderInv, OneReader
  <1>7. CASE Restart
    BY <1>7 DEF Restart, ReaderInv, OneReader
  <1>8. CASE UNCHANGED ui
    BY <1>8 DEF ui, ReaderInv, OneReader
  <1>9. ASSUME SpuriousWakeup \/ \E line \in Lines : Type(line)
        PROVE  ReaderInv'
    BY <1>9 DEF SpuriousWakeup, Type, ReaderInv, OneReader
  <1>10. SendOne \/ (\E o \in Received(objs + 1) : RecvMsg(o)) \/ UNCHANGED vars
           => UNCHANGED ui
    BY DEF SendOne, RecvMsg, vars
  <1> QED BY <1>1, <1>2, <1>3, <1>4, <1>5, <1>6, <1>7, <1>8, <1>9, <1>10 DEF Next, GameStep

\* Whenever the game loop looks for a key, or has found one, nobody talks and
\* the mutex is free, for any lines, keys and objects
\* (ReadKey.cpp:36-73, IOManger.h:34-61).
THEOREM KeyboardHasOneReader == Spec => []OneReader
  <1>1. Init => ReaderInv
    BY DEF Init, ReaderInv, OneReader
  <1>2. TypeInv /\ ReaderInv /\ [Next]_vars => ReaderInv'
    BY ReaderKept DEF TypeInv
  <1>3. ReaderInv => OneReader
    BY DEF ReaderInv
  <1> QED BY <1>1, <1>2, <1>3, AlwaysTypeInv, PTL DEF Spec
-----------------------------------------------------------------------------
(***************************************************************************)
(* The terminal thread sleeps only when there is nothing to do.            *)
(***************************************************************************)
LEMMA AwakeKept ==
  ASSUME TerminalAwake, [Next]_vars
  PROVE  TerminalAwake'
  <1>1. CASE TerminalStep
    <2>1. CASE Rest
      BY <2>1 DEF Rest, TerminalAwake
    <2>2. CASE ~ Rest
      <3>1. term' # "asleep"
        BY <1>1, <2>2
           DEF TerminalStep, HandleOutputMsg, HandleTalk, SayWord, AcceptRequest,
               TerminalOpens, TerminalWrites, EndTalk
      <3> QED BY <3>1 DEF TerminalAwake
    <2> QED BY <2>1, <2>2
  <1>2. CASE PutOutputMsg
    BY <1>2 DEF PutOutputMsg, NotifyTerminal, Woken, TerminalAwake
  <1>3. CASE HandleSysInput
    BY <1>3 DEF HandleSysInput, NotifyTerminal, Woken, TerminalAwake
  <1>4. ASSUME GameStep, ~ PutOutputMsg, ~ HandleSysInput
        PROVE  /\ UNCHANGED <<talking, outputMsg>>
               /\ term' \in {term, "ended"}
    BY <1>4 DEF GameStep, HandleSysMsg, HandleRecvMsg, NothingReceived, SetPlayerLogin,
                GameOpens, GameWrites, ScanKeyBoard, OpenTty, Abort, KeyFound, NoKeyFound
  <1>5. ASSUME SpuriousWakeup \/ Restart
        PROVE  TerminalAwake'
    BY <1>5 DEF SpuriousWakeup, Restart, TerminalAwake
  <1>6. ASSUME \E line \in Lines : Type(line)
        PROVE  UNCHANGED <<term, talking, outputMsg>>
    BY <1>6 DEF Type
  <1>7. ASSUME SendOne \/ (\E o \in Received(objs + 1) : RecvMsg(o)) \/ UNCHANGED vars
        PROVE  UNCHANGED <<term, talking, outputMsg>>
    BY <1>7 DEF SendOne, RecvMsg, vars, ui
  <1>8. CASE UNCHANGED <<talking, outputMsg>> /\ term' \in {term, "ended"}
    BY <1>8 DEF TerminalAwake
  <1> QED BY <1>1, <1>2, <1>3, <1>4, <1>5, <1>6, <1>7, <1>8 DEF Next

\* No wake-up of the terminal thread is lost, for any lines, keys and objects
\* (IOManger.h:38, 57-67).
THEOREM NoWakeupOfTheTerminalIsLost == Spec => []TerminalAwake
  <1>1. Init => TerminalAwake
    BY DEF Init, TerminalAwake
  <1> QED BY <1>1, AwakeKept, PTL DEF Spec
-----------------------------------------------------------------------------
(***************************************************************************)
(* What is sent by whoever is not logged in.                               *)
(***************************************************************************)
Allowed == {"LOGIN", "REG", "CMD"}

MembersInv ==
    ~ logined => buff \in Seq(Allowed) /\ term \notin Saving

LEMMA MembersKept ==
  ASSUME TypeOK, MembersInv, [Next]_vars
  PROVE  MembersInv'
  <1>1. CASE SayWord
    <2>1. PICK w \in {Head(ahead)} : Say(w)
      BY <1>1 DEF SayWord
    <2>2. term' = "run" /\ logined' = logined
      BY <1>1 DEF SayWord, EndTalk, data
    <2>3. ~ logined => buff' = buff \/ \E x \in Allowed : buff' = Append(buff, x)
      <3>1. \A c \in DOMAIN Anyone : Anyone[c] \in Allowed
        BY DEF Anyone, Allowed
      <3> QED BY <2>1, <3>1 DEF Say, Push, Show, Refuse, LoggedInFirst
    <2> QED BY <2>2, <2>3, QueuePushes DEF MembersInv, Saving
  <1>2. CASE AcceptRequest \/ TerminalOpens \/ TerminalWrites
    <2>1. logined
      BY <1>2 DEF AcceptRequest, TerminalOpens, TerminalWrites, LoggedInFirst, MembersInv, Saving
    <2>2. logined' = logined
      BY <1>2 DEF AcceptRequest, TerminalOpens, TerminalWrites
    <2> QED BY <2>1, <2>2 DEF MembersInv
  <1>3. CASE Rest \/ HandleOutputMsg \/ HandleTalk \/ SpuriousWakeup
    BY <1>3 DEF Rest, HandleOutputMsg, HandleTalk, SpuriousWakeup, MembersInv, Saving,
                queues, data
  <1>4. CASE HandleRecvMsg
    <2>1. UNCHANGED <<buff, term>> /\ (logined' = logined \/ logined' = TRUE)
      BY <1>4 DEF HandleRecvMsg, HandleText, HandleUserRegAccepted, HandleUserLogAccepted,
                  HandleAskForFriend, HandleAskForFriendTooLong, HandleAskForFriendAccept
    <2> QED BY <2>1 DEF MembersInv
  <1>5. CASE PutOutputMsg \/ HandleSysInput
    BY <1>5 DEF PutOutputMsg, HandleSysInput, NotifyTerminal, Woken, MembersInv, Saving,
                queues, data
  <1>6. CASE HandleSysMsg \/ NothingReceived \/ SetPlayerLogin \/ GameOpens \/ GameWrites
             \/ ScanKeyBoard \/ NoKeyFound
    BY <1>6 DEF HandleSysMsg, NothingReceived, SetPlayerLogin, GameOpens, GameWrites,
                ScanKeyBoard, OpenTty, Abort, NoKeyFound, MembersInv, Saving, queues, data
  <1>7. ASSUME NEW key \in Keys, KeyFound(key)
        PROVE  MembersInv'
    <2>1. buff' = buff \/ buff' = Append(buff, "CMD")
      BY <1>7 DEF KeyFound
    <2>2. UNCHANGED <<term, logined>>
      BY <1>7 DEF KeyFound, data
    <2> QED BY <2>1, <2>2, QueuePushes DEF MembersInv, Allowed
  <1>8. CASE SendOne
    <2>1. ~ logined => buff' \in Seq(Allowed)
      BY <1>8, QueuePops DEF SendOne, MembersInv
    <2> QED BY <1>8, <2>1 DEF SendOne, MembersInv, ui, data
  <1>9. CASE Restart
    <2>1. <<>> \in Seq(Allowed)
      OBVIOUS
    <2> QED BY <1>9, <2>1 DEF Restart, MembersInv, Saving
  <1>10. ASSUME \/ \E line \in Lines : Type(line)
                \/ \E o \in Received(objs + 1) : RecvMsg(o)
                \/ UNCHANGED vars
         PROVE  UNCHANGED <<buff, term, logined>>
    BY <1>10 DEF Type, RecvMsg, vars, ui, queues, data
  <1>11. CASE UNCHANGED <<buff, term, logined>>
    BY <1>11 DEF MembersInv
  <1> QED BY <1>1, <1>2, <1>3, <1>4, <1>5, <1>6, <1>7, <1>8, <1>9, <1>10, <1>11
       DEF Next, GameStep, TerminalStep

\* Nothing but registrations, logins and keys waits to be sent before a login,
\* whichever thread logs in or pushes (Util.cpp:73-201, Player.h:81-86).
THEOREM OnlyMembersSend == Spec => []SentByMembers
  <1>1. Init => MembersInv
    BY DEF Init, MembersInv, Saving
  <1>2. TypeInv /\ MembersInv /\ [Next]_vars => MembersInv'
    BY MembersKept DEF TypeInv
  <1>3. MembersInv => SentByMembers
    BY DEF MembersInv, SentByMembers, Allowed
  <1> QED BY <1>1, <1>2, <1>3, AlwaysTypeInv, PTL DEF Spec
-----------------------------------------------------------------------------
(***************************************************************************)
(* No friend is forgotten.                                                 *)
(***************************************************************************)
Fine == ~ raced /\ ~ unsaved

FriendsInv ==
    Fine =>
        /\ ~ (game \in Saving /\ term \in Saving)
        /\ saved \subseteq Friends(player)
        /\ game \notin Saving /\ term \notin Saving =>
              Friends(player) = Friends(Loaded(disk))

\* The terminal thread saves under the mutex, so that the client, which ends
\* itself only with the mutex in hand, does not end in the middle of a save.
Holding == term \in Saving \cup {"reading"} => lock = "terminal"

LEMMA HoldingKept ==
  ASSUME Holding, [Next]_vars
  PROVE  Holding'
  <1>1. CASE TerminalStep
    BY <1>1 DEF TerminalStep, Rest, HandleOutputMsg, HandleTalk, SayWord, AcceptRequest,
                TerminalOpens, TerminalWrites, EndTalk, Holding, Saving
  <1>2. CASE GameStep
    <2>1. lock' = lock
      BY <1>2 DEF GameStep, HandleSysMsg, PutOutputMsg, HandleRecvMsg, NothingReceived,
                  SetPlayerLogin, GameOpens, GameWrites, HandleSysInput, ScanKeyBoard,
                  KeyFound, NoKeyFound
    <2>2. term' \in {term, "run", "ended"}
      BY <1>2 DEF GameStep, HandleSysMsg, PutOutputMsg, HandleRecvMsg, NothingReceived,
                  SetPlayerLogin, GameOpens, GameWrites, HandleSysInput, ScanKeyBoard,
                  OpenTty, Abort, KeyFound, NoKeyFound, NotifyTerminal, Woken
    <2> QED BY <2>1, <2>2 DEF Holding, Saving
  <1>3. CASE Restart \/ SpuriousWakeup
    BY <1>3 DEF Restart, SpuriousWakeup, Holding, Saving
  <1>4. CASE \/ \E line \in Lines : Type(line)
             \/ SendOne \/ (\E o \in Received(objs + 1) : RecvMsg(o)) \/ UNCHANGED vars
    BY <1>4 DEF Type, SendOne, RecvMsg, vars, ui, Holding
  <1> QED BY <1>1, <1>2, <1>3, <1>4 DEF Next

LEMMA AlwaysHolding == Spec => []Holding
  <1>1. Init => Holding
    BY DEF Init, Holding, Saving
  <1> QED BY <1>1, HoldingKept, PTL DEF Spec

\* A friend that gets an id stays one, or becomes one.
LEMMA SetFriendAdds ==
  ASSUME player \in PlayerData, NEW n \in Names, NEW i \in Ids \cup {-1}, SetFriend(n, i)
  PROVE  Friends(player') = Friends(player) \cup {n}
  <1>1. player'.friends = [player.friends EXCEPT ![n] = i]
    BY DEF SetFriend, PlayerData
  <1>2. i # None
    BY ClientAssumption
  <1> QED BY <1>1, <1>2 DEF Friends, PlayerData

LEMMA SetIdAdds ==
  ASSUME player \in PlayerData, NEW i, player' = [player EXCEPT !.id = i]
  PROVE  Friends(player') = Friends(player)
  BY DEF Friends, PlayerData

\* A step that leaves the friends, the file and the saving threads alone.
LEMMA NothingToSave ==
  ASSUME FriendsInv, Fine' => Fine,
         UNCHANGED <<disk, saved>>, Friends(player') = Friends(player),
         game' = game \/ (game \notin Saving /\ game' \notin Saving),
         term' = term \/ (term \notin Saving /\ term' \notin Saving)
  PROVE  FriendsInv'
  BY DEF FriendsInv, Loaded, Friends

\* What is written is what will be loaded.
LEMMA WrittenIsLoaded ==
  ASSUME player \in PlayerData, WriteFile, ~ unsaved', UNCHANGED player
  PROVE  Friends(player') = Friends(Loaded(disk'))
  BY ClientAssumption DEF WriteFile, Loaded

LEMMA TerminalKeepsFriends ==
  ASSUME TypeOK, FriendsInv, TerminalStep
  PROVE  FriendsInv'
  <1>1. CASE Rest \/ HandleOutputMsg \/ HandleTalk \/ SayWord
    <2>1. UNCHANGED <<game, player, disk, saved, raced, unsaved>>
      BY <1>1 DEF Rest, HandleOutputMsg, HandleTalk, SayWord, data, past
    <2>2. term \notin Saving /\ term' \notin Saving
      BY <1>1 DEF Rest, HandleOutputMsg, HandleTalk, SayWord, EndTalk, Saving
    <2>3. Friends(player') = Friends(player) /\ (Fine' => Fine)
      BY <2>1 DEF Friends, Fine
    <2> QED BY <2>1, <2>2, <2>3, NothingToSave
  <1>3. CASE AcceptRequest
    <2> DEFINE n == reqBuff[Head(ahead).index]
    <2>1. n \in Names
      BY <1>3 DEF AcceptRequest, TypeOK
    <2>2. /\ UNCHANGED <<game, disk, saved, unsaved>> /\ term \notin Saving
          /\ Fine' => (Fine /\ game \notin Saving)
      BY <1>3 DEF AcceptRequest, RaceWith, Saving, Fine
    <2>3. CASE ~ HasPlace \/ ~ IsNew(n)
      <3>1. term' \notin Saving
        BY <1>3, <2>3 DEF AcceptRequest, EndTalk, Saving
      <3>2. UNCHANGED player \/ (n \in Friends(player) /\ SetFriend(n, -1))
        BY <1>3, <2>3 DEF AcceptRequest, IsNew
      <3>3. CASE UNCHANGED player
        <4>1. Friends(player') = Friends(player)
          BY <3>3 DEF Friends
        <4> QED BY <2>2, <3>1, <4>1, NothingToSave
      <3>4. CASE n \in Friends(player) /\ SetFriend(n, -1)
        <4>1. Friends(player') = Friends(player)
          BY <2>1, <3>4, SetFriendAdds DEF TypeOK
        <4> QED BY <2>2, <3>1, <4>1, NothingToSave
      <3> QED BY <3>2, <3>3, <3>4
    <2>4. CASE HasPlace /\ IsNew(n)
      <3>1. Friends(player') = Friends(player) \cup {n}
        BY <1>3, <2>1, <2>4, SetFriendAdds DEF AcceptRequest, TypeOK
      <3>2. term' = "open"
        BY <1>3, <2>4 DEF AcceptRequest
      <3> QED BY <2>2, <3>1, <3>2 DEF FriendsInv, Saving
    <2> QED BY <2>3, <2>4
  <1>4. CASE TerminalOpens
    <2>1. UNCHANGED <<game, player, saved>> /\ (unsaved' = TRUE \/ UNCHANGED unsaved)
      BY <1>4 DEF TerminalOpens
    <2>2. Friends(player') = Friends(player)
      BY <2>1 DEF Friends
    <2>3. Fine' => (Fine /\ game \notin Saving)
      BY <1>4, <2>1 DEF TerminalOpens, RaceWith, Fine
    <2>4. Fine' => term' = "write"
      BY <1>4 DEF TerminalOpens, Fine
    <2> QED BY <2>1, <2>2, <2>3, <2>4 DEF FriendsInv, Saving
  <1>5. CASE TerminalWrites
    <2>1. /\ UNCHANGED <<game, player>> /\ term' = "run"
          /\ Fine' => (Fine /\ game \notin Saving)
          /\ WriteFile
      <3>1. WriteFile /\ RaceWith(game)
        BY <1>5 DEF TerminalWrites
      <3>2. Fine' => (Fine /\ game \notin Saving)
        BY <3>1 DEF WriteFile, RaceWith, Fine
      <3> QED BY <1>5, <3>1, <3>2 DEF TerminalWrites, EndTalk
    <2>2. Friends(player') = Friends(player)
      BY <2>1 DEF Friends
    <2>3. Fine' => Friends(player') = Friends(Loaded(disk'))
      BY <2>1, WrittenIsLoaded DEF TypeOK, Fine
    <2>4. Fine' => saved' = saved \cup Friends(player)
      BY <2>1 DEF WriteFile, Fine
    <2> QED BY <2>1, <2>2, <2>3, <2>4 DEF FriendsInv, Saving
  <1> QED BY <1>1, <1>3, <1>4, <1>5 DEF TerminalStep

LEMMA HandlerKeepsFriends ==
  ASSUME TypeInv, FriendsInv, HandleRecvMsg
  PROVE  FriendsInv'
  <1> DEFINE o == Head(rcvBuff)
  <1>1. \/ HandleText(o) \/ HandleUserRegAccepted(o) \/ HandleUserLogAccepted(o)
        \/ HandleAskForFriend(o)
        \/ HandleAskForFriendTooLong(o) \/ HandleAskForFriendAccept(o)
    BY DEF HandleRecvMsg
  <1>2. /\ UNCHANGED <<term, disk, saved, unsaved>>
        /\ game \notin Saving
    BY DEF HandleRecvMsg, Saving
  <1>3. o.name # NoName => o.name \in Names /\ o.id \in Ids \cup {-1}
    <2>1. o \in Sensible
      BY QueuePops DEF HandleRecvMsg, TypeInv, Answers
    <2> QED BY <2>1 DEF Sensible, Objects
  <1>4. CASE \/ HandleText(o) \/ HandleUserLogAccepted(o) \/ HandleAskForFriend(o)
             \/ HandleAskForFriendTooLong(o)
    <2>1. UNCHANGED <<player, raced>> /\ game' \notin Saving
      BY <1>4 DEF HandleText, HandleUserLogAccepted, HandleAskForFriend,
                  HandleAskForFriendTooLong, Handled, Continue, Saving
    <2>2. Friends(player') = Friends(player)
      BY <2>1 DEF Friends
    <2>3. Fine' => Fine
      BY <1>2, <2>1 DEF Fine
    <2> QED BY <1>2, <2>1, <2>2, <2>3, NothingToSave
  <1>5. CASE HandleUserRegAccepted(o)
    <2>1. player' = [player EXCEPT !.id = o.id] /\ game' \notin Saving
      BY <1>5 DEF HandleUserRegAccepted, Handled, Saving
    <2>2. Friends(player') = Friends(player)
      BY <2>1, SetIdAdds DEF TypeInv, TypeOK
    <2>3. Fine' => Fine
      BY <1>2, <1>5 DEF HandleUserRegAccepted, RaceWith, Fine
    <2> QED BY <1>2, <2>1, <2>2, <2>3, NothingToSave
  <1>6. CASE HandleAskForFriendAccept(o)
    <2>1. o.name \in Names /\ o.id \in Ids \cup {-1}
      BY <1>3, <1>6 DEF HandleAskForFriendAccept
    <2>2. Fine' => (Fine /\ term \notin Saving)
      BY <1>2, <1>6 DEF HandleAskForFriendAccept, RaceWith, Fine
    <2>3. CASE ~ HasPlace \/ ~ IsNew(o.name)
      <3>1. game' \notin Saving
        BY <1>6, <2>3 DEF HandleAskForFriendAccept, Handled, Saving
      <3>2. UNCHANGED player \/ (o.name \in Friends(player) /\ SetFriend(o.name, o.id))
        BY <1>6, <2>3 DEF HandleAskForFriendAccept, IsNew
      <3>3. CASE UNCHANGED player
        <4>1. Friends(player') = Friends(player)
          BY <3>3 DEF Friends
        <4> QED BY <1>2, <2>2, <3>1, <4>1, NothingToSave
      <3>4. CASE o.name \in Friends(player) /\ SetFriend(o.name, o.id)
        <4>1. Friends(player') = Friends(player)
          BY <2>1, <3>4, SetFriendAdds DEF TypeInv, TypeOK
        <4> QED BY <1>2, <2>2, <3>1, <4>1, NothingToSave
      <3> QED BY <3>2, <3>3, <3>4
    <2>4. CASE HasPlace /\ IsNew(o.name)
      <3>1. Friends(player') = Friends(player) \cup {o.name}
        BY <1>6, <2>1, <2>4, SetFriendAdds DEF HandleAskForFriendAccept, TypeInv, TypeOK
      <3>2. game' = "open"
        BY <1>6, <2>4 DEF HandleAskForFriendAccept, Continue
      <3> QED BY <1>2, <2>2, <3>1, <3>2 DEF FriendsInv, Saving
    <2> QED BY <2>3, <2>4
  <1> QED BY <1>1, <1>4, <1>5, <1>6

LEMMA GameKeepsFriends ==
  ASSUME TypeInv, FriendsInv, Holding, GameStep
  PROVE  FriendsInv'
  <1>1. CASE HandleRecvMsg
    BY <1>1, HandlerKeepsFriends
  <1>2. CASE SetPlayerLogin
    <2>1. /\ UNCHANGED <<term, disk, saved, unsaved>> /\ game \notin Saving /\ game' = "open"
          /\ Fine' => (Fine /\ term \notin Saving)
      BY <1>2 DEF SetPlayerLogin, RaceWith, Fine, Saving
    <2>2. Friends(player') = Friends(player)
      BY <1>2, SetIdAdds DEF SetPlayerLogin, TypeInv, TypeOK
    <2> QED BY <2>1, <2>2 DEF FriendsInv, Saving
  <1>3. CASE GameOpens
    <2>1. UNCHANGED <<term, player, saved>> /\ (unsaved' = TRUE \/ UNCHANGED unsaved)
      BY <1>3 DEF GameOpens
    <2>2. Friends(player') = Friends(player)
      BY <2>1 DEF Friends
    <2>3. Fine' => (Fine /\ term \notin Saving)
      BY <1>3, <2>1 DEF GameOpens, RaceWith, Fine
    <2>4. Fine' => game' = "write"
      BY <1>3 DEF GameOpens, Fine
    <2> QED BY <2>1, <2>2, <2>3, <2>4 DEF FriendsInv, Saving
  <1>4. CASE GameWrites
    <2>1. /\ UNCHANGED <<term, player>> /\ game' = "sysInput"
          /\ Fine' => (Fine /\ term \notin Saving)
          /\ WriteFile
      <3>1. WriteFile /\ RaceWith(term)
        BY <1>4 DEF GameWrites
      <3>2. Fine' => (Fine /\ term \notin Saving)
        BY <3>1 DEF WriteFile, RaceWith, Fine
      <3> QED BY <1>4, <3>1, <3>2 DEF GameWrites
    <2>2. Friends(player') = Friends(player)
      BY <2>1 DEF Friends
    <2>3. Fine' => Friends(player') = Friends(Loaded(disk'))
      BY <2>1, WrittenIsLoaded DEF TypeInv, TypeOK, Fine
    <2>4. Fine' => saved' = saved \cup Friends(player)
      BY <2>1 DEF WriteFile, Fine
    <2> QED BY <2>1, <2>2, <2>3, <2>4 DEF FriendsInv, Saving
  <1>5. CASE HandleSysMsg
    <2>1. UNCHANGED <<player, disk, saved, unsaved, term>>
      BY <1>5 DEF HandleSysMsg, data
    <2>2. game \notin Saving /\ game' \notin Saving
      BY <1>5 DEF HandleSysMsg, Saving
    <2>3. Friends(player') = Friends(player)
      BY <2>1 DEF Friends
    <2>4. Fine' => Fine
      <3>1. UNCHANGED raced \/ RaceWith(term)
        BY <1>5 DEF HandleSysMsg
      <3> QED BY <2>1, <3>1 DEF RaceWith, Fine
    <2> QED BY <2>1, <2>2, <2>3, <2>4, NothingToSave
  <1>6. CASE \/ PutOutputMsg \/ NothingReceived \/ HandleSysInput \/ ScanKeyBoard
             \/ NoKeyFound \/ \E key \in Keys : KeyFound(key)
    <2>1. UNCHANGED <<player, disk, saved, raced, unsaved>>
      BY <1>6 DEF PutOutputMsg, NothingReceived, HandleSysInput, ScanKeyBoard, NoKeyFound,
                  KeyFound, data, past
    <2>2. game \notin Saving /\ game' \notin Saving
      BY <1>6 DEF PutOutputMsg, NothingReceived, HandleSysInput, ScanKeyBoard, OpenTty, Abort,
                  NoKeyFound, KeyFound, Saving
    <2>3. Friends(player') = Friends(player) /\ (Fine' => Fine)
      BY <2>1 DEF Friends, Fine
    <2>4. term' = term \/ term' \notin Saving
      BY <1>6 DEF PutOutputMsg, NothingReceived, HandleSysInput, ScanKeyBoard, OpenTty, Abort,
                  NoKeyFound, KeyFound, NotifyTerminal, Woken, Saving
    <2>5. term' = term \/ term \notin Saving \/ Abort
      BY <1>6 DEF PutOutputMsg, NothingReceived, HandleSysInput, ScanKeyBoard, OpenTty,
                  NoKeyFound, KeyFound, NotifyTerminal, Woken, Saving
    <2>6. Abort => term \notin Saving
      <3>1. Abort => ScanKeyBoard
        BY <1>6 DEF Abort, PutOutputMsg, NothingReceived, HandleSysInput, NoKeyFound, KeyFound
      <3>2. ScanKeyBoard => lock = None
        BY DEF ScanKeyBoard
      <3> QED BY <3>1, <3>2, ClientAssumption DEF Holding
    <2> QED BY <2>1, <2>2, <2>3, <2>4, <2>5, <2>6, NothingToSave
  <1> QED BY <1>1, <1>2, <1>3, <1>4, <1>5, <1>6 DEF GameStep

LEMMA FriendsKept ==
  ASSUME TypeInv, FriendsInv, Holding, [Next]_vars
  PROVE  FriendsInv'
  <1>1. CASE Restart
    <2>1. /\ player' = Loaded(disk) /\ disk' = disk /\ saved' = saved
          /\ game' \in {"sysMsg", "ended"} /\ term' \in {"run", "ended"}
          /\ Fine' => (Fine /\ game \notin Saving /\ term \notin Saving)
      BY <1>1 DEF Restart, Fine
    <2>2. /\ Friends(player') = Friends(Loaded(disk))
          /\ Friends(Loaded(disk')) = Friends(Loaded(disk))
      BY <2>1 DEF Friends
    <2> QED BY <2>1, <2>2 DEF FriendsInv, Saving
  <1>2. CASE \/ SpuriousWakeup \/ (\E line \in Lines : Type(line)) \/ SendOne
             \/ (\E o \in Received(objs + 1) : RecvMsg(o)) \/ UNCHANGED vars
    <2>1. UNCHANGED <<game, player, disk, saved, raced, unsaved>>
      BY <1>2 DEF SpuriousWakeup, Type, SendOne, RecvMsg, vars, ui, data, past
    <2>2. term' = term \/ (term \notin Saving /\ term' \notin Saving)
      BY <1>2 DEF SpuriousWakeup, Type, SendOne, RecvMsg, vars, ui, Saving
    <2>3. Friends(player') = Friends(player) /\ (Fine' => Fine)
      BY <2>1 DEF Friends, Fine
    <2> QED BY <2>1, <2>2, <2>3, NothingToSave
  <1> QED BY <1>1, <1>2, GameKeepsFriends, TerminalKeepsFriends DEF Next, TypeInv

\* Through any number of objects, lines and restarts, a friend once saved is
\* missing only after a failed or torn save or a race of the two threads
\* (Player.h:106-118, Player.cpp:12-45).
THEOREM FriendsAreKept == Spec => []NoFriendForgotten
  <1>1. Init => FriendsInv
    BY DEF Init, FriendsInv, Loaded, Saving
  <1>2. FriendsInv => NoFriendForgotten
    BY DEF FriendsInv, NoFriendForgotten, Fine
  <1> QED BY <1>1, <1>2, FriendsKept, AlwaysHolding, AlwaysTypeInv, PTL DEF Spec
-----------------------------------------------------------------------------
(***************************************************************************)
(* What was received is shown once and in order.                           *)
(*                                                                         *)
(* On its way to the terminal an object passes rcvBuff, the game loop,     *)
(* sysBuff, the game loop again and outputMsg.  These five places form a   *)
(* line: whatever is further on was received earlier.                      *)
(***************************************************************************)
Abouts(q) == [i \in DOMAIN q |-> q[i].about]

InHandler == {"login", "open", "write"}
Working == IF game \in InHandler THEN {cur.about} ELSE {}
Putting == IF game = "put" THEN {cur.about} ELSE {}
Arrived == Elements(Abouts(rcvBuff))
Told == Elements(Abouts(sysBuff))
Output == Elements(outputMsg)

OnTheWay == Output \cup Putting \cup Told \cup Working \cup Arrived

\* 0 is about no object.
Before(S, T) == \A m \in S, n \in T : m # 0 /\ n # 0 => m < n

InLine ==
    /\ Rising(outputMsg) /\ Rising(Abouts(sysBuff)) /\ Rising(Abouts(rcvBuff))
    /\ Before(Output, Putting \cup Told \cup Working \cup Arrived)
    /\ Before(Putting, Told \cup Working \cup Arrived)
    /\ Before(Told, Working \cup Arrived)
    /\ Before(Working, Arrived)

\* Nothing made addFriend fail: only then an object is dropped.
Keeping == ~ unsaved /\ HasPlace

NothingDropped == Keeping => pending \subseteq OnTheWay

Accounted ==
    /\ OnTheWay \subseteq 0..objs
    /\ OnTheWay \ {0} \subseteq pending
    /\ pending \subseteq 1..objs
    /\ NothingDropped

LineInv == InLine /\ Accounted

\* What is shown was not shown before, and nothing received earlier is left,
\* unless a friend could not be added (HandleMsg.cpp:177-445, IOManger.cpp:36-44).
ShownInOrder ==
    [][HandleOutputMsg /\ Head(outputMsg) # 0 =>
          /\ Head(outputMsg) \in pending
          /\ Keeping => \A k \in pending : Head(outputMsg) <= k]_vars
-----------------------------------------------------------------------------
LEMMA TakeRising ==
  ASSUME NEW s \in Seq(Nat), s # <<>>, Rising(s)
  PROVE  /\ Rising(Tail(s)) /\ Head(s) \in Nat
         /\ Elements(s) = {Head(s)} \cup Elements(Tail(s))
         /\ Before({Head(s)}, Elements(Tail(s)))
  BY TailRising, TailElements, TailOf DEF Before

LEMMA PutRising ==
  ASSUME NEW s \in Seq(Nat), NEW n \in Nat, Rising(s), Before(Elements(s), {n})
  PROVE  /\ Rising(Append(s, n))
         /\ Elements(Append(s, n)) = Elements(s) \cup {n}
  BY AppendRising, AppendElements DEF Before

LEMMA AboutsAreNumbers ==
  ASSUME NEW S, \A x \in S : x.about \in Nat, NEW q \in Seq(S)
  PROVE  Abouts(q) \in Seq(Nat) /\ Len(Abouts(q)) = Len(q)
  <1>1. q \in [1..Len(q) -> S] /\ Len(q) \in Nat
    OBVIOUS
  <1>2. Abouts(q) = [i \in 1..Len(q) |-> q[i].about]
    BY <1>1 DEF Abouts
  <1> QED BY <1>1, <1>2

LEMMA TakeAbout ==
  ASSUME NEW S, \A x \in S : x.about \in Nat, NEW q \in Seq(S), q # <<>>, Rising(Abouts(q))
  PROVE  /\ Rising(Abouts(Tail(q))) /\ Head(q).about \in Nat
         /\ Elements(Abouts(q)) = {Head(q).about} \cup Elements(Abouts(Tail(q)))
         /\ Before({Head(q).about}, Elements(Abouts(Tail(q))))
  <1>1. Abouts(q) \in Seq(Nat) /\ Len(Abouts(q)) = Len(q)
    BY AboutsAreNumbers
  <1>2. Abouts(q) # <<>> /\ Len(q) \in Nat \ {0}
    BY <1>1
  <1>3. Head(Abouts(q)) = Head(q).about
    BY <1>1, <1>2 DEF Abouts
  <1>4. Tail(Abouts(q)) = Abouts(Tail(q))
    <2>1. /\ Tail(q) \in Seq(S) /\ DOMAIN Tail(q) = 1..(Len(q) - 1)
          /\ DOMAIN q = 1..Len(q)
          /\ \A i \in 1..(Len(q) - 1) : i + 1 \in DOMAIN q /\ Tail(q)[i] = q[i + 1]
      BY <1>2, TailOf
    <2>2. /\ Tail(Abouts(q)) \in Seq(Nat) /\ DOMAIN Tail(Abouts(q)) = 1..(Len(q) - 1)
          /\ \A i \in 1..(Len(q) - 1) : Tail(Abouts(q))[i] = Abouts(q)[i + 1]
      BY <1>1, <1>2, TailOf
    <2>3. \A i \in 1..(Len(q) - 1) : Abouts(Tail(q))[i] = Abouts(q)[i + 1]
      BY <2>1 DEF Abouts
    <2>4. Abouts(Tail(q)) \in Seq(Nat) /\ Len(Abouts(Tail(q))) = Len(q) - 1
      BY <1>2, <2>1, AboutsAreNumbers, TailOf
    <2>5. Len(Tail(Abouts(q))) = Len(q) - 1
      BY <1>1, <1>2, TailOf
    <2> QED BY <2>2, <2>3, <2>4, <2>5, SameSequence
  <1> QED BY <1>1, <1>2, <1>3, <1>4, TakeRising

LEMMA PutAbout ==
  ASSUME NEW S, \A x \in S : x.about \in Nat, NEW q \in Seq(S), NEW o \in S,
         Rising(Abouts(q)), Before(Elements(Abouts(q)), {o.about})
  PROVE  /\ Rising(Abouts(Append(q, o)))
         /\ Elements(Abouts(Append(q, o))) = Elements(Abouts(q)) \cup {o.about}
  <1>1. Abouts(q) \in Seq(Nat) /\ Len(Abouts(q)) = Len(q) /\ Len(q) \in Nat
    BY AboutsAreNumbers
  <1>2. Abouts(Append(q, o)) = Append(Abouts(q), o.about)
    <2> DEFINE n == Len(q) + 1
    <2>1. /\ DOMAIN q = 1..Len(q) /\ DOMAIN Append(q, o) = 1..n
          /\ Append(q, o)[n] = o /\ \A i \in 1..Len(q) : Append(q, o)[i] = q[i]
      BY AppendOf
    <2>2. /\ DOMAIN Append(Abouts(q), o.about) = 1..n
          /\ Append(Abouts(q), o.about)[n] = o.about
          /\ \A i \in 1..Len(q) : Append(Abouts(q), o.about)[i] = Abouts(q)[i]
      BY <1>1, AppendOf
    <2>3. \A i \in 1..n : i \in 1..Len(q) \/ i = n
      BY <1>1
    <2>4. \A i \in 1..Len(q) : Abouts(q)[i] = q[i].about
      BY <2>1 DEF Abouts
    <2>5. Abouts(Append(q, o)) \in Seq(Nat) /\ Len(Abouts(Append(q, o))) = n
      <3>1. Append(q, o) \in Seq(S) /\ Len(Append(q, o)) = n
        BY AppendOf
      <3> QED BY <3>1, AboutsAreNumbers
    <2>6. Append(Abouts(q), o.about) \in Seq(Nat) /\ Len(Append(Abouts(q), o.about)) = n
      BY <1>1, AppendOf
    <2>7. \A i \in 1..n : Abouts(Append(q, o))[i] = Append(q, o)[i].about
      BY <2>1 DEF Abouts
    <2> HIDE DEF n
    <2>8. \A i \in 1..n : Abouts(Append(q, o))[i] = Append(Abouts(q), o.about)[i]
      BY <2>1, <2>2, <2>3, <2>4, <2>7
    <2> QED BY <2>5, <2>6, <2>8, SameSequence
  <1> QED BY <1>1, <1>2, PutRising
-----------------------------------------------------------------------------
LEMMA LineTypes ==
  ASSUME TypeOK
  PROVE  /\ outputMsg \in Seq(Nat) /\ objs \in Nat /\ cur.about \in Nat
         /\ sysBuff \in Seq(SysMsgs) /\ \A x \in SysMsgs : x.about \in Nat
         /\ rcvBuff \in Seq(Objects) /\ \A x \in Objects : x.about \in Nat
  <1>1. 0..MaxObjs \subseteq Nat
    OBVIOUS
  <1>2. outputMsg \in Seq(Nat)
    BY <1>1, WiderSequence DEF TypeOK
  <1> QED BY <1>1, <1>2 DEF TypeOK, SysMsgs, Objects

\* A friend stays one until the client ends, so a player without a place for
\* another stays one.
LEMMA FriendsStay ==
  ASSUME TypeInv, [Next]_vars, ~ Restart
  PROVE  /\ Friends(player) \subseteq Friends(player')
         /\ unsaved => unsaved'
  <1> DEFINE n == reqBuff[Head(ahead).index]
             o == Head(rcvBuff)
             More == Friends(player) \subseteq Friends(player')
  <1> SUFFICES More /\ (unsaved => unsaved')
    OBVIOUS
  <1>1. CASE UNCHANGED <<player, unsaved>>
    BY <1>1 DEF Friends
  <1>2. CASE AcceptRequest
    <2>1. n \in Names /\ unsaved' = unsaved
      BY <1>2 DEF AcceptRequest, TypeInv, TypeOK
    <2>2. UNCHANGED player \/ SetFriend(n, -1)
      BY <1>2 DEF AcceptRequest
    <2> QED BY <1>1, <2>1, <2>2, SetFriendAdds DEF TypeInv, TypeOK
  <1>3. CASE HandleRecvMsg
    <2>1. o \in Sensible /\ unsaved' = unsaved
      BY <1>3, QueuePops DEF HandleRecvMsg, TypeInv, Answers
    <2>2. \/ UNCHANGED player
          \/ player' = [player EXCEPT !.id = o.id]
          \/ o.name # NoName /\ SetFriend(o.name, o.id)
      BY <1>3 DEF HandleRecvMsg, HandleText, HandleUserRegAccepted, HandleUserLogAccepted,
                  HandleAskForFriend, HandleAskForFriendTooLong, HandleAskForFriendAccept
    <2>3. o.name # NoName => o.name \in Names /\ o.id \in Ids \cup {-1}
      BY <2>1 DEF Sensible, Objects
    <2>4. CASE player' = [player EXCEPT !.id = o.id]
      BY <2>1, <2>4, SetIdAdds DEF TypeInv, TypeOK
    <2>5. CASE o.name # NoName /\ SetFriend(o.name, o.id)
      BY <2>1, <2>3, <2>5, SetFriendAdds DEF TypeInv, TypeOK
    <2> QED BY <1>1, <2>1, <2>2, <2>4, <2>5
  <1>4. CASE SetPlayerLogin
    BY <1>4, SetIdAdds DEF SetPlayerLogin, TypeInv, TypeOK
  <1>5. CASE TerminalOpens \/ GameOpens \/ TerminalWrites \/ GameWrites
    <2>1. player' = player /\ (unsaved => unsaved')
      BY <1>5 DEF TerminalOpens, GameOpens, TerminalWrites, GameWrites, WriteFile
    <2> QED BY <2>1 DEF Friends
  <1>6. CASE \/ Rest \/ HandleOutputMsg \/ HandleTalk \/ SayWord
             \/ SpuriousWakeup \/ (\E line \in Lines : Type(line)) \/ SendOne
             \/ (\E x \in Received(objs + 1) : RecvMsg(x)) \/ UNCHANGED vars
    BY <1>1, <1>6 DEF Rest, HandleOutputMsg, HandleTalk, SayWord,
                      SpuriousWakeup, Type, SendOne, RecvMsg, vars, data, past
  <1>7. CASE \/ HandleSysMsg \/ PutOutputMsg \/ NothingReceived
             \/ HandleSysInput \/ ScanKeyBoard \/ NoKeyFound \/ \E key \in Keys : KeyFound(key)
    BY <1>1, <1>7 DEF HandleSysMsg, PutOutputMsg, NothingReceived,
                      HandleSysInput, ScanKeyBoard, NoKeyFound, KeyFound, data, past
  <1> QED BY <1>2, <1>3, <1>4, <1>5, <1>6, <1>7 DEF Next, GameStep, TerminalStep

LEMMA KeepingBefore ==
  ASSUME TypeInv, [Next]_vars, ~ Restart, Keeping'
  PROVE  Keeping
  <1>1. Friends(player) \subseteq Friends(player') /\ ~ unsaved
    BY FriendsStay DEF Keeping
  <1>2. IsFiniteSet(Friends(player')) /\ IsFiniteSet(Friends(player))
    BY FS_Subset, ClientAssumption DEF Friends
  <1>3. Cardinality(Friends(player)) <= Cardinality(Friends(player'))
    BY <1>1, <1>2, FS_Subset
  <1>4. Cardinality(Friends(player)) \in Nat /\ Cardinality(Friends(player')) \in Nat
    BY <1>2, FS_CardinalityType
  <1> QED BY <1>1, <1>3, <1>4, ClientAssumption DEF Keeping, HasPlace

LEMMA StillAccounted ==
  ASSUME Accounted, UNCHANGED <<objs, pending>>, objs \in Nat,
         OnTheWay' \subseteq OnTheWay \cup {0},
         Keeping' => Keeping /\ OnTheWay \subseteq OnTheWay' \cup {0}
  PROVE  Accounted'
  <1>1. OnTheWay' \subseteq 0..objs'
    BY DEF Accounted
  <1> QED BY <1>1 DEF Accounted, NothingDropped

\* Steps that move no object.
LEMMA NothingMoves ==
  ASSUME TypeOK, LineInv, UNCHANGED <<outputMsg, sysBuff, rcvBuff, objs, pending>>,
         Putting' = Putting, Working' = Working, Keeping' => Keeping
  PROVE  LineInv'
  <1>1. Output' = Output /\ Told' = Told /\ Arrived' = Arrived
    BY DEF Output, Told, Arrived
  <1>2. OnTheWay' = OnTheWay
    BY <1>1 DEF OnTheWay
  <1>3. Accounted'
    BY <1>2, StillAccounted, LineTypes DEF LineInv
  <1> QED BY <1>1, <1>3 DEF LineInv, InLine

\* The terminal thread and the game loop tell the player something that no
\* object is about.
LEMMA NothingAbout ==
  ASSUME TypeOK, LineInv, NEW m \in SysMsgs, m.about = 0,
         sysBuff' = Append(sysBuff, m),
         UNCHANGED <<outputMsg, rcvBuff, objs, pending>>,
         Putting' = Putting, Working' = Working, Keeping' => Keeping
  PROVE  LineInv'
  <1>1. Output' = Output /\ Arrived' = Arrived
    BY DEF Output, Arrived
  <1>2. Before(Told, {m.about})
    BY DEF Before
  <1>3. Rising(Abouts(sysBuff')) /\ Told' = Told \cup {0}
    BY <1>2, PutAbout, LineTypes DEF LineInv, InLine, Told
  <1>4. OnTheWay' = OnTheWay \cup {0}
    BY <1>1, <1>3 DEF OnTheWay
  <1>5. Accounted'
    BY <1>4, StillAccounted, LineTypes DEF LineInv
  <1> QED BY <1>1, <1>3, <1>5 DEF LineInv, InLine, Before

\* What is told about an object is told after the earlier ones.
LEMMA ToldLater ==
  ASSUME TypeOK, NEW k \in Nat, Tell(k), Rising(Abouts(sysBuff)), Before(Told, {k}),
         Msg("OUTPUT", k) \in SysMsgs
  PROVE  Rising(Abouts(sysBuff')) /\ Told' = Told \cup {k}
  <1> DEFINE m == Msg("OUTPUT", k)
  <1>1. m.about = k /\ m \in SysMsgs
    BY DEF Msg
  <1>2. sysBuff' = Append(sysBuff, m)
    BY DEF Tell
  <1> HIDE DEF m
  <1> QED BY <1>1, <1>2, PutAbout, LineTypes DEF Told

LEMMA HandleOutputMsgKeepsLine ==
  ASSUME TypeOK, LineInv, HandleOutputMsg, Keeping' => Keeping
  PROVE  /\ LineInv'
         /\ Head(outputMsg) # 0 => Head(outputMsg) \in pending
         /\ Keeping => \A k \in pending : Head(outputMsg) <= k
  <1> DEFINE h == Head(outputMsg)
             Rest0 == Output' \cup Putting \cup Told \cup Working \cup Arrived
  <1>1. /\ outputMsg # <<>> /\ outputMsg' = Tail(outputMsg) /\ pending' = pending \ {h}
        /\ UNCHANGED <<sysBuff, rcvBuff, objs>>
        /\ Putting' = Putting /\ Working' = Working /\ Told' = Told /\ Arrived' = Arrived
    BY DEF HandleOutputMsg, queues, counts, Putting, Working, Told, Arrived
  <1>2. /\ Rising(outputMsg') /\ h \in Nat
        /\ Output = {h} \cup Output'
        /\ Before({h}, Output')
    BY <1>1, TakeRising, LineTypes DEF LineInv, InLine, Output
  <1> HIDE DEF h
  <1>3. InLine'
    BY <1>1, <1>2 DEF LineInv, InLine, Before
  <1>4. OnTheWay = {h} \cup OnTheWay'
    BY <1>1, <1>2 DEF OnTheWay
  <1>5. Before({h}, OnTheWay')
    BY <1>1, <1>2 DEF LineInv, InLine, Before, OnTheWay
  <1>6. h # 0 => h \in pending /\ h \notin OnTheWay'
    BY <1>2, <1>4, <1>5 DEF LineInv, Accounted, Before
  <1>7. Accounted'
    BY <1>1, <1>4, <1>6 DEF LineInv, Accounted, NothingDropped
  <1>8. Keeping => \A k \in pending : h <= k
    <2> SUFFICES ASSUME Keeping, NEW k \in pending PROVE h <= k
      OBVIOUS
    <2>1. k \in OnTheWay /\ k \in Nat \ {0}
      BY LineTypes DEF LineInv, Accounted, NothingDropped
    <2>2. k = h \/ (h # 0 => h < k)
      BY <1>4, <1>5, <2>1 DEF Before
    <2> QED BY <1>2, <2>1, <2>2
  <1> QED BY <1>3, <1>6, <1>7, <1>8 DEF LineInv, h

LEMMA HandleSysMsgKeepsLine ==
  ASSUME TypeOK, LineInv, HandleSysMsg, Keeping' => Keeping
  PROVE  LineInv'
  <1>1. CASE sysBuff = <<>>
    <2>1. /\ UNCHANGED <<outputMsg, sysBuff, rcvBuff, objs, pending>>
          /\ Putting' = Putting /\ Working' = Working
      BY <1>1 DEF HandleSysMsg, counts, Putting, Working, InHandler
    <2> QED BY <2>1, NothingMoves
  <1>2. CASE sysBuff # <<>>
    <2> DEFINE k == Head(sysBuff).about
    <2>1. /\ sysBuff' = Tail(sysBuff) /\ UNCHANGED <<outputMsg, rcvBuff, objs, pending>>
          /\ cur'.about = k /\ game = "sysMsg" /\ game' = "put"
      BY <1>2 DEF HandleSysMsg, NoCur, Obj, counts
    <2>2. /\ Putting = {} /\ Putting' = {k} /\ Working = {} /\ Working' = {}
          /\ Output' = Output /\ Arrived' = Arrived
      BY <2>1 DEF Putting, Working, InHandler, Output, Arrived
    <2>3. /\ Rising(Abouts(sysBuff')) /\ k \in Nat
          /\ Told = {k} \cup Told' /\ Before({k}, Told')
      BY <1>2, <2>1, TakeAbout, LineTypes DEF LineInv, InLine, Told
    <2> HIDE DEF k
    <2>4. InLine'
      BY <2>1, <2>2, <2>3 DEF LineInv, InLine, Before
    <2>5. OnTheWay' = OnTheWay
      BY <2>2, <2>3 DEF OnTheWay
    <2>6. Accounted'
      BY <2>1, <2>5, StillAccounted, LineTypes DEF LineInv
    <2> QED BY <2>4, <2>6 DEF LineInv
  <1> QED BY <1>1, <1>2

LEMMA PutOutputMsgKeepsLine ==
  ASSUME TypeOK, LineInv, PutOutputMsg, Keeping' => Keeping
  PROVE  LineInv'
  <1> DEFINE k == cur.about
  <1>1. /\ outputMsg' = Append(outputMsg, k) /\ UNCHANGED <<sysBuff, rcvBuff, objs, pending>>
        /\ game = "put" /\ game' = "recv"
    BY DEF PutOutputMsg, queues, past, counts
  <1>2. /\ Putting = {k} /\ Putting' = {} /\ Working = {} /\ Working' = {}
        /\ Told' = Told /\ Arrived' = Arrived
    BY <1>1 DEF Putting, Working, InHandler, Told, Arrived
  <1>3. Before(Output, {k})
    BY <1>2 DEF LineInv, InLine, Before
  <1>4. Rising(outputMsg') /\ Output' = Output \cup {k}
    BY <1>1, <1>3, PutRising, LineTypes DEF LineInv, InLine, Output
  <1> HIDE DEF k
  <1>5. InLine'
    BY <1>1, <1>2, <1>4 DEF LineInv, InLine, Before
  <1>6. OnTheWay' = OnTheWay
    BY <1>2, <1>4 DEF OnTheWay
  <1>7. Accounted'
    BY <1>1, <1>6, StillAccounted, LineTypes DEF LineInv
  <1> QED BY <1>5, <1>7 DEF LineInv

LEMMA HandleRecvMsgKeepsLine ==
  ASSUME TypeInv, LineInv, HandleRecvMsg, Keeping' => Keeping
  PROVE  LineInv'
  <1> DEFINE o == Head(rcvBuff)
             k == o.about
  <1>1. /\ rcvBuff # <<>> /\ rcvBuff' = Tail(rcvBuff)
        /\ UNCHANGED <<outputMsg, objs, pending, unsaved>>
        /\ game = "recv"
    BY DEF HandleRecvMsg, counts
  <1>2. \/ Tell(k) /\ game' = "sysInput"
        \/ UNCHANGED sysBuff /\ game' \in {"login", "open"} /\ cur' = o
        \/ UNCHANGED <<sysBuff, player>> /\ game' = "sysInput" /\ (~ HasPlace \/ k = 0)
    <2>1. HandleAskForFriendTooLong(o) => k = 0
      <3>1. o \in Sensible
        BY <1>1, QueuePops DEF TypeInv, Answers
      <3> QED BY <3>1 DEF HandleAskForFriendTooLong, Sensible
    <2> QED BY <2>1
         DEF HandleRecvMsg, HandleText, HandleUserRegAccepted, HandleUserLogAccepted,
             HandleAskForFriend, HandleAskForFriendTooLong, HandleAskForFriendAccept,
             Handled, Continue
  <1>3. o \in Objects /\ Msg("OUTPUT", k) \in SysMsgs
    <2>1. o \in Objects
      BY <1>1, LineTypes, TailOf DEF TypeInv
    <2> QED BY <2>1 DEF Objects, Msg, SysMsgs
  <1>4. /\ Rising(Abouts(rcvBuff')) /\ k \in Nat
        /\ Arrived = {k} \cup Arrived' /\ Before({k}, Arrived')
    BY <1>1, TakeAbout, LineTypes DEF LineInv, InLine, Arrived, TypeInv
  <1>5. Putting = {} /\ Working = {} /\ Putting' = {} /\ Output' = Output
    BY <1>1, <1>2 DEF Putting, Working, InHandler, Output
  <1>6. CASE Tell(k) /\ game' = "sysInput"
    <2>1. Before(Told, {k})
      BY <1>4 DEF LineInv, InLine, Before
    <2>2. Rising(Abouts(sysBuff')) /\ Told' = Told \cup {k}
      BY <1>3, <1>4, <1>6, <2>1, ToldLater DEF LineInv, InLine, TypeInv
    <2>3. Working' = {}
      BY <1>6 DEF Working, InHandler
    <2> HIDE DEF o, k
    <2>4. InLine'
      BY <1>1, <1>4, <1>5, <2>2, <2>3 DEF LineInv, InLine, Before
    <2>5. OnTheWay' = OnTheWay
      BY <1>4, <1>5, <2>2, <2>3 DEF OnTheWay
    <2>6. Accounted'
      BY <1>1, <2>5, StillAccounted, LineTypes DEF LineInv, TypeInv
    <2> QED BY <2>4, <2>6 DEF LineInv
  <1>7. CASE UNCHANGED sysBuff /\ game' \in {"login", "open"} /\ cur' = o
    <2>1. Working' = {k} /\ Told' = Told
      BY <1>7 DEF Working, InHandler, Told
    <2> HIDE DEF o, k
    <2>2. InLine'
      BY <1>1, <1>4, <1>5, <1>7, <2>1 DEF LineInv, InLine, Before
    <2>3. OnTheWay' = OnTheWay
      BY <1>4, <1>5, <2>1 DEF OnTheWay
    <2>4. Accounted'
      BY <1>1, <2>3, StillAccounted, LineTypes DEF LineInv, TypeInv
    <2> QED BY <2>2, <2>4 DEF LineInv
  <1>8. CASE UNCHANGED <<sysBuff, player>> /\ game' = "sysInput" /\ (~ HasPlace \/ k = 0)
    <2>1. Working' = {} /\ Told' = Told
      BY <1>8 DEF Working, InHandler, Told
    <2>2. ~ Keeping' \/ k = 0
      BY <1>8 DEF Keeping, HasPlace, Friends
    <2> HIDE DEF o, k
    <2>3. InLine'
      BY <1>1, <1>4, <1>5, <1>8, <2>1 DEF LineInv, InLine, Before
    <2>4. OnTheWay' \subseteq OnTheWay /\ OnTheWay \subseteq OnTheWay' \cup {k}
      BY <1>4, <1>5, <2>1 DEF OnTheWay
    <2>5. Accounted'
      BY <1>1, <2>2, <2>4, StillAccounted, LineTypes DEF LineInv, TypeInv
    <2> QED BY <2>3, <2>5 DEF LineInv
  <1> QED BY <1>2, <1>6, <1>7, <1>8

LEMMA SavingKeepsLine ==
  ASSUME TypeOK, LineInv, GameOpens \/ GameWrites, Keeping' => Keeping
  PROVE  LineInv'
  <1> DEFINE k == cur.about
  <1>1. /\ UNCHANGED <<outputMsg, rcvBuff, objs, pending>>
        /\ game \in {"open", "write"}
    BY DEF GameOpens, GameWrites, counts
  <1>2. \/ game' = "write" /\ UNCHANGED <<sysBuff, cur>>
        \/ game' = "sysInput" /\ UNCHANGED sysBuff /\ unsaved'
        \/ game' = "sysInput" /\ Tell(k)
    BY DEF GameOpens, GameWrites
  <1>3. Working = {k} /\ Putting = {} /\ Putting' = {} /\ Output' = Output /\ Arrived' = Arrived
    BY <1>1, <1>2 DEF Putting, Working, InHandler, Output, Arrived
  <1>4. k \in Nat /\ Msg("OUTPUT", k) \in SysMsgs
    BY DEF TypeOK, Objects, Msg, SysMsgs
  <1>5. CASE game' = "write" /\ UNCHANGED <<sysBuff, cur>>
    <2>1. Working' = Working
      BY <1>3, <1>5 DEF Working, InHandler
    <2> QED BY <1>1, <1>3, <1>5, <2>1, NothingMoves
  <1>6. CASE game' = "sysInput" /\ UNCHANGED sysBuff /\ unsaved'
    <2>1. Working' = {} /\ Told' = Told /\ ~ Keeping'
      BY <1>6 DEF Working, InHandler, Told, Keeping
    <2> HIDE DEF k
    <2>2. InLine'
      BY <1>1, <1>3, <1>6, <2>1 DEF LineInv, InLine, Before
    <2>3. OnTheWay' \subseteq OnTheWay
      BY <1>3, <2>1 DEF OnTheWay
    <2>4. Accounted'
      BY <1>1, <2>1, <2>3, StillAccounted, LineTypes DEF LineInv
    <2> QED BY <2>2, <2>4 DEF LineInv
  <1>7. CASE game' = "sysInput" /\ Tell(k)
    <2>1. Before(Told, {k})
      BY <1>3 DEF LineInv, InLine, Before
    <2>2. Rising(Abouts(sysBuff')) /\ Told' = Told \cup {k}
      BY <1>4, <1>7, <2>1, ToldLater DEF LineInv, InLine
    <2>3. Working' = {}
      BY <1>7 DEF Working, InHandler
    <2> HIDE DEF k
    <2>4. InLine'
      BY <1>1, <1>3, <2>2, <2>3 DEF LineInv, InLine, Before
    <2>5. OnTheWay' = OnTheWay
      BY <1>3, <2>2, <2>3 DEF OnTheWay
    <2>6. Accounted'
      BY <1>1, <2>5, StillAccounted, LineTypes DEF LineInv
    <2> QED BY <2>4, <2>6 DEF LineInv
  <1> QED BY <1>2, <1>5, <1>6, <1>7

\* The words of the player and the acceptance of a request.
LEMMA TerminalKeepsLine ==
  ASSUME TypeOK, LineInv, SayWord \/ AcceptRequest, Keeping' => Keeping
  PROVE  LineInv'
  <1>1. /\ UNCHANGED <<outputMsg, rcvBuff, objs, pending>>
        /\ Putting' = Putting /\ Working' = Working
    BY DEF SayWord, AcceptRequest, past, counts, Putting, Working, InHandler
  <1>2. \/ UNCHANGED sysBuff
        \/ \E t \in {"OUTPUT", "FRIENDS", "REQUESTS"} : sysBuff' = Append(sysBuff, Msg(t, 0))
    <2>1. CASE SayWord
      <3>1. Head(ahead) \in Words
        BY <2>1, QueuePops DEF SayWord, TypeOK
      <3>2. Say(Head(ahead))
        BY <2>1 DEF SayWord
      <3> QED BY <3>1, <3>2 DEF Say, Push, Show, Refuse, Shows
    <2>2. CASE AcceptRequest
      BY <2>2 DEF AcceptRequest
    <2> QED BY <2>1, <2>2
  <1>3. ASSUME NEW t \in {"OUTPUT", "FRIENDS", "REQUESTS"}, sysBuff' = Append(sysBuff, Msg(t, 0))
        PROVE  LineInv'
    <2>1. Msg(t, 0) \in SysMsgs /\ Msg(t, 0).about = 0
      BY ClientAssumption DEF Msg, SysMsgs
    <2> QED BY <1>1, <1>3, <2>1, NothingAbout
  <1> QED BY <1>1, <1>2, <1>3, NothingMoves

LEMMA RecvMsgKeepsLine ==
  ASSUME TypeOK, LineInv, NEW o \in Received(objs + 1), RecvMsg(o), Keeping' => Keeping
  PROVE  LineInv'
  <1> DEFINE k == o.about
  <1>1. o \in Objects /\ k \in {0, objs + 1} /\ objs \in Nat
    BY ReceivedIsSensible, LineTypes DEF RecvMsg, Sensible
  <1>2. /\ rcvBuff' = Append(rcvBuff, o) /\ objs' = objs + 1
        /\ pending' = pending \cup ({k} \ {0}) /\ UNCHANGED <<outputMsg, sysBuff>>
        /\ Putting' = Putting /\ Working' = Working /\ Output' = Output /\ Told' = Told
    BY <1>1 DEF RecvMsg, ui, Putting, Working, InHandler, Output, Told
  <1>3. Before(OnTheWay, {k}) /\ OnTheWay \subseteq 0..objs
    BY <1>1 DEF LineInv, Accounted, Before
  <1>4. Before(Arrived, {k})
    BY <1>1, <1>3 DEF Before, OnTheWay
  <1>5. Rising(Abouts(rcvBuff')) /\ Arrived' = Arrived \cup {k}
    <2>1. rcvBuff \in Seq(Objects) /\ \A x \in Objects : x.about \in Nat
      BY LineTypes
    <2>2. Rising(Abouts(rcvBuff)) /\ Before(Elements(Abouts(rcvBuff)), {k})
      BY <1>4 DEF LineInv, InLine, Arrived
    <2>3. /\ Rising(Abouts(Append(rcvBuff, o)))
          /\ Elements(Abouts(Append(rcvBuff, o))) = Elements(Abouts(rcvBuff)) \cup {k}
      BY <1>1, <2>1, <2>2, PutAbout
    <2> QED BY <1>1, <1>2, <2>3 DEF Arrived
  <1>6. OnTheWay' = OnTheWay \cup {k}
    BY <1>2, <1>5 DEF OnTheWay
  <1>7. InLine'
    BY <1>2, <1>3, <1>5 DEF LineInv, InLine, Before, OnTheWay
  <1>8. Accounted'
    <2> HIDE DEF k
    <2>1. OnTheWay' \subseteq 0..objs' /\ pending' \subseteq 1..objs'
      <3>1. 0..objs \subseteq 0..objs' /\ 1..objs \subseteq 1..objs'
        BY <1>1, <1>2
      <3>2. k \in 0..objs' /\ (k # 0 => k \in 1..objs')
        BY <1>1, <1>2
      <3>3. pending \subseteq 1..objs
        BY DEF LineInv, Accounted
      <3> QED BY <1>2, <1>3, <1>6, <3>1, <3>2, <3>3
    <2>2. OnTheWay' \ {0} \subseteq pending' /\ NothingDropped'
      BY <1>1, <1>2, <1>3, <1>6 DEF LineInv, Accounted, NothingDropped
    <2> QED BY <2>1, <2>2 DEF Accounted
  <1> QED BY <1>7, <1>8 DEF LineInv

LEMMA LineInit == Init => LineInv
  <1> SUFFICES ASSUME Init PROVE LineInv
    OBVIOUS
  <1>1. /\ outputMsg = <<>> /\ Abouts(sysBuff) = <<>> /\ Abouts(rcvBuff) = <<>>
        /\ pending = {} /\ Putting = {} /\ Working = {}
    BY DEF Init, Abouts, Putting, Working, InHandler
  <1>2. Output = {} /\ Told = {} /\ Arrived = {}
    BY <1>1, EmptyElements DEF Output, Told, Arrived
  <1> QED BY <1>1, <1>2, EmptyElements
       DEF LineInv, InLine, Accounted, NothingDropped, OnTheWay, Before

LEMMA LineKept ==
  ASSUME TypeInv, LineInv, [Next]_vars
  PROVE  LineInv'
  <1> USE DEF TypeInv
  <1>1. CASE Restart
    <2>1. /\ outputMsg' = <<>> /\ Abouts(sysBuff') = <<>> /\ Abouts(rcvBuff') = <<>>
          /\ pending' = {} /\ Putting' = {} /\ Working' = {}
      BY <1>1 DEF Restart, Abouts, Putting, Working, InHandler
    <2>2. Output' = {} /\ Told' = {} /\ Arrived' = {}
      BY <2>1, EmptyElements DEF Output, Told, Arrived
    <2> QED BY <2>1, <2>2, EmptyElements
         DEF LineInv, InLine, Accounted, NothingDropped, OnTheWay, Before
  <1> SUFFICES ASSUME ~ Restart PROVE LineInv'
    BY <1>1
  <1>2. Keeping' => Keeping
    BY KeepingBefore
  <1>3. CASE HandleOutputMsg
    BY <1>2, <1>3, HandleOutputMsgKeepsLine
  <1>4. CASE HandleSysMsg
    BY <1>2, <1>4, HandleSysMsgKeepsLine
  <1>5. CASE PutOutputMsg
    BY <1>2, <1>5, PutOutputMsgKeepsLine
  <1>6. CASE HandleRecvMsg
    BY <1>2, <1>6, HandleRecvMsgKeepsLine
  <1>7. CASE GameOpens \/ GameWrites
    BY <1>2, <1>7, SavingKeepsLine
  <1>8. CASE SayWord \/ AcceptRequest
    BY <1>2, <1>8, TerminalKeepsLine
  <1>9. ASSUME NEW o \in Received(objs + 1), RecvMsg(o) PROVE LineInv'
    BY <1>2, <1>9, RecvMsgKeepsLine
  <1>10. CASE \/ Rest \/ HandleTalk \/ TerminalOpens \/ TerminalWrites
              \/ SpuriousWakeup \/ (\E line \in Lines : Type(line)) \/ SendOne
              \/ UNCHANGED vars
    <2>1. /\ UNCHANGED <<outputMsg, sysBuff, rcvBuff, objs, pending>>
          /\ Putting' = Putting /\ Working' = Working
      BY <1>10 DEF Rest, HandleTalk, TerminalOpens, TerminalWrites, SpuriousWakeup, Type,
                   SendOne, vars, ui, queues, data, past, counts, Putting, Working, InHandler
    <2> QED BY <1>2, <2>1, NothingMoves
  <1>11. CASE \/ NothingReceived \/ SetPlayerLogin \/ HandleSysInput \/ ScanKeyBoard
              \/ NoKeyFound \/ \E key \in Keys : KeyFound(key)
    <2>1. /\ UNCHANGED <<outputMsg, sysBuff, rcvBuff, objs, pending>>
          /\ Putting' = Putting /\ Working' = Working
      BY <1>11 DEF NothingReceived, SetPlayerLogin, HandleSysInput, ScanKeyBoard, NoKeyFound,
                   OpenTty, Abort, KeyFound, queues, data, past, counts, Putting, Working,
                   InHandler
    <2> QED BY <1>2, <2>1, NothingMoves
  <1> QED BY <1>3, <1>4, <1>5, <1>6, <1>7, <1>8, <1>9, <1>10, <1>11
       DEF Next, GameStep, TerminalStep

LEMMA AlwaysInLine == Spec => [](TypeInv /\ LineInv)
  <1>1. Init => TypeInv /\ LineInv
    BY InitTypes, LineInit
  <1>2. TypeInv /\ LineInv /\ [Next]_vars => (TypeInv /\ LineInv)'
    BY TypesKept, LineKept
  <1> QED BY <1>1, <1>2, PTL DEF Spec

\* Through any number of objects and restarts, what the client has received is on
\* its way to the terminal until it is shown, unless a friend could not be added
\* (SysManger.h:57-62, SysManger.cpp:9-67, HandleMsg.cpp:177-445).
THEOREM ReceivedIsKept == Spec => []NothingDropped
  <1>1. LineInv => NothingDropped
    BY DEF LineInv, Accounted
  <1> QED BY <1>1, AlwaysInLine, PTL

\* The player sees every object at most once and in the order of the server,
\* although three queues and two threads are between them.
THEOREM ReceivedIsShownInOrder == Spec => ShownInOrder
  <1> DEFINE h == Head(outputMsg)
             InOrder == /\ h \in pending
                        /\ Keeping => \A k \in pending : h <= k
  <1>1. TypeInv /\ LineInv /\ [Next]_vars => [HandleOutputMsg /\ h # 0 => InOrder]_vars
    <2> SUFFICES ASSUME TypeInv, LineInv, [Next]_vars, HandleOutputMsg, h # 0
                 PROVE  InOrder
      OBVIOUS
    <2>1. outputMsg # <<>> /\ outputMsg' = Tail(outputMsg)
      BY DEF HandleOutputMsg
    <2>2. ~ Restart
      BY DEF HandleOutputMsg, Restart, counts, TypeInv, TypeOK
    <2> QED BY <2>2, KeepingBefore, HandleOutputMsgKeepsLine DEF TypeInv
  <1> QED BY <1>1, AlwaysInLine, PTL DEF Spec, ShownInOrder
=============================================================================
